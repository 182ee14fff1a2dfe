---------------------------- MODULE MobileOrder ----------------------------
(***************************************************************************)
(* In-app purchases.  The learner has paid Apple or Google; the app posts  *)
(* the purchase to MobileCreateOrderView, which finds or makes the         *)
(* learner's customer, replaces the active cart by one of its own, has the *)
(* purchase validated, and turns cart and payment into an order, one call  *)
(* to Commercetools after the other.  The app repeats what failed, so that *)
(* several requests of one learner may run side by side, and the LMS may   *)
(* retire the learner meanwhile, which anonymizes the customer.            *)
(***************************************************************************)
EXTENDS OrderNumbers, FiniteSets

CONSTANTS
  Purchases, \* purchases of one learner at the store
  MaxLive,   \* bound on requests that run side by side
  MaxRetirements, \* bound on the LMS's calls to retire the learner
  MaxFaults  \* bound on failed calls

ASSUME MobileOrderAssumption == {MaxLive, MaxRetirements, MaxFaults} \subseteq Nat

VARIABLES
  customer,    \* Commercetools: the learner's customer, version 0 if there is none
  retirement,  \* the LMS's call to retire the learner
  payments,    \* Commercetools: purchases that have a payment
  carts,       \* Commercetools: the cart of every request
  orders,      \* Commercetools: the order of every request: none, Initial, Pending
  asks,        \* the purchase that a request is about
  pc,          \* the call a request makes next
  view,        \* what a request has read
  answer,      \* its answer, an HTTP status
  late,        \* history: its purchase had an order when it began
  undisturbed, \* history: it began alone, and has been alone and without a fault
  faults       \* faults so far

stored == <<customer, payments, carts, orders, retirement>>
request == <<asks, pc, view, answer, late>>
vars == <<numberVars, stored, request, undisturbed, faults>>

Fault ==
  /\ faults < MaxFaults
  /\ faults' = faults + 1
  /\ undisturbed' = [r \in Requests |-> FALSE]

NoFault == UNCHANGED <<faults, undisturbed>>

Live(r) == pc[r] \notin {"idle", "done"}

\* The variable cart of the view: at first the cart it found, then its own.
NoView == [customer |-> 0, profile |-> "none", cart |-> {}, paid |-> FALSE]

\* twin: a second customer has the learner's LMS user id.
NoCustomer == [version |-> 0, profile |-> "none", twin |-> FALSE]
OldCustomer == [version |-> 1, profile |-> "old", twin |-> FALSE]

Init ==
  /\ NumberInit
  /\ customer \in {NoCustomer, OldCustomer}
  /\ retirement = [step |-> "none", seen |-> 0, calls |-> 0, answer |-> 0]
  /\ payments = {}
  /\ carts = [r \in Requests |-> [status |-> "none", paid |-> FALSE]]
  /\ orders = [r \in Requests |-> "none"]
  /\ asks \in [Requests -> Purchases]
  /\ pc = [r \in Requests |-> "idle"]
  /\ view = [r \in Requests |-> NoView]
  /\ answer = [r \in Requests |-> 0]
  /\ late = [r \in Requests |-> FALSE]
  /\ undisturbed = [r \in Requests |-> FALSE]
  /\ faults = 0

-----------------------------------------------------------------------------
(* How a call ends. *)

Reads(r, next, v) ==
  /\ pc' = [pc EXCEPT ![r] = next]
  /\ view' = [view EXCEPT ![r] = v]
  /\ UNCHANGED answer

GoesOn(r, next) == Reads(r, next, view[r])

Answers(r, code) ==
  /\ pc' = [pc EXCEPT ![r] = "done"]
  /\ view' = [view EXCEPT ![r] = NoView]
  /\ answer' = [answer EXCEPT ![r] = code]

\* CommercetoolsError: the view deletes the cart it knows of, unless it has an order.
Refused(r) ==
  IF view[r].cart = {} \/ orders[r] # "none" THEN Answers(r, 500) ELSE GoesOn(r, "clean")

\* Anything else, a lost answer above all, leaves the view as it is.
Dies(r) == Answers(r, 500)

\* A call succeeds, or did and its answer is lost.
Succeeds(r, next) ==
  \/ GoesOn(r, next) /\ NoFault
  \/ Dies(r) /\ Fault

\* A call fails without effect, after three attempts if it is retried.
CallFails(r) ==
  /\ pc[r] \in {"customer", "profile", "cart", "drop", "number", "create", "pay", "add",
                "order", "place", "clean"}
  /\ Fault
  /\ IF pc[r] = "clean" THEN Dies(r) ELSE Refused(r) \/ Dies(r)
  /\ UNCHANGED <<numberVars, stored, asks, late>>

-----------------------------------------------------------------------------
(* The customer. *)

ActiveCarts == {s \in Requests : carts[s].status = "active"}

\* A request comes in.
MobileCreateOrderView(r) ==
  LET sold == \E s \in Requests : orders[s] # "none" /\ asks[s] = asks[r]
      alone == /\ \A s \in Requests : ~Live(s)
               /\ retirement.step # "anonymize"
               /\ ~customer.twin
  IN
  /\ pc[r] = "idle"
  /\ Cardinality({s \in Requests : Live(s)}) < MaxLive
  /\ GoesOn(r, "customer")
  /\ late' = [late EXCEPT ![r] = sold]
  /\ undisturbed' = [s \in Requests |->
       s = r /\ alone /\ ~sold /\ Cardinality(ActiveCarts) <= 1]
  /\ UNCHANGED <<numberVars, stored, asks, view, faults>>

\* Two customers are an error, which no caller handles.
get_customer_by_lms_user ==
  CASE customer.twin -> "raises"
    [] ~customer.twin /\ customer.version = 0 -> "none"
    [] ~customer.twin /\ customer.version > 0 -> "found"

get_ct_customer(r) ==
  /\ pc[r] = "customer"
  /\ \/ /\ get_customer_by_lms_user # "raises"
        /\ Reads(r, IF customer.profile = "current" THEN "cart" ELSE "profile",
                 [NoView EXCEPT !.customer = customer.version, !.profile = customer.profile])
     \/ get_customer_by_lms_user = "raises" /\ Dies(r)
  /\ NoFault
  /\ UNCHANGED <<numberVars, stored, asks, late>>

\* Commercetools knows no second customer with the same email; that of a retired
\* customer is another one.
create_customer(r) ==
  /\ pc[r] = "profile"
  /\ view[r].customer = 0
  /\ \/ /\ customer.version = 0
        /\ customer' = [version |-> 1, profile |-> "current", twin |-> FALSE]
        /\ Succeeds(r, "cart")
     \/ /\ customer.profile = "retired"
        /\ customer' = [customer EXCEPT !.twin = TRUE]
        /\ Succeeds(r, "cart")
     \/ /\ customer.profile \in {"old", "current"} \/ customer.twin
        /\ Refused(r)
        /\ NoFault
        /\ UNCHANGED customer
  /\ UNCHANGED <<numberVars, retirement, payments, carts, orders, asks, late>>

CurrentCustomer_Unchecked(version) == TRUE \* a mutant: the update carries no version

CurrentCustomer(version) == version = customer.version

\* The customer is given the attributes of the user whose request it is.
update_customer(r) ==
  /\ pc[r] = "profile"
  /\ view[r].customer > 0
  /\ IF CurrentCustomer(view[r].customer)
     THEN /\ customer' = [customer EXCEPT !.version = @ + 1, !.profile = "current"]
          /\ Succeeds(r, "cart")
     ELSE /\ Refused(r)
          /\ NoFault
          /\ UNCHANGED customer
  /\ UNCHANGED <<numberVars, retirement, payments, carts, orders, asks, late>>

Retired(code, calls) == [step |-> "done", seen |-> 0, calls |-> calls, answer |-> code]

\* The LMS asks for the learner's retirement, and again if it is not told 204.
RetirementView ==
  /\ retirement.step = "none" \/ retirement.answer \in {400, 500}
  /\ retirement.calls < MaxRetirements
  /\ retirement' =
       CASE get_customer_by_lms_user = "found" ->
              [step |-> "anonymize", seen |-> customer.version,
               calls |-> retirement.calls + 1, answer |-> 0]
         [] get_customer_by_lms_user = "none" -> Retired(204, retirement.calls + 1)
         [] get_customer_by_lms_user = "raises" -> Retired(500, retirement.calls + 1)
  /\ undisturbed' = [r \in Requests |-> FALSE]
  /\ UNCHANGED <<numberVars, customer, payments, carts, orders, request, faults>>

RetirementEnds(code) == retirement' = Retired(code, retirement.calls)

retire_customer_anonymize_fields ==
  customer' = [customer EXCEPT !.version = @ + 1, !.profile = "retired"]

\* A Commercetools or HTTP error ends the pipeline without a customer, the answer is
\* 400; any other is 500.
AnonymizeRetiredUser ==
  /\ retirement.step = "anonymize"
  /\ \/ /\ CurrentCustomer(retirement.seen)
        /\ retire_customer_anonymize_fields
        /\ \/ RetirementEnds(204) /\ NoFault
           \/ RetirementEnds(500) /\ Fault
     \/ /\ ~CurrentCustomer(retirement.seen)
        /\ RetirementEnds(400)
        /\ NoFault
        /\ UNCHANGED customer
     \/ /\ RetirementEnds(400) \/ RetirementEnds(500)
        /\ Fault
        /\ UNCHANGED customer
  /\ UNCHANGED <<numberVars, payments, carts, orders, request>>

-----------------------------------------------------------------------------
(* The cart.  Its version is told by whether the payment has been added. *)

ViewOf(S) == [NoView EXCEPT !.cart = S, !.paid = \E s \in S : carts[s].paid]

get_customer_cart_Kept(r) == \* a mutant
  /\ pc[r] = "cart"
  /\ Reads(r, "number", NoView)
  /\ NoFault
  /\ UNCHANGED <<numberVars, stored, asks, late>>

\* Which one, if there are several, is for Commercetools to say.
get_customer_cart(r) ==
  /\ pc[r] = "cart"
  /\ \/ ActiveCarts = {} /\ Reads(r, "number", NoView)
     \/ \E s \in ActiveCarts : Reads(r, "drop", ViewOf({s}))
  /\ NoFault
  /\ UNCHANGED <<numberVars, stored, asks, late>>

\* Deletion at the version that was read.
Deletable(r) ==
  \A s \in view[r].cart : carts[s] = [status |-> "active", paid |-> view[r].paid]

CartDeleted(r) ==
  carts' = [s \in Requests |-> IF s \in view[r].cart
                               THEN [carts[s] EXCEPT !.status = "deleted"]
                               ELSE carts[s]]

delete_cart(r) ==
  /\ pc[r] = "drop"
  /\ IF Deletable(r)
     THEN CartDeleted(r) /\ Succeeds(r, "number")
     ELSE Refused(r) /\ NoFault /\ UNCHANGED carts
  /\ UNCHANGED <<numberVars, customer, retirement, payments, orders, asks, late>>

CleanUp_Forgotten(r) == \* a mutant
  /\ pc[r] = "clean"
  /\ Answers(r, 500)
  /\ NoFault
  /\ UNCHANGED <<numberVars, stored, asks, late>>

\* The handler of CommercetoolsError deletes the cart once more; if that is refused,
\* the error goes out of the handler.
CleanUp(r) ==
  /\ pc[r] = "clean"
  /\ \/ Deletable(r) /\ CartDeleted(r)
     \/ ~Deletable(r) /\ UNCHANGED carts
  /\ Answers(r, 500)
  /\ NoFault
  /\ UNCHANGED <<numberVars, customer, retirement, payments, orders, asks, late>>

-----------------------------------------------------------------------------
(* The order number, and the cart that carries it. *)

Numbering(r) ==
  /\ pc[r] = "number"
  /\ NumberStep(r)
  /\ NoFault
  /\ UNCHANGED <<stored, request>>

Counting(r) ==
  /\ pc[r] = "number"
  /\ _update_order_number_custom_object(r)
  /\ \/ NoFault /\ UNCHANGED <<pc, view, answer>>
     \/ Fault /\ Dies(r)
  /\ UNCHANGED <<stored, asks, late>>

NumberFound(r) ==
  /\ pc[r] = "number"
  /\ get_new_order_number(r)
  /\ GoesOn(r, "create")
  /\ NoFault
  /\ UNCHANGED <<stored, asks, late>>

NumberRefused(r) ==
  /\ pc[r] = "number"
  /\ OutOfAttempts(r)
  /\ Refused(r)
  /\ NoFault
  /\ UNCHANGED <<numberVars, stored, asks, late>>

create_cart(r) ==
  /\ pc[r] = "create"
  /\ carts' = [carts EXCEPT ![r].status = "active"]
  /\ \/ Reads(r, "find", [NoView EXCEPT !.cart = {r}]) /\ NoFault
     \/ Dies(r) /\ Fault
  /\ UNCHANGED <<numberVars, customer, retirement, payments, orders, asks, late>>

-----------------------------------------------------------------------------
(* Validation of the purchase.  Whatever goes wrong here becomes an answer. *)

\* The store, or the receipt, does not bear the purchase out.
validate_iap(r) ==
  /\ pc[r] \in {"find", "dangling"}
  /\ Fault
  /\ GoesOn(r, "invalid")
  /\ UNCHANGED <<numberVars, stored, asks, late>>

get_payment_by_transaction_interaction_id(r) ==
  /\ pc[r] = "find"
  /\ GoesOn(r, IF asks[r] \in payments THEN "dangling" ELSE "pay")
  /\ NoFault
  /\ UNCHANGED <<numberVars, stored, asks, late>>

Attached(p) ==
  \E s \in Requests : /\ asks[s] = p
                      /\ carts[s].paid
                      /\ carts[s].status \in {"active", "ordered"}

Dangling_Always(p) == TRUE \* a mutant

Dangling(p) == ~Attached(p)

\* A dangling payment is used again; an error counts as attached.
is_dangling_payment(r) ==
  /\ pc[r] = "dangling"
  /\ \/ GoesOn(r, IF Dangling(asks[r]) THEN "add" ELSE "redundant") /\ NoFault
     \/ GoesOn(r, "redundant") /\ Fault
  /\ UNCHANGED <<numberVars, stored, asks, late>>

\* The cart is deleted before the answer; a refusal goes to the handler.
NotValidated(r) ==
  /\ pc[r] \in {"invalid", "redundant"}
  /\ \/ /\ Deletable(r)
        /\ CartDeleted(r)
        /\ \/ Answers(r, IF pc[r] = "invalid" THEN 400 ELSE 409) /\ NoFault
           \/ Dies(r) /\ Fault
     \/ /\ ~Deletable(r)
        /\ GoesOn(r, "clean")
        /\ NoFault
        /\ UNCHANGED carts
     \/ /\ GoesOn(r, "clean") \/ Dies(r)
        /\ Fault
        /\ UNCHANGED carts
  /\ UNCHANGED <<numberVars, customer, retirement, payments, orders, asks, late>>

-----------------------------------------------------------------------------
(* Payment and order. *)

\* The transaction's identifier is the payment's key, which Commercetools keeps unique.
create_payment(r) ==
  /\ pc[r] = "pay"
  /\ IF asks[r] \notin payments
     THEN payments' = payments \cup {asks[r]} /\ Succeeds(r, "add")
     ELSE Refused(r) /\ NoFault /\ UNCHANGED payments
  /\ UNCHANGED <<numberVars, customer, retirement, carts, orders, asks, late>>

\* A second cart may be refused the payment, or not.
add_payment_and_address_to_cart(r) ==
  /\ pc[r] = "add"
  /\ \/ /\ Deletable(r)
        /\ carts' = [carts EXCEPT ![r].paid = TRUE]
        /\ \/ Reads(r, "order", [view[r] EXCEPT !.paid = TRUE]) /\ NoFault
           \/ Dies(r) /\ Fault
     \/ /\ ~Deletable(r) \/ Attached(asks[r])
        /\ Refused(r)
        /\ NoFault
        /\ UNCHANGED carts
  /\ UNCHANGED <<numberVars, customer, retirement, payments, orders, asks, late>>

NumberTaken(r) == \E s \in Requests : orders[s] # "none" /\ SameNumber(r, s)

create_order_from_cart(r) ==
  /\ pc[r] = "order"
  /\ IF Deletable(r) /\ ~NumberTaken(r)
     THEN /\ orders' = [orders EXCEPT ![r] = "Initial"]
          /\ carts' = [carts EXCEPT ![r].status = "ordered"]
          /\ Succeeds(r, "place")
     ELSE /\ Refused(r)
          /\ NoFault
          /\ UNCHANGED <<orders, carts>>
  /\ UNCHANGED <<numberVars, customer, retirement, payments, asks, late>>

update_line_items_transition_state(r) ==
  /\ pc[r] = "place"
  /\ orders' = [orders EXCEPT ![r] = "Pending"]
  /\ \/ Answers(r, 201) /\ NoFault
     \/ Dies(r) /\ Fault
  /\ UNCHANGED <<numberVars, customer, retirement, payments, carts, asks, late>>

-----------------------------------------------------------------------------
ClockStep == NewYear /\ NoFault /\ UNCHANGED <<stored, request>>

Next ==
  \/ ClockStep
  \/ RetirementView \/ AnonymizeRetiredUser
  \/ \E r \in Requests :
       \/ MobileCreateOrderView(r)
       \/ get_ct_customer(r) \/ create_customer(r) \/ update_customer(r)
       \/ get_customer_cart(r) \/ delete_cart(r) \/ CleanUp(r)
       \/ Numbering(r) \/ Counting(r) \/ NumberFound(r) \/ NumberRefused(r)
       \/ create_cart(r)
       \/ validate_iap(r)
       \/ get_payment_by_transaction_interaction_id(r)
       \/ is_dangling_payment(r)
       \/ NotValidated(r)
       \/ create_payment(r)
       \/ add_payment_and_address_to_cart(r)
       \/ create_order_from_cart(r)
       \/ update_line_items_transition_state(r)
       \/ CallFails(r)

Spec == Init /\ [][Next]_vars

-----------------------------------------------------------------------------
(* Properties. *)

Steps == {"idle", "customer", "profile", "cart", "drop", "number", "create", "find",
          "dangling", "invalid", "redundant", "pay", "add", "order", "place", "clean",
          "done"}

Profiles == {"none", "old", "current", "retired"}

StoreTypeOK ==
  /\ payments \subseteq Purchases
  /\ carts \in [Requests -> [status : {"none", "active", "ordered", "deleted"},
                             paid : BOOLEAN]]
  /\ orders \in [Requests -> {"none", "Initial", "Pending"}]

CustomerTypeOK ==
  /\ customer \in [version : Nat, profile : Profiles, twin : BOOLEAN]
  /\ retirement \in [step : {"none", "anonymize", "done"}, seen : Nat,
                     calls : 0..MaxRetirements, answer : {0, 204, 400, 500}]

Codes == {0, 201, 400, 409, 500}

RequestTypeOK ==
  /\ asks \in [Requests -> Purchases]
  /\ pc \in [Requests -> Steps]
  /\ view \in [Requests -> [customer : Nat, profile : Profiles,
                            cart : SUBSET Requests, paid : BOOLEAN]]
  /\ answer \in [Requests -> Codes]
  /\ late \in [Requests -> BOOLEAN]

\* Every variable stays in its set; no request asks for a number more than Attempts times.
TypeOK ==
  /\ NumberTypeOK
  /\ StoreTypeOK
  /\ CustomerTypeOK
  /\ RequestTypeOK
  /\ undisturbed \in [Requests -> BOOLEAN]
  /\ faults \in 0..MaxFaults

\* A purchase that has been turned into an order is not turned into another one by a
\* request that comes in later, whatever failed before or runs beside it: its payment
\* is found, and found attached, or the check fails on the safe side.
LateRequestMakesNoOrder ==
  \A r \in Requests : late[r] => orders[r] = "none"

\* A request that is over leaves an active cart behind only through a failed call, one
\* for each: every refusal, of Commercetools or of the store, ends with the cart deleted,
\* by the request or by the one that took its place.
CartsCleanedUp ==
  Cardinality({r \in ActiveCarts : pc[r] = "done"}) <= faults

\* The app can repeat what failed: a request that runs alone and without a fault ends
\* with an order, whatever earlier requests have left behind (a payment without a cart, a
\* cart with the payment, a customer), if they left one active cart at most and no
\* number of theirs straddles New Year.
RetryHeals ==
  \A r \in Requests :
    /\ undisturbed[r]
    /\ pc[r] = "done"
    /\ \A s \in Requests : ~Straddled(s)
    => answer[r] = 201 /\ orders[r] = "Pending"

\* What retirement has anonymized is given the learner's name and email again only by a
\* request that has seen the retired customer, and so began to look after it: never by
\* one that was under way with the customer as it was.
RetirementNotUndone ==
  [][/\ customer.profile = "retired"
     /\ customer'.profile # "retired"
     => \E r \in Requests : pc[r] = "profile" /\ view[r].profile = "retired"]_vars

=============================================================================
