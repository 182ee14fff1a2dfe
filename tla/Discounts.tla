----------------------------- MODULE Discounts -----------------------------
(***************************************************************************)
(* Discount codes before the checkout: whether a code can be applied to a  *)
(* course run by the learner who asks, and whether an e-mail address may   *)
(* still use a code for first-time buyers.  Both answer from what          *)
(* Commercetools says at that moment, while codes expire and learners buy. *)
(***************************************************************************)
EXTENDS Predicates, FiniteSetsExt

CONSTANTS
  Codes,     \* discount codes with their cart discounts, as they may be set up
  Variants,  \* what Commercetools may find for the course run
  PageSize,  \* orders in the first page of a query
  MaxOrders  \* bound on the learner's orders

\* The predicate 1 = 1 of a code for any cart.
Always == [kind |-> "always"]

ASSUME DiscountsAssumption ==
  /\ {PageSize, MaxOrders} \subseteq Nat
  /\ Codes \subseteq [status : {"missing", "active", "inactive"},
                      discount : {"gone", "active", "inactive"}, relative : BOOLEAN,
                      window : {"before", "within", "after"}, limit : Nat,
                      tree : Trees \cup {NoTree, Always}]
  /\ \A v \in Variants : v.found = "variant" => v.context \in Contexts

VARIABLES
  code,      \* Commercetools: the discount code that is asked about
  variant,   \* Commercetools: what a search for the course run finds
  learner,   \* whether the learner has a customer, and the e-mail address
  orders,    \* Commercetools: the learner's complete orders with codes
  verdict    \* the last answer

discountVars == <<code, variant, learner, orders, verdict>>

NoCode == [status |-> "missing", discount |-> "gone", relative |-> FALSE,
           window |-> "after", limit |-> 0, tree |-> NoTree]

NoVariant == [found |-> "missing", context |-> <<>>]

NoLearner == [customer |-> FALSE, email |-> "none"]

NoVerdict == [view |-> "none", answer |-> "none"]

DiscountsIdle ==
  /\ code = NoCode
  /\ variant = NoVariant
  /\ learner = NoLearner
  /\ orders = <<>>
  /\ verdict = NoVerdict

DiscountsInit ==
  /\ code \in Codes
  /\ variant \in Variants
  /\ learner \in [customer : BOOLEAN, email : {"old"}]
  /\ orders = <<>>
  /\ verdict = NoVerdict

Asked == learner # NoLearner

-----------------------------------------------------------------------------
(* What goes on at Commercetools and the LMS. *)

\* A customer is made with the first order.
PlaceOrder ==
  /\ Asked
  /\ Len(orders) < MaxOrders
  /\ \E codes \in {<<"this">>, <<"other">>, <<"gone">>, <<"other", "this">>} :
       orders' = Append(orders, [codes |-> codes, email |-> learner.email])
  /\ learner' = [learner EXCEPT !.customer = TRUE]
  /\ verdict' = NoVerdict
  /\ UNCHANGED <<code, variant>>

ChangeEmail ==
  /\ learner.email = "old"
  /\ learner' = [learner EXCEPT !.email = "new"]
  /\ verdict' = NoVerdict
  /\ UNCHANGED <<code, variant, orders>>

TimePasses ==
  /\ Asked
  /\ \/ code.window = "before" /\ code' = [code EXCEPT !.window = "within"]
     \/ code.window = "within" /\ code' = [code EXCEPT !.window = "after"]
  /\ verdict' = NoVerdict
  /\ UNCHANGED <<variant, learner, orders>>

SwitchOff ==
  /\ code.status = "active"
  /\ code' = [code EXCEPT !.status = "inactive"]
  /\ verdict' = NoVerdict
  /\ UNCHANGED <<variant, learner, orders>>

-----------------------------------------------------------------------------
(* The lookups.  A call in fails ends with a CommercetoolsError after its
   three attempts. *)

CodeFound == code.status # "missing" /\ code.discount # "gone"

\* a mutant: the end of the validity is not looked at
get_discount_code_info_Endless ==
  /\ code.status = "active" /\ code.discount = "active" /\ code.relative
  /\ code.window # "before"

\* is_applicable of the code that was found.
get_discount_code_info ==
  /\ code.status = "active" /\ code.discount = "active" /\ code.relative
  /\ code.window = "within"

\* Of the orders that are found only the first page is read, and of an order only
\* the first code.
FirstPages(found) ==
  kSubset(IF Cardinality(found) < PageSize THEN Cardinality(found) ELSE PageSize, found)

is_first_time_discount_eligible(found) ==
  {Truth(\A k \in page : orders[k].codes[1] # "this") : page \in FirstPages(found)}

UsageChecked(fails) ==
  CASE ~get_discount_code_info -> {"false"}
    [] get_discount_code_info /\ code.limit = 0 -> {"true"}
    [] get_discount_code_info /\ code.limit > 0 ->
         IF "customer" \in fails \/ (learner.customer /\ "orders" \in fails) THEN {"refused"}
         ELSE is_first_time_discount_eligible(DOMAIN orders)

\* A variant that is its product's master variant is not found.
get_product_and_variant_by_course_run_key == variant.found = "variant"

\* a mutant: a check that raises turns the code down
PredicateHolds_Strict == Evaluated(Written(code.tree), variant.context) = "true"

\* A check that raises is bypassed.
PredicateHolds == Evaluated(Written(code.tree), variant.context) # "false"

PredicateChecked(usage, fails) ==
  IF usage # "true" \/ code.tree = Always THEN usage
  ELSE IF "product" \in fails THEN "refused"
  ELSE Truth(get_product_and_variant_by_course_run_key => PredicateHolds)

-----------------------------------------------------------------------------
DiscountCodeInfoView ==
  /\ Asked
  /\ verdict = NoVerdict
  /\ \E fails \in SUBSET {"code", "customer", "orders", "product"} :
       IF "code" \in fails \/ ~CodeFound
       THEN verdict' = [view |-> "info", answer |-> "refused"]
       ELSE \E usage \in UsageChecked(fails) :
              verdict' = [view |-> "info", answer |-> PredicateChecked(usage, fails)]
  /\ UNCHANGED <<code, variant, learner, orders>>

\* Asks for an e-mail address; what fails counts as eligible.
FirstTimeDiscountEligibleView ==
  /\ Asked
  /\ verdict = NoVerdict
  /\ \/ verdict' = [view |-> "first", answer |-> "true"]
     \/ \E a \in is_first_time_discount_eligible(
                   {k \in DOMAIN orders : orders[k].email = learner.email}) :
          verdict' = [view |-> "first", answer |-> a]
  /\ UNCHANGED <<code, variant, learner, orders>>

DiscountNext ==
  \/ PlaceOrder \/ ChangeEmail \/ TimePasses \/ SwitchOff
  \/ DiscountCodeInfoView \/ FirstTimeDiscountEligibleView

DiscountsSpec == (DiscountsIdle \/ DiscountsInit) /\ [][DiscountNext]_discountVars

-----------------------------------------------------------------------------
Used == \E k \in DOMAIN orders : "this" \in {orders[k].codes[j] : j \in DOMAIN orders[k].codes}

Valid ==
  /\ code.status = "active" /\ code.discount = "active"
  /\ code.relative
  /\ code.window = "within"

\* The predicate says something of the course run.
Says == code.tree # Always /\ variant.found = "variant" /\ Meaningful(code.tree, variant.context)

(* A code is called inapplicable only because it is not valid, has been used,
   or because its predicate is false of the course run: a lookup that failed,
   an attribute that is missing or another code of the learner's is no
   reason. *)
TurnedDownForCause ==
  verdict.answer = "false" =>
    \/ verdict.view = "info" /\ ~Valid
    \/ Used
    \/ Says /\ ~Holds(code.tree, variant.context)

(* A code that is called applicable is valid, its predicate is not false of
   the course run, and the learner has not used it.  The last holds only while
   the learner's orders fit a page and have one code each. *)
ApplicableIsEarned ==
  verdict.view = "info" /\ verdict.answer = "true" =>
    /\ Valid
    /\ Says => Holds(code.tree, variant.context)
    /\ code.limit > 0 /\ Len(orders) <= PageSize
         /\ (\A k \in DOMAIN orders : Len(orders[k].codes) = 1) => ~Used
=============================================================================
