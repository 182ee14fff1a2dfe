------------------------------ MODULE Receipts ------------------------------
(***************************************************************************)
(* Where the receipt of an order is.  RedirectReceiptView runs a pipeline  *)
(* that leads to the legacy system by the order's number, and otherwise to *)
(* the processor of the order's successful payment, while the checkout may *)
(* still be adding payments.                                               *)
(***************************************************************************)
EXTENDS Integers, SequencesExt

CONSTANTS
  Processors,  \* payment interfaces, stripe and paypal among them
  MaxPayments  \* bound on the payments of an order

ASSUME ReceiptsAssumption == MaxPayments \in Nat

VARIABLES
  placed,  \* the order: its number's form and its payments
  receipt  \* the last answer

receiptVars == <<placed, receipt>>

NoReceipt == [status |-> 0, at |-> "none", failed |-> FALSE]

ReceiptsIdle == placed = [number |-> "none", payments |-> <<>>] /\ receipt = NoReceipt

ReceiptsInit ==
  /\ placed \in [number : {"legacy", "commercetools"}, payments : {<<>>}]
  /\ receipt = NoReceipt

\* A payment that succeeded has an id at its processor.
Succeeded(p) == p.status = "succeeded"

\* The checkout adds payments until one has succeeded.
AddPayment ==
  /\ placed.number = "commercetools"
  /\ Len(placed.payments) < MaxPayments
  /\ \A k \in DOMAIN placed.payments : placed.payments[k].status # "succeeded"
  /\ \E psp \in Processors, status \in {"pending", "succeeded"} :
       placed' = [placed EXCEPT !.payments =
                   Append(@, [psp |-> psp, status |-> status])]
  /\ receipt' = NoReceipt

SettlePayment ==
  /\ \E k \in DOMAIN placed.payments :
       /\ \A j \in DOMAIN placed.payments : placed.payments[j].status # "succeeded"
       /\ placed.payments[k].status = "pending"
       /\ \E status \in {"succeeded", "failed"} :
            placed' = [placed EXCEPT !.payments[k].status = status]
  /\ receipt' = NoReceipt

-----------------------------------------------------------------------------
is_legacy_order == placed.number = "legacy"

NoPayment == [psp |-> "none", status |-> "none"]

\* a mutant: the first payment counts, whatever became of it
get_edx_successful_payment_info_First(payments) ==
  IF payments = <<>> THEN NoPayment ELSE payments[1]

\* The first payment that succeeded.
get_edx_successful_payment_info(payments) ==
  LET k == SelectInSeq(payments, Succeeded)
  IN IF k = 0 THEN NoPayment ELSE payments[k]

Redirect(at) == [status |-> 303, at |-> at, failed |-> FALSE]

NotFound(failed) == [status |-> 404, at |-> "none", failed |-> failed]

GetLegacyEcommerceReceiptRedirectUrl == Redirect("ecommerce")

\* PayPal's receipt is its page of activities; Stripe is asked for its own.
ReceiptOf(payment) ==
  CASE payment.psp = "paypal" -> {Redirect("paypal")}
    [] payment.psp = "stripe" -> {Redirect("stripe"), [NotFound(TRUE) EXCEPT !.status = 500]}
    [] OTHER -> {NotFound(FALSE)}

RedirectReceiptView ==
  /\ placed.number # "none"
  /\ receipt = NoReceipt
  /\ receipt' \in
       IF is_legacy_order THEN {GetLegacyEcommerceReceiptRedirectUrl}
       ELSE {NotFound(TRUE)} \cup ReceiptOf(get_edx_successful_payment_info(placed.payments))
  /\ UNCHANGED placed

ReceiptsNext == AddPayment \/ SettlePayment \/ RedirectReceiptView

ReceiptsSpec == (ReceiptsIdle \/ ReceiptsInit) /\ [][ReceiptsNext]_receiptVars

-----------------------------------------------------------------------------
(* A receipt of Stripe or PayPal is that of the payment that succeeded, and an
   order that was paid there has one unless a call failed. *)
ReceiptOfPayment ==
  LET paid == {placed.payments[k].psp : k \in {j \in DOMAIN placed.payments :
                  placed.payments[j].status = "succeeded"}}
  IN /\ receipt.at \in {"stripe", "paypal"} => receipt.at \in paid
     /\ receipt.status = 404 /\ ~receipt.failed => paid \cap {"stripe", "paypal"} = {}
=============================================================================
