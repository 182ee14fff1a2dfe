--------------------------- MODULE RefundAmounts ---------------------------
(***************************************************************************)
(* How much a return refunds.  An order is returned piece by piece, and    *)
(* the amount of each return is computed from the order and the planned    *)
(* amount of its payment alone, whatever has been refunded before.         *)
(* Amounts are whole cents.                                                *)
(***************************************************************************)
EXTENDS Integers, Sequences, FiniteSets, Functions

CONSTANTS
  MaxItems, \* bound on the line items of an order
  Prices,   \* totals of line items, in cents
  Cuts,     \* discounts on an order's total price
  Plans     \* planned amounts that differ from the order's total

ASSUME RefundAmountsAssumption ==
  /\ MaxItems \in Nat
  /\ Prices \cup Cuts \cup Plans \subseteq Nat

VARIABLES
  sale,     \* Commercetools: an order and its payment
  refunds   \* the returns so far, with the amounts refunded

refundVars == <<sale, refunds>>

NoSale == [price |-> <<>>, cut |-> 0, planned |-> 0]

Items(s) == DOMAIN s.price

TotalOf(s, ids) == SumFunctionOnSet(s.price, ids)

OrderTotal(s) == TotalOf(s, Items(s)) - s.cut

RefundsIdle == sale = NoSale /\ refunds = <<>>

\* A free order plans nothing.  Another is planned for its total or, after a
\* conversion, for another amount.
RefundsInit ==
  /\ \E n \in 1 .. MaxItems : \E p \in [1 .. n -> Prices], cut \in Cuts :
       LET s == [price |-> p, cut |-> cut, planned |-> 0]
       IN /\ OrderTotal(s) >= 0
          /\ \E plan \in {OrderTotal(s)} \cup (IF OrderTotal(s) > 0 THEN Plans ELSE {}) :
               sale = [s EXCEPT !.planned = plan]
  /\ refunds = <<>>

-----------------------------------------------------------------------------
\* ROUND_HALF_UP of n / d.  The share n / d is the sum of decimals of 28
\* digits, so that an exact half may come out just below.
get_quantized_amount(n, d) ==
  {(2 * n + d) \div (2 * d)} \cup (IF (2 * n) % (2 * d) = d THEN {n \div d} ELSE {})

Capped(cents, s) == IF cents < s.planned THEN cents ELSE s.planned

\* a mutant: every item's share is rounded up
Allocated_Ceiling(s, ids) ==
  {Capped(SumFunctionOnSet([i \in Items(s) |->
     (s.price[i] * s.planned + OrderTotal(s) - 1) \div OrderTotal(s)], ids), s)}

\* The planned amount, by the items' share of the order's total.
Allocated(s, ids) ==
  {Capped(cents, s) :
     cents \in get_quantized_amount(TotalOf(s, ids) * s.planned, OrderTotal(s))}

\* The amounts that a return of the items ids may come to.
get_line_item_price_to_refund(s, ids) ==
  CASE s.planned = 0 \/ OrderTotal(s) = 0 -> {0}
    [] s.planned # 0 /\ OrderTotal(s) # 0 /\ ids = Items(s) -> {s.planned}
    [] s.planned # 0 /\ OrderTotal(s) # 0 /\ ids # Items(s) /\ s.planned = OrderTotal(s) ->
         {TotalOf(s, ids)}
    [] OTHER -> Allocated(s, ids)

Returned == UNION {refunds[k].items : k \in DOMAIN refunds}

\* A return of items that were not returned before.
get_edx_refund_info ==
  \E ids \in SUBSET (Items(sale) \ Returned) \ {{}} :
    /\ \E cents \in get_line_item_price_to_refund(sale, ids) :
         refunds' = Append(refunds, [items |-> ids, cents |-> cents])
    /\ UNCHANGED sale

RefundsSpec == (RefundsIdle \/ RefundsInit) /\ [][get_edx_refund_info]_refundVars

-----------------------------------------------------------------------------
Refunded == SumFunctionOnSet([k \in DOMAIN refunds |-> refunds[k].cents], DOMAIN refunds)

(* Returned in whatever pieces, an order whose total is the sum of its items
   is refunded for what was paid, within half a cent for every return, and a
   part of it for no more.  (A discount on the total price is another matter:
   the items' prices do not contain it.) *)
RefundsAddUp ==
  sale.cut = 0 =>
    /\ 2 * (Refunded - sale.planned) <= Len(refunds)
    /\ Returned = Items(sale) => 2 * (sale.planned - Refunded) <= Len(refunds)
=============================================================================
