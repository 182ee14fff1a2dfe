------------------------------ MODULE Answers ------------------------------
(***************************************************************************)
(* Views, functions and one task that answer or act on what other systems  *)
(* hold at that moment.  They share no state, so that a behaviour is about *)
(* one of them, while the others are idle.                                 *)
(***************************************************************************)
EXTENDS RefundAmounts, Discounts, ProgramPrices, OrderHistory, Receipts, Sanctions

vars ==
  <<refundVars, predicateVars, discountVars, priceVars,
    historyVars, receiptVars, sanctionVars>>

\* Of the components, all but this one are idle.
Idle(busy) ==
  /\ busy # "Refunds" => RefundsIdle
  /\ busy # "Predicate" => PredicateIdle
  /\ busy # "Discounts" => DiscountsIdle
  /\ busy # "Prices" => PricesIdle
  /\ busy # "History" => HistoryIdle
  /\ busy # "Receipts" => ReceiptsIdle
  /\ busy # "Sanctions" => SanctionsIdle

Init ==
  \/ RefundsInit /\ Idle("Refunds")
  \/ PredicateInit /\ Idle("Predicate")
  \/ DiscountsInit /\ Idle("Discounts")
  \/ PricesInit /\ Idle("Prices")
  \/ HistoryInit /\ Idle("History")
  \/ ReceiptsInit /\ Idle("Receipts")
  \/ SanctionsInit /\ Idle("Sanctions")

Next ==
  \/ get_edx_refund_info
     /\ UNCHANGED <<predicateVars, discountVars, priceVars,
                    historyVars, receiptVars, sanctionVars>>
  \/ check
     /\ UNCHANGED <<refundVars, discountVars, priceVars,
                    historyVars, receiptVars, sanctionVars>>
  \/ DiscountNext
     /\ UNCHANGED <<refundVars, predicateVars, priceVars,
                    historyVars, receiptVars, sanctionVars>>
  \/ PricesNext
     /\ UNCHANGED <<refundVars, predicateVars, discountVars,
                    historyVars, receiptVars, sanctionVars>>
  \/ HistoryNext
     /\ UNCHANGED <<refundVars, predicateVars, discountVars,
                    priceVars, receiptVars, sanctionVars>>
  \/ ReceiptsNext
     /\ UNCHANGED <<refundVars, predicateVars, discountVars,
                    priceVars, historyVars, sanctionVars>>
  \/ SanctionsNext
     /\ UNCHANGED <<refundVars, predicateVars, discountVars,
                    priceVars, historyVars, receiptVars>>

Spec == Init /\ [][Next]_vars
=============================================================================
