----------------------------- MODULE MCRefund -----------------------------
(***************************************************************************)
(* Instances of Refund for TLC.                                            *)
(*                                                                         *)
(*   MCRefundRaces.cfg     two requests or returns, or one and something   *)
(*                         that is delivered again; one fault              *)
(*   MCRefundSettles.cfg   liveness of two returns, or of one with two     *)
(*                         faults                                          *)
(*   MCRefundRevoked.cfg   what views.py says of OrderReturnedView, with   *)
(*   MCRefundPayPal.cfg    a fault at Stripe and without one at PayPal     *)
(***************************************************************************)
EXTENDS Refund

\* Of a second request and a redelivery, a behaviour has one.
RequestOrRedelivery == asked + redeliveries <= 2

\* What is returned first is item 1 or both: the items are alike but for the order in
\* which one task revokes them.
ItemOneFirst == asked = 1 => created[2] <= created[1] /\ \A q \in requests : q.item = 1

Bounded == RequestOrRedelivery /\ ItemOneFirst

\* Of a second request and faults, a behaviour has one.
SettlesNext == Next /\ (asked' <= 1 \/ faults' = 0)

SettlesSpec == Init /\ [][SettlesNext]_vars /\ WF_vars(SystemStep)
=============================================================================
