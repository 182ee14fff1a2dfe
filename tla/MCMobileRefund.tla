-------------------------- MODULE MCMobileRefund --------------------------
(* MCMobileRefund.cfg: two notices, a return, one retry, one fault. *)
EXTENDS MobileRefund
=============================================================================
