--------------------------- MODULE MCMobileOrder ---------------------------
(* MCMobileOrder.cfg: three requests about one purchase, two of them side by
   side, one fault, and either New Year or a retirement of the learner. *)
EXTENDS MobileOrder, TLC

Symmetry == Permutations(Requests) \cup Permutations(Purchases)

\* Retirement touches the customer alone, and New Year the counter alone: a behaviour
\* has one of them, or ends with the second.
OneDisturbance == year = 1 \/ retirement.calls = 0
=============================================================================
