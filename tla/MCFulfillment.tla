-------------------------- MODULE MCFulfillment --------------------------
(***************************************************************************)
(* Instances of Fulfillment for TLC.                                       *)
(*                                                                         *)
(*   MCFulfillmentDispatch.cfg   duplicate messages and placed-task retries *)
(*   MCFulfillmentReports.cfg    LMS retries and contradictory reports      *)
(*   MCFulfillmentSettles.cfg    liveness, with an operator's reset         *)
(*   MCFulfillmentLock.cfg       what core/tasks.py says of its lock        *)
(*   MCFulfillmentApology.cfg    what lms/tasks.py says of its e-mails      *)
(***************************************************************************)
EXTENDS Fulfillment

\* The last item was bought through a program, the others were not: both kinds of
\* LMS task, and both at once, occur.
LastIsBundle == {N}

\* A program of which every item is an entitlement.
AllBundles == 1..N
=============================================================================
