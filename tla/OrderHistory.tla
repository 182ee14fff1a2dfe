---------------------------- MODULE OrderHistory ----------------------------
(***************************************************************************)
(* The order history.  UserOrdersView collects a page of orders from the   *)
(* legacy system and one from Commercetools, sorts them by the day they    *)
(* were placed (which for an order of Commercetools is the day it was      *)
(* changed last) and ends the list at the first that is too old, while     *)
(* the learner buys and orders change.                                     *)
(***************************************************************************)
EXTENDS Integers, FiniteSets, SequencesExt

CONSTANTS
  OrderIds, \* orders of one learner
  Limit,    \* orders fetched from each system
  Cutoff,   \* days the history goes back
  MaxDay    \* bound on the days that pass

ASSUME OrderHistoryAssumption == {Limit, Cutoff, MaxDay} \subseteq Nat

VARIABLES
  today,  \* the day
  bought, \* the learner's complete orders, in both systems
  page    \* the last answer

historyVars == <<today, bought, page>>

NoPage == [status |-> 0, orders |-> <<>>, silent |-> {}]

HistoryIdle == today = -1 /\ bought = {} /\ page = NoPage

HistoryInit == today = 0 /\ bought = {} /\ page = NoPage

-----------------------------------------------------------------------------
NextDay ==
  /\ today \in 0 .. MaxDay - 1
  /\ today' = today + 1
  /\ page' = NoPage
  /\ UNCHANGED bought

\* An order may complete some days after it was created.
Buy(id) ==
  /\ id \notin {o.id : o \in bought}
  /\ \E system \in {"legacy", "commercetools"}, created \in 0 .. today :
       bought' = bought \cup
         {[id |-> id, system |-> system, created |-> created, completed |-> today,
           placed |-> IF system = "legacy" THEN created ELSE today]}
  /\ page' = NoPage
  /\ UNCHANGED today

\* date_placed of an order of Commercetools is last_modified_at.
ChangeOrder(o) ==
  /\ o.system = "commercetools"
  /\ o.placed < today
  /\ bought' = (bought \ {o}) \cup {[o EXCEPT !.placed = today]}
  /\ page' = NoPage
  /\ UNCHANGED today

-----------------------------------------------------------------------------
Newer(a, b) == a[1] > b[1] \/ (a[1] = b[1] /\ a[2] > b[2])

\* Any Limit of the orders that have a rank, such that none is left out for one that
\* comes later.
FirstPage(rank) ==
  LET size == Cardinality(DOMAIN rank) IN
  {p \in SUBSET DOMAIN rank :
     /\ Cardinality(p) = IF size < Limit THEN size ELSE Limit
     /\ \A o \in p, x \in DOMAIN rank \ p : ~Newer(rank[x], rank[o])}

\* Complete orders created since the cutoff, sorted by completion and change.
get_orders ==
  FirstPage([o \in {b \in bought : b.system = "commercetools" /\ b.created >= today - Cutoff}
               |-> <<o.completed, o.placed>>])

\* The legacy system's own page.
EcommerceOrders ==
  FirstPage([o \in {b \in bought : b.system = "legacy"} |-> <<o.placed, o.placed>>])

\* A system that fails, or whose flag is off, adds nothing.
GetEcommerceOrders(silent) == IF "legacy" \in silent THEN {{}} ELSE EcommerceOrders

GetCommercetoolsOrders(silent) == IF "commercetools" \in silent THEN {{}} ELSE get_orders

\* Orders of one day may come in any order.
InOrder(orders) ==
  {list \in SetToSeqs(orders) :
     \A i, j \in DOMAIN list : i < j => list[i].placed >= list[j].placed}

\* a mutant: the pages are not merged
Sorted_Apart(legacy, new) ==
  {first \o second : first \in InOrder(legacy), second \in InOrder(new)}

Sorted(legacy, new) == InOrder(legacy \cup new)

UntilCutoff(orders) ==
  LET old == SelectInSeq(orders, LAMBDA o : o.placed < today - Cutoff)
  IN IF old = 0 THEN orders ELSE SubSeq(orders, 1, old - 1)

\* Other errors of Commercetools' step end in a 400.
UserOrdersView ==
  /\ today >= 0
  /\ page = NoPage
  /\ \/ page' = [NoPage EXCEPT !.status = 400]
     \/ \E silent \in SUBSET {"legacy", "commercetools"} :
        \E legacy \in GetEcommerceOrders(silent), new \in GetCommercetoolsOrders(silent) :
        \E list \in Sorted(legacy, new) :
          page' = [status |-> 200, orders |-> UntilCutoff(list), silent |-> silent]
  /\ UNCHANGED <<today, bought>>

HistoryNext ==
  \/ NextDay \/ UserOrdersView
  \/ \E id \in OrderIds : Buy(id)
  \/ \E o \in bought : ChangeOrder(o)

HistorySpec == (HistoryIdle \/ HistoryInit) /\ [][HistoryNext]_historyVars

-----------------------------------------------------------------------------
Shown == ToSet(page.orders)

(* The history shows every order created since the cutoff of each system that
   answered, unless it shows as many orders of that system as it fetches, and
   it lists them from the latest. *)
HistoryComplete ==
  page.status = 200 =>
    /\ \A o \in bought :
         \/ o \in Shown
         \/ o.system \in page.silent
         \/ o.created < today - Cutoff
         \/ Cardinality({x \in Shown : x.system = o.system}) = Limit
    /\ \A i, j \in DOMAIN page.orders : i < j => page.orders[i].placed >= page.orders[j].placed
=============================================================================
