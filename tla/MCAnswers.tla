----------------------------- MODULE MCAnswers -----------------------------
(***************************************************************************)
(* MCAnswers.cfg: orders of up to three items; predicates of up to three   *)
(* comparisons or a function of two; two orders with codes on pages of     *)
(* one; three courses, two requests for their price and two edits; three   *)
(* orders in four days, of which two days and two orders are shown; two    *)
(* messages about a sanctioned order.                                      *)
(***************************************************************************)
EXTENDS Answers

\* Predicates.
Mode(op, v) == [kind |-> "cmp", field |-> "mode", op |-> op, value |-> v]
Upgradable == [kind |-> "cmp", field |-> "upgradable", op |-> "=", value |-> TrueText]
Several == [kind |-> "cmp", field |-> "quantity", op |-> ">", value |-> Number(1)]
NotBundled == [kind |-> "is_defined", field |-> "bundleId", negate |-> TRUE]
PaidMode ==
  [kind |-> "in_expr", field |-> "mode", items |-> {Professional, Verified}, negate |-> FALSE]

\* True of every flag: the words of a list are texts.
NotListed ==
  [kind |-> "in_expr", field |-> "upgradable", items |-> {TrueText}, negate |-> TRUE]

Leaves == {Mode("=", Verified), Upgradable, Several, NotBundled, PaidMode, NotListed}

Joined(A, B) == [kind : {"and", "or"}, left : A, right : B]

Pairs == Joined(Leaves, Leaves)

Counted(names, A, ops) ==
  [kind : {"func"}, name : names, arg : A, op : ops, value : {Number(0), Number(1)}]

MCTrees ==
  Leaves \cup Pairs \cup Joined(Leaves, Pairs) \cup Joined(Pairs, Leaves)
    \cup Counted({"lineItemCount", "lineItemExists"}, Leaves \cup Pairs,
                    {"=", "!=", "<", "<=", ">", ">="})
    \cup Counted({"lineItemTotalPrice"}, Leaves, {"="})

MCDepth[tree \in MCTrees] ==
  CASE tree.kind \in {"and", "or"} -> 1 + MCDepth[tree.left] + MCDepth[tree.right]
    [] tree.kind = "func" -> 1 + MCDepth[tree.arg]
    [] OTHER -> 0

Common == [quantity |-> Number(1), bundleId |-> None]

CourseRun(mode, upgradable) ==
  [quantity |-> Number(1), bundleId |-> None, mode |-> mode, upgradable |-> Flag(upgradable)]

MCContexts == {Common, CourseRun(Verified, 1), CourseRun(Professional, 0), CourseRun(None, 1)}

\* Discount codes, of which the plain one varies in one thing.
Plain == [status |-> "active", discount |-> "active", relative |-> TRUE,
          window |-> "within", limit |-> 1, tree |-> Always]

MCCodes ==
  [status : {"active"}, discount : {"active"}, relative : {TRUE}, window : {"before"},
   limit : {0, 1, 2},
   tree : {Always, Mode("=", Verified),
           [kind |-> "or", left |-> Several, right |-> Upgradable]}]
    \cup {NoCode, [Plain EXCEPT !.status = "inactive"], [Plain EXCEPT !.discount = "inactive"],
          [Plain EXCEPT !.discount = "gone"], [Plain EXCEPT !.relative = FALSE]}

MCVariants ==
  {NoVariant, [found |-> "master", context |-> CourseRun(Professional, 0)],
   [found |-> "variant", context |-> Common],
   [found |-> "variant", context |-> CourseRun(Verified, 1)],
   [found |-> "variant", context |-> CourseRun(Professional, 0)],
   [found |-> "variant", context |-> CourseRun(None, 1)]}

\* Programs: c has no price.
MCPrice == [c \in {"a", "b"} |-> IF c = "a" THEN 100 ELSE 300]

Offer(key, join, op, names) ==
  [key |-> key, join |-> join, tests |-> {[op |-> op, names |-> {n}] : n \in names},
   other |-> TRUE, type |-> "relative", value |-> 1500]

Own == Offer("own", "or", "=", {Bundle})
Gift == [Own EXCEPT !.type = "absolute", !.value = 200]
Other == Offer("own", "or", "=", {"other"})
DefaultOffer(names) == [Offer("default", "and", "!=", names) EXCEPT !.value = 1000]

\* Offers beyond the convention.
Excluding == Offer("own", "or", "!=", {Bundle})
Listing == Offer("listed", "or", "in", {Bundle})
Unmet == [Own EXCEPT !.other = FALSE]
NamingDefault == Offer("default", "or", "=", {Bundle})

MCOffers ==
  {<<>>, <<Other>>, <<DefaultOffer({})>>, <<Other, DefaultOffer({Bundle})>>,
   <<DefaultOffer({Bundle}), Gift>>, <<Own, DefaultOffer({})>>,
   <<Excluding, DefaultOffer({Bundle})>>, <<Listing, Own>>, <<Unmet, NamingDefault>>}
=============================================================================
