----------------------------- MODULE Predicates -----------------------------
(***************************************************************************)
(* The cart predicates of Commercetools' discounts, as predicate_parser.py *)
(* parses and evaluates them.  A predicate is a sequence of tokens; a      *)
(* comparison of a field is one token, whose spelling is left out.  A      *)
(* reduction of the parser stands for the tuple that the transformer makes *)
(* of it and for what that tuple is evaluated to.                          *)
(***************************************************************************)
EXTENDS Integers, Sequences

CONSTANTS
  Trees,    \* predicates, as the trees they were written from; no list is empty
  Depth,    \* how deep such a tree is
  Contexts  \* what is known of a product and its variant

VARIABLES
  question, \* a predicate to check in a context
  reply     \* what the check comes to

predicateVars == <<question, reply>>

\* Values of Python: a number, a text (by its rank in the alphabet), a flag,
\* None.  Numbers and flags compare as numbers.
Number(n) == [type |-> "number", v |-> n]
Text(n) == [type |-> "text", v |-> n]
Flag(n) == [type |-> "flag", v |-> n]
None == [type |-> "none", v |-> 0]

FalseText == Text(0)
Professional == Text(1)
TrueText == Text(2)
Verified == Text(3)

Literals == [type : {"number", "text"}, v : Int]

Values == [type : {"number", "text", "flag"}, v : Int] \cup {None}

Numeric(a) == a.type \in {"number", "flag"}

Same(a, b) == a = b \/ (Numeric(a) /\ Numeric(b) /\ a.v = b.v)

Ordered(a, b) == (Numeric(a) /\ Numeric(b)) \/ (a.type = "text" /\ b.type = "text")

\* The predicates that a predicate is made of.
Parts(tree) ==
  CASE tree.kind \in {"and", "or"} -> {tree.left, tree.right}
    [] tree.kind = "func" -> {tree.arg}
    [] OTHER -> {}

ASSUME PredicatesAssumption ==
  /\ Depth \in [Trees -> Nat]
  /\ \A tree \in Trees : Parts(tree) \subseteq {part \in Trees : Depth[part] < Depth[tree]}
  /\ \A tree \in Trees :
       /\ tree.kind \in {"and", "or", "func", "cmp", "in_expr", "is_defined"}
       /\ tree.kind \in {"func", "cmp"} =>
            tree.op \in {"=", "!=", "<", "<=", ">", ">="} /\ tree.value \in Literals
       /\ tree.kind = "in_expr" => tree.items # {} /\ tree.items \subseteq Literals
       /\ tree.kind \in {"in_expr", "is_defined"} => tree.negate \in BOOLEAN
  /\ \A context \in Contexts : \A field \in DOMAIN context : context[field] \in Values

-----------------------------------------------------------------------------
(* Evaluation.  The context is a function from the names of fields to their
   values.  A result is "true", "false" or "raises"; "none" is none yet. *)

Truth(b) == IF b THEN "true" ELSE "false"

_normalize_expected(v) ==
  CASE v = TrueText -> Number(1)
    [] v = FalseText -> Number(0)
    [] OTHER -> v

Order(op, m, n) ==
  CASE op = "<" -> m < n
    [] op = "<=" -> m <= n
    [] op = ">" -> m > n
    [] op = ">=" -> m >= n

Compare(op, a, b) ==
  CASE op = "=" -> Truth(Same(a, b))
    [] op = "!=" -> Truth(~Same(a, b))
    [] OTHER -> IF Ordered(a, b) THEN Truth(Order(op, a.v, b.v)) ELSE "raises"

\* A field that the context lacks is a KeyError, also for "is defined".
EvaluateField(tree, context) ==
  CASE tree.field \notin DOMAIN context -> "raises"
    [] tree.field \in DOMAIN context /\ tree.kind = "cmp" ->
         Compare(tree.op, context[tree.field], _normalize_expected(tree.value))
    [] tree.field \in DOMAIN context /\ tree.kind = "in_expr" ->
         Truth((\E v \in tree.items : Same(context[tree.field], v)) # tree.negate)
    [] tree.field \in DOMAIN context /\ tree.kind = "is_defined" ->
         Truth((context[tree.field] # None) # tree.negate)

\* Both sides are evaluated; without a left side there is but the right one.
and_expr(left, right) ==
  CASE left = "none" -> right
    [] left # "none" /\ "raises" \in {left, right} -> "raises"
    [] OTHER -> Truth(left = "true" /\ right = "true")

or_expr(left, right) ==
  CASE left = "none" -> right
    [] left # "none" /\ "raises" \in {left, right} -> "raises"
    [] OTHER -> Truth(left = "true" \/ right = "true")

\* A function of the cart comes to 1 if its argument holds, else to 0.
Count(b) == Number(IF b THEN 1 ELSE 0)

function_call(name, result) ==
  IF name \in {"lineItemCount", "lineItemExists"} THEN result ELSE "raises"

comparison(call, op, value) ==
  IF call = "raises" THEN "raises"
  ELSE Compare(op, Count(call = "true"), _normalize_expected(value))

-----------------------------------------------------------------------------
(* The grammar: an expr is terms joined by "or", a term is factors joined by
   "and", both from the left.  A frame of the LALR parser's stack is what is
   open: what opened it, the frame around it, the terms before the last "or",
   the factors before the last "and", the last factor, and a function call
   that is still to be compared. *)

Word(w) == [word |-> w]

Frame(open, outer, terms, factors, factor, call) ==
  [open |-> open, outer |-> outer, terms |-> terms, factors |-> factors,
   factor |-> factor, call |-> call]

Fresh(open, outer) == Frame(open, outer, "none", "none", "none", "none")

Start == Fresh(Word("start"), Word("nothing"))

Refused == Fresh(Word("refused"), Word("nothing"))

\* A factor may begin, or has just ended.
Expecting(f) == f.open.word # "refused" /\ f.factor = "none" /\ f.call = "none"

Ended(f) == f.open.word # "refused" /\ f.factor # "none"

term(f) == and_expr(f.factors, f.factor)

expr(f) == or_expr(f.terms, term(f))

\* a mutant: "and" takes all that is before it
BeforeAnd_Loose(f) == Frame(f.open, f.outer, "none", expr(f), "none", "none")

BeforeAnd(f) == Frame(f.open, f.outer, f.terms, term(f), "none", "none")

BeforeOr(f) == Frame(f.open, f.outer, expr(f), "none", "none", "none")

Closed(f) ==
  IF f.open.word = "call"
  THEN [f.outer EXCEPT !.call = function_call(f.open.name, expr(f))]
  ELSE [f.outer EXCEPT !.factor = expr(f)]

shift(f, w, context) ==
  CASE w.word = "leaf" /\ Expecting(f) -> [f EXCEPT !.factor = EvaluateField(w.tree, context)]
    [] w.word \in {"(", "call"} /\ Expecting(f) -> Fresh(w, f)
    [] w.word = "and" /\ Ended(f) -> BeforeAnd(f)
    [] w.word = "or" /\ Ended(f) -> BeforeOr(f)
    [] w.word = ")" /\ Ended(f) /\ f.open.word # "start" -> Closed(f)
    [] w.word = "compare" /\ f.call # "none" ->
         Frame(f.open, f.outer, f.terms, f.factors, comparison(f.call, w.op, w.value), "none")
    [] OTHER -> Refused

\* What a predicate comes to; one that is not of the grammar raises.
Evaluated(s, context) ==
  LET stack[k \in 0 .. Len(s)] ==
        IF k = 0 THEN Start ELSE shift(stack[k - 1], s[k], context)
      last == stack[Len(s)]
  IN IF Ended(last) /\ last.open.word = "start" THEN expr(last) ELSE "raises"

-----------------------------------------------------------------------------
(* What a predicate says, from the tree it was written from. *)

\* A text that is not of the grammar.
NoTree == [kind |-> "none"]

\* With parentheses where a reader of the tree needs them.
Enclosed(kinds, tree, text) ==
  IF tree.kind \in kinds THEN <<Word("(")>> \o text \o <<Word(")")>> ELSE text

Unparse[tree \in Trees] ==
  CASE tree.kind = "or" ->
         Unparse[tree.left] \o <<Word("or")>> \o Enclosed({"or"}, tree.right, Unparse[tree.right])
    [] tree.kind = "and" ->
         Enclosed({"or"}, tree.left, Unparse[tree.left]) \o <<Word("and")>>
           \o Enclosed({"and", "or"}, tree.right, Unparse[tree.right])
    [] tree.kind = "func" ->
         <<[word |-> "call", name |-> tree.name]>> \o Unparse[tree.arg]
           \o <<Word(")"), [word |-> "compare", op |-> tree.op, value |-> tree.value]>>
    [] OTHER -> <<[word |-> "leaf", tree |-> tree]>>

Written(tree) == IF tree = NoTree THEN <<Word("or")>> ELSE Unparse[tree]

\* "true" and "false" are the flags' literals.
Literal(v) == CASE v = TrueText -> 1 [] v = FalseText -> 0 [] OTHER -> v.v

\* A value and a literal of one kind.
Comparable(a, literal) ==
  a # None /\ Numeric(a) = (Numeric(literal) \/ literal \in {TrueText, FalseText})

\* Of different kinds, values are only known to differ.
Sensible(op, a, literal) == op \in {"=", "!="} \/ Comparable(a, literal)

Relates(op, a, literal) ==
  LET equal == Comparable(a, literal) /\ a.v = Literal(literal)
  IN \/ op \in {"=", "<=", ">="} /\ equal
     \/ op = "!=" /\ ~equal
     \/ op \in {"<", "<="} /\ a.v < Literal(literal)
     \/ op \in {">", ">="} /\ a.v > Literal(literal)

\* In a list, "true" is a text.
Listed(a, items) ==
  a # None /\ \E v \in items : Numeric(a) = Numeric(v) /\ a.v = v.v

Meaningful(tree, context) ==
  LET says[t \in Trees] ==
        CASE t.kind \in {"and", "or"} -> says[t.left] /\ says[t.right]
          [] t.kind = "func" -> /\ t.name \in {"lineItemCount", "lineItemExists"}
                                /\ says[t.arg]
                                /\ Sensible(t.op, Number(1), t.value)
          [] OTHER -> /\ t.field \in DOMAIN context
                      /\ t.kind = "cmp" => Sensible(t.op, context[t.field], t.value)
  IN tree # NoTree /\ says[tree]

\* The truth of a meaningful tree.
Holds(tree, context) ==
  LET true[t \in Trees] ==
        CASE t.kind = "or" -> true[t.left] \/ true[t.right]
          [] t.kind = "and" -> true[t.left] /\ true[t.right]
          [] t.kind = "func" -> Relates(t.op, Count(true[t.arg]), t.value)
          [] t.kind = "cmp" -> Relates(t.op, context[t.field], t.value)
          [] t.kind = "in_expr" -> Listed(context[t.field], t.items) # t.negate
          [] t.kind = "is_defined" -> (context[t.field] # None) # t.negate
  IN true[tree]

-----------------------------------------------------------------------------
NoQuestion == [tree |-> NoTree, context |-> <<>>]

PredicateIdle == question = NoQuestion /\ reply = "none"

PredicateInit ==
  /\ question \in [tree : Trees \cup {NoTree}, context : Contexts]
  /\ reply = "none"

check ==
  /\ question # NoQuestion
  /\ reply = "none"
  /\ reply' = Evaluated(Written(question.tree), question.context)
  /\ UNCHANGED question

PredicateSpec == (PredicateIdle \/ PredicateInit) /\ [][check]_predicateVars

(* Wherever a predicate says something of a product, the check says the same,
   and where it says nothing the check raises: "and" binds before "or", a
   function of the cart counts one line item, and "true" is the flag. *)
PredicateRight ==
  reply # "none" =>
    reply = IF Meaningful(question.tree, question.context)
            THEN Truth(Holds(question.tree, question.context)) ELSE "raises"
=============================================================================
