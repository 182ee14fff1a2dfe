-------------------------- MODULE PredicateProofs ---------------------------
(***************************************************************************)
(* PredicateMeansWhatItSays: the check of a predicate comes to what the    *)
(* tree that the predicate was written from says, for every predicate and  *)
(* every context.  The parser's stack is a function of positions in the    *)
(* text and the meaning a function of trees; that there are such functions *)
(* is shown first, by their smallest counterexample.                       *)
(***************************************************************************)
EXTENDS Predicates, WellFoundedInduction, TLAPS

\* A set of numbers has a least one.
LEMMA HasFirst ==
  ASSUME NEW S, S \subseteq Nat, S # {}
  PROVE  \E i \in S : \A j \in S : i <= j
<1> DEFINE R == OpToRel(<, Nat)
<1>1. \A i, j \in Nat : j < i => <<j, i>> \in R
  BY DEF OpToRel
<1>2. IsWellFoundedOn(R, Nat)
  BY NatLessThanWellFounded
<1> HIDE DEF R
<1>3. PICK i \in S : \A j \in S : ~(<<j, i>> \in R)
  BY <1>2, WFMin
<1>4. ASSUME NEW j \in S PROVE i <= j
  <2>1. i \in Nat /\ j \in Nat
    OBVIOUS
  <2>2. ~(j < i)
    BY <1>1, <1>3, <2>1
  <2> QED
    BY <2>1, <2>2
<1> QED
  BY <1>3, <1>4

-----------------------------------------------------------------------------
(* Recursion over a tree. *)

Joins(t) == t.kind \in {"and", "or"}

\* What a tree comes to by G, if its parts come to what h says.
FromParts(G, a, h, t) ==
  G[<<t, IF Joins(t) THEN h[t.left] ELSE IF t.kind = "func" THEN h[t.arg] ELSE a,
         IF Joins(t) THEN h[t.right] ELSE a>>]

LEMMA PartsBelow ==
  ASSUME NEW t \in Trees
  PROVE  /\ Depth[t] \in Nat
         /\ Joins(t) => /\ t.left \in Trees /\ Depth[t.left] < Depth[t]
                        /\ t.right \in Trees /\ Depth[t.right] < Depth[t]
         /\ t.kind = "func" => t.arg \in Trees /\ Depth[t.arg] < Depth[t]
<1>1. Depth \in [Trees -> Nat] /\ Parts(t) \subseteq {part \in Trees : Depth[part] < Depth[t]}
  BY PredicatesAssumption
<1>2. Joins(t) => Parts(t) = {t.left, t.right}
  BY DEF Joins, Parts
<1>3. t.kind = "func" => Parts(t) = {t.arg}
  BY DEF Parts
<1> QED
  BY <1>1, <1>2, <1>3

\* Induction over trees, for a set of them.
LEMMA TreeInduction ==
  ASSUME NEW S,
         \A t \in Trees : (\A p \in Trees : Depth[p] < Depth[t] => p \in S) => t \in S
  PROVE  Trees \subseteq S
<1> DEFINE Depths == {Depth[t] : t \in Trees \ S}
<1> SUFFICES ASSUME Trees \ S # {} PROVE FALSE
  OBVIOUS
<1>1. Depths \subseteq Nat /\ Depths # {}
  BY PartsBelow
<1>2. PICK d \in Depths : \A e \in Depths : d <= e
  <2> HIDE DEF Depths
  <2> QED
    BY <1>1, HasFirst
<1>3. PICK t \in Trees \ S : Depth[t] = d
  OBVIOUS
<1>4. ASSUME NEW p \in Trees, Depth[p] < Depth[t] PROVE p \in S
  <2>1. Depth[p] \in Nat /\ Depth[t] \in Nat
    BY PartsBelow
  <2> QED
    BY <1>2, <1>3, <1>4, <2>1
<1> QED
  BY <1>3, <1>4

LEMMA FromPartsType ==
  ASSUME NEW V, NEW a \in V, NEW G \in [Trees \X V \X V -> V], NEW h \in [Trees -> V],
         NEW t \in Trees
  PROVE  FromParts(G, a, h, t) \in V
BY PartsBelow DEF FromParts

\* The parts decide.
LEMMA FromSameParts ==
  ASSUME NEW G, NEW a, NEW g, NEW h, NEW t \in Trees,
         \A p \in Trees : Depth[p] < Depth[t] => g[p] = h[p]
  PROVE  FromParts(G, a, g, t) = FromParts(G, a, h, t)
BY PartsBelow DEF FromParts

FoldedUpTo(G, a, n, h) ==
  \A t \in Trees : Depth[t] <= n => h[t] = FromParts(G, a, h, t)

LEMMA FoldsAgree ==
  ASSUME NEW G, NEW a, NEW n \in Nat, NEW g, NEW h,
         FoldedUpTo(G, a, n, g), FoldedUpTo(G, a, n, h)
  PROVE  \A t \in Trees : Depth[t] <= n => g[t] = h[t]
<1> DEFINE S == {t \in Trees : Depth[t] <= n => g[t] = h[t]}
<1>1. ASSUME NEW t \in Trees, \A p \in Trees : Depth[p] < Depth[t] => p \in S, Depth[t] <= n
      PROVE  g[t] = h[t]
  <2>1. ASSUME NEW p \in Trees, Depth[p] < Depth[t] PROVE g[p] = h[p]
    <3>1. Depth[p] \in Nat /\ Depth[t] \in Nat
      BY PartsBelow
    <3> QED
      BY <1>1, <2>1, <3>1
  <2>2. FromParts(G, a, g, t) = FromParts(G, a, h, t)
    BY <2>1, FromSameParts
  <2> QED
    BY <1>1, <2>2 DEF FoldedUpTo
<1>2. \A t \in Trees : (\A p \in Trees : Depth[p] < Depth[t] => p \in S) => t \in S
  BY <1>1
<1>3. Trees \subseteq S
  <2> HIDE DEF S
  <2> QED
    BY <1>2, TreeInduction
<1> QED
  BY <1>3

LEMMA FoldedSoFar ==
  ASSUME NEW V, NEW a \in V, NEW G \in [Trees \X V \X V -> V], NEW n \in Nat
  PROVE  \E h \in [Trees -> V] : FoldedUpTo(G, a, n, h)
<1> DEFINE Bad == {k \in Nat : ~ \E h \in [Trees -> V] : FoldedUpTo(G, a, k, h)}
<1> SUFFICES ASSUME Bad # {} PROVE FALSE
  OBVIOUS
<1>1. PICK m \in Bad : \A k \in Bad : m <= k
  <2>1. Bad \subseteq Nat
    OBVIOUS
  <2> HIDE DEF Bad
  <2> QED
    BY <2>1, HasFirst
<1>2. m \in Nat /\ ~ \E h \in [Trees -> V] : FoldedUpTo(G, a, m, h)
  OBVIOUS
<1>3. PICK g \in [Trees -> V] : m = 0 \/ FoldedUpTo(G, a, m - 1, g)
  <2>1. CASE m = 0
    <3>1. [t \in Trees |-> a] \in [Trees -> V]
      OBVIOUS
    <3> QED
      BY <2>1, <3>1
  <2>2. CASE m # 0
    <3>1. m - 1 \in Nat /\ ~(m <= m - 1)
      BY <1>2, <2>2
    <3>2. m - 1 \notin Bad
      BY <1>1, <3>1
    <3> QED
      BY <3>1, <3>2
  <2> QED
    BY <2>1, <2>2
<1>4. PICK h : h = [t \in Trees |-> FromParts(G, a, g, t)]
  OBVIOUS
<1>5. h \in [Trees -> V]
  BY <1>4, FromPartsType
<1>6. ASSUME NEW t \in Trees, Depth[t] <= m PROVE h[t] = FromParts(G, a, h, t)
  <2>1. ASSUME NEW p \in Trees, Depth[p] < Depth[t] PROVE g[p] = h[p]
    <3>1. m # 0 /\ Depth[p] <= m - 1
      BY <1>2, <1>6, <2>1, PartsBelow
    <3> QED
      BY <1>3, <1>4, <3>1 DEF FoldedUpTo
  <2>2. FromParts(G, a, g, t) = FromParts(G, a, h, t)
    BY <2>1, FromSameParts
  <2> QED
    BY <1>4, <2>2
<1> QED
  BY <1>2, <1>5, <1>6 DEF FoldedUpTo

LEMMA FoldExists ==
  ASSUME NEW V, NEW a \in V, NEW G \in [Trees \X V \X V -> V]
  PROVE  \E h \in [Trees -> V] : \A t \in Trees : h[t] = FromParts(G, a, h, t)
<1> DEFINE H(n) == CHOOSE h \in [Trees -> V] : FoldedUpTo(G, a, n, h)
<1>1. \A n \in Nat : H(n) \in [Trees -> V] /\ FoldedUpTo(G, a, n, H(n))
  BY FoldedSoFar
<1> HIDE DEF H
<1>2. PICK h : h = [t \in Trees |-> H(Depth[t])[t]]
  OBVIOUS
<1>3. h \in [Trees -> V]
  BY <1>1, <1>2, PartsBelow
<1>4. ASSUME NEW t \in Trees PROVE h[t] = FromParts(G, a, h, t)
  <2>1. Depth[t] \in Nat
    BY PartsBelow
  <2>2. H(Depth[t])[t] = FromParts(G, a, H(Depth[t]), t)
    BY <1>1, <2>1 DEF FoldedUpTo
  <2>3. ASSUME NEW p \in Trees, Depth[p] < Depth[t] PROVE H(Depth[t])[p] = h[p]
    <3>1. Depth[p] \in Nat
      BY PartsBelow
    <3>2. FoldedUpTo(G, a, Depth[p], H(Depth[t]))
      BY <1>1, <2>1, <2>3, <3>1, PartsBelow DEF FoldedUpTo
    <3>3. H(Depth[p])[p] = H(Depth[t])[p]
      BY <1>1, <3>1, <3>2, FoldsAgree
    <3> QED
      BY <1>2, <3>3
  <2>4. FromParts(G, a, H(Depth[t]), t) = FromParts(G, a, h, t)
    BY <2>3, FromSameParts
  <2> QED
    BY <1>2, <2>2, <2>4
<1> QED
  BY <1>3, <1>4

-----------------------------------------------------------------------------
(* The functions of trees are what their equations say. *)

Tokens ==
  {Word("("), Word(")"), Word("and"), Word("or")}
    \cup {[word |-> "leaf", tree |-> t] : t \in Trees}
    \cup {[word |-> "call", name |-> t.name] : t \in Trees}
    \cup {[word |-> "compare", op |-> t.op, value |-> t.value] : t \in Trees}

\* The text of a tree, from those of its parts.
Wording(t, l, r) ==
  CASE t.kind = "or" -> l \o <<Word("or")>> \o Enclosed({"or"}, t.right, r)
    [] t.kind = "and" ->
         Enclosed({"or"}, t.left, l) \o <<Word("and")>> \o Enclosed({"and", "or"}, t.right, r)
    [] t.kind = "func" ->
         <<[word |-> "call", name |-> t.name]>> \o l
           \o <<Word(")"), [word |-> "compare", op |-> t.op, value |-> t.value]>>
    [] OTHER -> <<[word |-> "leaf", tree |-> t]>>

LEMMA EnclosedType ==
  ASSUME NEW kinds, NEW t, NEW x \in Seq(Tokens)
  PROVE  Enclosed(kinds, t, x) \in Seq(Tokens)
<1>1. <<Word("(")>> \in Seq(Tokens) /\ <<Word(")")>> \in Seq(Tokens)
  BY DEF Tokens
<1>2. <<Word("(")>> \o x \o <<Word(")")>> \in Seq(Tokens)
  BY <1>1
<1> QED
  BY <1>2 DEF Enclosed

LEMMA WordingType ==
  ASSUME NEW t \in Trees, NEW l \in Seq(Tokens), NEW r \in Seq(Tokens)
  PROVE  Wording(t, l, r) \in Seq(Tokens)
<1>1. /\ Word("or") \in Tokens /\ Word("and") \in Tokens /\ Word(")") \in Tokens
      /\ [word |-> "leaf", tree |-> t] \in Tokens
      /\ [word |-> "call", name |-> t.name] \in Tokens
      /\ [word |-> "compare", op |-> t.op, value |-> t.value] \in Tokens
  BY DEF Tokens
<1>2. CASE t.kind = "or"
  <2>1. Enclosed({"or"}, t.right, r) \in Seq(Tokens) /\ <<Word("or")>> \in Seq(Tokens)
    BY <1>1, EnclosedType
  <2>2. l \o <<Word("or")>> \o Enclosed({"or"}, t.right, r) \in Seq(Tokens)
    BY <2>1
  <2> QED
    BY <1>2, <2>2 DEF Wording
<1>3. CASE t.kind = "and"
  <2>1. /\ Enclosed({"or"}, t.left, l) \in Seq(Tokens) /\ <<Word("and")>> \in Seq(Tokens)
        /\ Enclosed({"and", "or"}, t.right, r) \in Seq(Tokens)
    BY <1>1, EnclosedType
  <2>2. Enclosed({"or"}, t.left, l) \o <<Word("and")>> \o Enclosed({"and", "or"}, t.right, r)
          \in Seq(Tokens)
    BY <2>1
  <2> QED
    BY <1>3, <2>2 DEF Wording
<1>4. CASE t.kind = "func"
  <2>1. PICK c, m : /\ c = [word |-> "call", name |-> t.name]
                    /\ m = [word |-> "compare", op |-> t.op, value |-> t.value]
    OBVIOUS
  <2>2. <<c>> \in Seq(Tokens) /\ <<Word(")"), m>> \in Seq(Tokens)
    BY <1>1, <2>1
  <2>3. <<c>> \o l \o <<Word(")"), m>> \in Seq(Tokens)
    BY <2>2
  <2> QED
    BY <1>4, <2>1, <2>3 DEF Wording
<1>5. CASE t.kind \notin {"or", "and", "func"}
  BY <1>1, <1>5 DEF Wording
<1> QED
  BY <1>2, <1>3, <1>4, <1>5

\* Unparse has texts, which its equation gives.
LEMMA UnparseIs ==
  /\ Unparse \in [Trees -> Seq(Tokens)]
  /\ \A t \in Trees : Unparse[t] = Wording(t, IF t.kind = "func" THEN Unparse[t.arg]
                                              ELSE Unparse[t.left], Unparse[t.right])
<1> DEFINE V == Seq(Tokens)
           G == [x \in Trees \X V \X V |-> Wording(x[1], x[2], x[3])]
<1>1. G \in [Trees \X V \X V -> V]
  <2>1. \A x \in Trees \X V \X V : Wording(x[1], x[2], x[3]) \in V
    BY WordingType
  <2> QED
    BY <2>1
<1>2. \A t \in Trees, l \in V, r \in V : G[<<t, l, r>>] = Wording(t, l, r)
  OBVIOUS
<1>3. << >> \in V
  OBVIOUS
<1> HIDE DEF V, G
<1>4. PICK h \in [Trees -> V] : \A t \in Trees : h[t] = FromParts(G, << >>, h, t)
  BY <1>1, <1>3, FoldExists
<1>5. ASSUME NEW t \in Trees
      PROVE  h[t] = Wording(t, IF t.kind = "func" THEN h[t.arg] ELSE h[t.left], h[t.right])
  <2>1. CASE Joins(t)
    <3>1. t.kind # "func" /\ h[t.left] \in V /\ h[t.right] \in V
      BY <1>4, <2>1, PartsBelow DEF Joins
    <3>2. h[t] = G[<<t, h[t.left], h[t.right]>>]
      BY <1>4, <2>1 DEF FromParts
    <3> QED
      BY <1>2, <3>1, <3>2
  <2>2. CASE t.kind = "func"
    <3>1. h[t] = Wording(t, h[t.arg], << >>)
      BY <1>2, <1>3, <1>4, <2>2, PartsBelow DEF FromParts, Joins
    <3> QED
      BY <2>2, <3>1 DEF Wording
  <2>3. CASE ~Joins(t) /\ t.kind # "func"
    <3>1. h[t] = Wording(t, << >>, << >>)
      BY <1>2, <1>3, <1>4, <2>3 DEF FromParts, Joins
    <3> QED
      BY <2>3, <3>1 DEF Wording, Joins
  <2> QED
    BY <2>1, <2>2, <2>3
<1>6. \E g : g = [tree \in Trees |->
        CASE tree.kind = "or" ->
               g[tree.left] \o <<Word("or")>> \o Enclosed({"or"}, tree.right, g[tree.right])
          [] tree.kind = "and" ->
               Enclosed({"or"}, tree.left, g[tree.left]) \o <<Word("and")>>
                 \o Enclosed({"and", "or"}, tree.right, g[tree.right])
          [] tree.kind = "func" ->
               <<[word |-> "call", name |-> tree.name]>> \o g[tree.arg]
                 \o <<Word(")"), [word |-> "compare", op |-> tree.op, value |-> tree.value]>>
          [] OTHER -> <<[word |-> "leaf", tree |-> tree]>>]
  <2>1. \A t \in Trees : h[t] =
        CASE t.kind = "or" ->
               h[t.left] \o <<Word("or")>> \o Enclosed({"or"}, t.right, h[t.right])
          [] t.kind = "and" ->
               Enclosed({"or"}, t.left, h[t.left]) \o <<Word("and")>>
                 \o Enclosed({"and", "or"}, t.right, h[t.right])
          [] t.kind = "func" ->
               <<[word |-> "call", name |-> t.name]>> \o h[t.arg]
                 \o <<Word(")"), [word |-> "compare", op |-> t.op, value |-> t.value]>>
          [] OTHER -> <<[word |-> "leaf", tree |-> t]>>
    BY <1>5 DEF Wording
  <2> QED
    BY <2>1
<1>7. Unparse = [tree \in Trees |->
        CASE tree.kind = "or" ->
               Unparse[tree.left] \o <<Word("or")>>
                 \o Enclosed({"or"}, tree.right, Unparse[tree.right])
          [] tree.kind = "and" ->
               Enclosed({"or"}, tree.left, Unparse[tree.left]) \o <<Word("and")>>
                 \o Enclosed({"and", "or"}, tree.right, Unparse[tree.right])
          [] tree.kind = "func" ->
               <<[word |-> "call", name |-> tree.name]>> \o Unparse[tree.arg]
                 \o <<Word(")"), [word |-> "compare", op |-> tree.op, value |-> tree.value]>>
          [] OTHER -> <<[word |-> "leaf", tree |-> tree]>>]
  BY <1>6 DEF Unparse
<1>8. \A t \in Trees :
        Unparse[t] = Wording(t, IF t.kind = "func" THEN Unparse[t.arg] ELSE Unparse[t.left],
                             Unparse[t.right])
  BY <1>7 DEF Wording
<1>9. Trees \subseteq {t \in Trees : Unparse[t] \in V}
  <2> DEFINE S == {t \in Trees : Unparse[t] \in V}
  <2>1. ASSUME NEW t \in Trees, \A p \in Trees : Depth[p] < Depth[t] => p \in S
        PROVE  Unparse[t] \in V
    <3>1. CASE Joins(t)
      <4>1. Unparse[t.left] \in V /\ Unparse[t.right] \in V /\ t.kind # "func"
        BY <2>1, <3>1, PartsBelow DEF Joins
      <4> QED
        BY <1>8, <4>1, WordingType DEF V
    <3>2. CASE t.kind = "func"
      <4>1. Unparse[t.arg] \in V
        BY <2>1, <3>2, PartsBelow
      <4>2. Unparse[t] = Wording(t, Unparse[t.arg], << >>)
        BY <1>8, <3>2 DEF Wording
      <4> QED
        BY <1>3, <4>1, <4>2, WordingType DEF V
    <3>3. CASE ~Joins(t) /\ t.kind # "func"
      <4>1. Unparse[t] = Wording(t, << >>, << >>)
        BY <1>8, <3>3 DEF Wording, Joins
      <4> QED
        BY <1>3, <4>1, WordingType DEF V
    <3> QED
      BY <3>1, <3>2, <3>3
  <2>2. \A t \in Trees : (\A p \in Trees : Depth[p] < Depth[t] => p \in S) => t \in S
    BY <2>1
  <2> HIDE DEF S
  <2>3. Trees \subseteq S
    BY <2>2, TreeInduction
  <2> QED
    BY <2>3 DEF S
<1> QED
  BY <1>7, <1>8, <1>9 DEF V

\* Whether a tree is meaningful, if its parts are where l and r say so.
SenseFrom(t, context, l, r) ==
  CASE t.kind \in {"and", "or"} -> l /\ r
    [] t.kind = "func" ->
         t.name \in {"lineItemCount", "lineItemExists"} /\ l /\ Sensible(t.op, Number(1), t.value)
    [] OTHER -> /\ t.field \in DOMAIN context
                /\ t.kind = "cmp" => Sensible(t.op, context[t.field], t.value)

LEMMA SenseType ==
  ASSUME NEW t, NEW context, NEW l \in BOOLEAN, NEW r \in BOOLEAN
  PROVE  SenseFrom(t, context, l, r) \in BOOLEAN
<1>1. CASE t.kind \in {"and", "or"}
  BY <1>1 DEF SenseFrom
<1>2. CASE t.kind = "func"
  BY <1>2 DEF SenseFrom
<1>3. CASE t.kind \notin {"and", "or", "func"}
  BY <1>3 DEF SenseFrom
<1> QED
  BY <1>1, <1>2, <1>3

LEMMA NoTreeIsNone == NoTree \notin Trees
BY PredicatesAssumption DEF NoTree

LEMMA MeaningfulIs ==
  ASSUME NEW context, NEW t \in Trees
  PROVE  /\ Meaningful(t, context) \in BOOLEAN
         /\ t.kind \in {"and", "or"} =>
              (Meaningful(t, context) <=>
                 Meaningful(t.left, context) /\ Meaningful(t.right, context))
         /\ t.kind = "func" =>
              (Meaningful(t, context) <=>
                 /\ t.name \in {"lineItemCount", "lineItemExists"}
                 /\ Meaningful(t.arg, context)
                 /\ Sensible(t.op, Number(1), t.value))
         /\ t.kind \notin {"and", "or", "func"} =>
              (Meaningful(t, context) <=>
                 /\ t.field \in DOMAIN context
                 /\ t.kind = "cmp" => Sensible(t.op, context[t.field], t.value))
<1> DEFINE G == [x \in Trees \X BOOLEAN \X BOOLEAN |-> SenseFrom(x[1], context, x[2], x[3])]
<1>1. G \in [Trees \X BOOLEAN \X BOOLEAN -> BOOLEAN]
  <2>1. \A x \in Trees \X BOOLEAN \X BOOLEAN : SenseFrom(x[1], context, x[2], x[3]) \in BOOLEAN
    BY SenseType
  <2> QED
    BY <2>1
<1>2. \A u \in Trees, l \in BOOLEAN, r \in BOOLEAN : G[<<u, l, r>>] = SenseFrom(u, context, l, r)
  OBVIOUS
<1> HIDE DEF G
<1>3. PICK h \in [Trees -> BOOLEAN] : \A u \in Trees : h[u] = FromParts(G, TRUE, h, u)
  BY <1>1, FoldExists
<1>4. ASSUME NEW u \in Trees
      PROVE  h[u] = CASE u.kind \in {"and", "or"} -> h[u.left] /\ h[u.right]
                      [] u.kind = "func" -> /\ u.name \in {"lineItemCount", "lineItemExists"}
                                            /\ h[u.arg]
                                            /\ Sensible(u.op, Number(1), u.value)
                      [] OTHER -> /\ u.field \in DOMAIN context
                                  /\ u.kind = "cmp" => Sensible(u.op, context[u.field], u.value)
  <2>1. CASE Joins(u)
    <3>1. u.kind \in {"and", "or"} /\ u.kind # "func"
      BY <2>1 DEF Joins
    <3>2. h[u.left] \in BOOLEAN /\ h[u.right] \in BOOLEAN
      BY <1>3, <2>1, PartsBelow
    <3>3. h[u] = G[<<u, h[u.left], h[u.right]>>]
      BY <1>3, <2>1 DEF FromParts
    <3>4. h[u] = SenseFrom(u, context, h[u.left], h[u.right])
      BY <1>2, <3>2, <3>3
    <3> QED
      BY <3>1, <3>4 DEF SenseFrom
  <2>2. CASE u.kind = "func"
    <3>1. u.kind \notin {"and", "or"} /\ ~Joins(u)
      BY <2>2 DEF Joins
    <3>2. h[u.arg] \in BOOLEAN
      BY <1>3, <2>2, PartsBelow
    <3>3. h[u] = G[<<u, h[u.arg], TRUE>>]
      BY <1>3, <2>2, <3>1 DEF FromParts
    <3>4. h[u] = SenseFrom(u, context, h[u.arg], TRUE)
      BY <1>2, <3>2, <3>3
    <3> QED
      BY <2>2, <3>1, <3>4 DEF SenseFrom
  <2>3. CASE ~Joins(u) /\ u.kind # "func"
    <3>1. h[u] = G[<<u, TRUE, TRUE>>]
      BY <1>3, <2>3 DEF FromParts
    <3>2. h[u] = SenseFrom(u, context, TRUE, TRUE)
      BY <1>2, <3>1
    <3> QED
      BY <2>3, <3>2 DEF SenseFrom, Joins
  <2> QED
    BY <2>1, <2>2, <2>3
<1>5. h = [u \in Trees |->
             CASE u.kind \in {"and", "or"} -> h[u.left] /\ h[u.right]
               [] u.kind = "func" -> /\ u.name \in {"lineItemCount", "lineItemExists"}
                                     /\ h[u.arg]
                                     /\ Sensible(u.op, Number(1), u.value)
               [] OTHER -> /\ u.field \in DOMAIN context
                           /\ u.kind = "cmp" => Sensible(u.op, context[u.field], u.value)]
  BY <1>3, <1>4, Zenon
<1> DEFINE g == CHOOSE g : g =
           [u \in Trees |->
             CASE u.kind \in {"and", "or"} -> g[u.left] /\ g[u.right]
               [] u.kind = "func" -> /\ u.name \in {"lineItemCount", "lineItemExists"}
                                     /\ g[u.arg]
                                     /\ Sensible(u.op, Number(1), u.value)
               [] OTHER -> /\ u.field \in DOMAIN context
                           /\ u.kind = "cmp" => Sensible(u.op, context[u.field], u.value)]
<1>6. g = [u \in Trees |->
             CASE u.kind \in {"and", "or"} -> g[u.left] /\ g[u.right]
               [] u.kind = "func" -> /\ u.name \in {"lineItemCount", "lineItemExists"}
                                     /\ g[u.arg]
                                     /\ Sensible(u.op, Number(1), u.value)
               [] OTHER -> /\ u.field \in DOMAIN context
                           /\ u.kind = "cmp" => Sensible(u.op, context[u.field], u.value)]
  BY <1>5, Zenon
<1>7. ASSUME NEW u \in Trees PROVE Meaningful(u, context) = (u # NoTree /\ g[u])
  BY DEF Meaningful
<1> HIDE DEF g
<1>8. ASSUME NEW u \in Trees
      PROVE  /\ u.kind \in {"and", "or"} => g[u] = (g[u.left] /\ g[u.right])
             /\ u.kind = "func" => g[u] = (/\ u.name \in {"lineItemCount", "lineItemExists"}
                                           /\ g[u.arg]
                                           /\ Sensible(u.op, Number(1), u.value))
             /\ u.kind \notin {"and", "or", "func"} =>
                  g[u] = (/\ u.field \in DOMAIN context
                          /\ u.kind = "cmp" => Sensible(u.op, context[u.field], u.value))
  BY <1>6
<1>9. ASSUME NEW u \in Trees
      PROVE  Meaningful(u, context) \in BOOLEAN /\ (Meaningful(u, context) <=> g[u])
  BY <1>7, NoTreeIsNone
<1>10. \A u \in Trees : (Meaningful(u, context) <=> g[u])
  BY <1>9
<1> QED
  BY <1>8, <1>9, <1>10, PartsBelow DEF Joins

\* Whether a tree is true, if its parts are where l and r say so.
TruthFrom(t, context, l, r) ==
  CASE t.kind = "or" -> l \/ r
    [] t.kind = "and" -> l /\ r
    [] t.kind = "func" -> Relates(t.op, Count(l), t.value)
    [] t.kind = "cmp" -> Relates(t.op, context[t.field], t.value)
    [] t.kind = "in_expr" -> Listed(context[t.field], t.items) # t.negate
    [] t.kind = "is_defined" -> (context[t.field] # None) # t.negate

Operators == {"=", "!=", "<", "<=", ">", ">="}

LEMMA TreeShape ==
  ASSUME NEW t \in Trees
  PROVE  /\ t.kind \in {"and", "or", "func", "cmp", "in_expr", "is_defined"}
         /\ t.kind \in {"func", "cmp"} => t.op \in Operators /\ t.value \in Literals
         /\ t.kind = "in_expr" => t.items \subseteq Literals
         /\ t.kind \in {"in_expr", "is_defined"} => t.negate \in BOOLEAN
BY PredicatesAssumption DEF Operators

LEMMA RelatesType ==
  ASSUME NEW op \in Operators, NEW a, NEW literal
  PROVE  Relates(op, a, literal) \in BOOLEAN
BY DEF Relates

LEMMA TruthType ==
  ASSUME NEW t \in Trees, NEW context, NEW l \in BOOLEAN, NEW r \in BOOLEAN
  PROVE  TruthFrom(t, context, l, r) \in BOOLEAN
<1>1. CASE t.kind \in {"or", "and"}
  BY <1>1 DEF TruthFrom
<1>2. CASE t.kind \in {"func", "cmp"}
  <2>1. t.op \in Operators
    BY <1>2, TreeShape
  <2>2. /\ Relates(t.op, Count(l), t.value) \in BOOLEAN
        /\ Relates(t.op, context[t.field], t.value) \in BOOLEAN
    BY <2>1, RelatesType
  <2> QED
    BY <1>2, <2>2 DEF TruthFrom
<1>3. CASE t.kind \in {"in_expr", "is_defined"}
  BY <1>3 DEF TruthFrom
<1> QED
  BY <1>1, <1>2, <1>3, TreeShape

LEMMA HoldsIs ==
  ASSUME NEW context, NEW t \in Trees
  PROVE  /\ Holds(t, context) \in BOOLEAN
         /\ t.kind = "or" =>
              (Holds(t, context) <=> Holds(t.left, context) \/ Holds(t.right, context))
         /\ t.kind = "and" =>
              (Holds(t, context) <=> Holds(t.left, context) /\ Holds(t.right, context))
         /\ t.kind = "func" =>
              Holds(t, context) =
                Relates(t.op, Count(Holds(t.arg, context)), t.value)
         /\ t.kind = "cmp" => Holds(t, context) = Relates(t.op, context[t.field], t.value)
         /\ t.kind = "in_expr" => Holds(t, context) = (Listed(context[t.field], t.items) # t.negate)
         /\ t.kind = "is_defined" =>
              Holds(t, context) = ((context[t.field] # None) # t.negate)
<1> DEFINE G == [x \in Trees \X BOOLEAN \X BOOLEAN |-> TruthFrom(x[1], context, x[2], x[3])]
<1>1. G \in [Trees \X BOOLEAN \X BOOLEAN -> BOOLEAN]
  <2>1. \A x \in Trees \X BOOLEAN \X BOOLEAN : TruthFrom(x[1], context, x[2], x[3]) \in BOOLEAN
    BY TruthType
  <2> QED
    BY <2>1
<1>2. \A u \in Trees, l \in BOOLEAN, r \in BOOLEAN : G[<<u, l, r>>] = TruthFrom(u, context, l, r)
  OBVIOUS
<1> HIDE DEF G
<1>3. PICK h \in [Trees -> BOOLEAN] : \A u \in Trees : h[u] = FromParts(G, TRUE, h, u)
  BY <1>1, FoldExists
<1>4. ASSUME NEW u \in Trees
      PROVE  h[u] = CASE u.kind = "or" -> h[u.left] \/ h[u.right]
                      [] u.kind = "and" -> h[u.left] /\ h[u.right]
                      [] u.kind = "func" -> Relates(u.op, Count(h[u.arg]), u.value)
                      [] u.kind = "cmp" -> Relates(u.op, context[u.field], u.value)
                      [] u.kind = "in_expr" -> Listed(context[u.field], u.items) # u.negate
                      [] u.kind = "is_defined" -> (context[u.field] # None) # u.negate
  <2>1. CASE Joins(u)
    <3>1. u.kind \in {"and", "or"} /\ u.kind # "func"
      BY <2>1 DEF Joins
    <3>2. h[u.left] \in BOOLEAN /\ h[u.right] \in BOOLEAN
      BY <1>3, <2>1, PartsBelow
    <3>3. h[u] = G[<<u, h[u.left], h[u.right]>>]
      BY <1>3, <2>1 DEF FromParts
    <3>4. h[u] = TruthFrom(u, context, h[u.left], h[u.right])
      BY <1>2, <3>2, <3>3
    <3> QED
      BY <3>1, <3>4 DEF TruthFrom
  <2>2. CASE u.kind = "func"
    <3>1. u.kind \notin {"and", "or"} /\ ~Joins(u)
      BY <2>2 DEF Joins
    <3>2. h[u.arg] \in BOOLEAN
      BY <1>3, <2>2, PartsBelow
    <3>3. h[u] = G[<<u, h[u.arg], TRUE>>]
      BY <1>3, <2>2, <3>1 DEF FromParts
    <3>4. h[u] = TruthFrom(u, context, h[u.arg], TRUE)
      BY <1>2, <3>2, <3>3
    <3> QED
      BY <2>2, <3>1, <3>4 DEF TruthFrom
  <2>3. CASE ~Joins(u) /\ u.kind # "func"
    <3>1. h[u] = G[<<u, TRUE, TRUE>>]
      BY <1>3, <2>3 DEF FromParts
    <3>2. h[u] = TruthFrom(u, context, TRUE, TRUE)
      BY <1>2, <3>1
    <3>3. u.kind \in {"cmp", "in_expr", "is_defined"}
      BY <2>3, TreeShape DEF Joins
    <3> QED
      BY <3>2, <3>3 DEF TruthFrom
  <2> QED
    BY <2>1, <2>2, <2>3
<1>5. h = [u \in Trees |->
             CASE u.kind = "or" -> h[u.left] \/ h[u.right]
               [] u.kind = "and" -> h[u.left] /\ h[u.right]
               [] u.kind = "func" -> Relates(u.op, Count(h[u.arg]), u.value)
               [] u.kind = "cmp" -> Relates(u.op, context[u.field], u.value)
               [] u.kind = "in_expr" -> Listed(context[u.field], u.items) # u.negate
               [] u.kind = "is_defined" -> (context[u.field] # None) # u.negate]
  BY <1>3, <1>4, Zenon
<1> DEFINE g == CHOOSE g : g =
           [u \in Trees |->
             CASE u.kind = "or" -> g[u.left] \/ g[u.right]
               [] u.kind = "and" -> g[u.left] /\ g[u.right]
               [] u.kind = "func" -> Relates(u.op, Count(g[u.arg]), u.value)
               [] u.kind = "cmp" -> Relates(u.op, context[u.field], u.value)
               [] u.kind = "in_expr" -> Listed(context[u.field], u.items) # u.negate
               [] u.kind = "is_defined" -> (context[u.field] # None) # u.negate]
<1>6. g = [u \in Trees |->
             CASE u.kind = "or" -> g[u.left] \/ g[u.right]
               [] u.kind = "and" -> g[u.left] /\ g[u.right]
               [] u.kind = "func" -> Relates(u.op, Count(g[u.arg]), u.value)
               [] u.kind = "cmp" -> Relates(u.op, context[u.field], u.value)
               [] u.kind = "in_expr" -> Listed(context[u.field], u.items) # u.negate
               [] u.kind = "is_defined" -> (context[u.field] # None) # u.negate]
  BY <1>5, Zenon
<1>7. ASSUME NEW u PROVE Holds(u, context) = g[u]
  BY DEF Holds
<1> HIDE DEF g
<1>8. ASSUME NEW u \in Trees
      PROVE  /\ u.kind = "or" => g[u] = (g[u.left] \/ g[u.right])
             /\ u.kind = "and" => g[u] = (g[u.left] /\ g[u.right])
             /\ u.kind = "func" =>
                  g[u] = Relates(u.op, Count(g[u.arg]), u.value)
             /\ u.kind = "cmp" => g[u] = Relates(u.op, context[u.field], u.value)
             /\ u.kind = "in_expr" => g[u] = (Listed(context[u.field], u.items) # u.negate)
             /\ u.kind = "is_defined" => g[u] = ((context[u.field] # None) # u.negate)
  <2>1. CASE u.kind \in {"or", "and"}
    BY <1>6, <2>1
  <2>2. CASE u.kind \in {"func", "cmp"}
    BY <1>6, <2>2
  <2>3. CASE u.kind = "in_expr"
    BY <1>6, <2>3
  <2>4. CASE u.kind = "is_defined"
    BY <1>6, <2>4
  <2> QED
    BY <2>1, <2>2, <2>3, <2>4, TreeShape
<1>9. g[t] \in BOOLEAN
  <2>1. CASE t.kind \in {"or", "and"}
    BY <1>8, <2>1
  <2>2. CASE t.kind \in {"func", "cmp"}
    BY <1>8, <2>2, TreeShape, RelatesType
  <2>3. CASE t.kind \in {"in_expr", "is_defined"}
    BY <1>8, <2>3
  <2> QED
    BY <2>1, <2>2, <2>3, TreeShape
<1> QED
  BY <1>7, <1>8, <1>9, Zenon

-----------------------------------------------------------------------------
(* What is evaluated is what a tree says. *)

\* A literal as the code normalises it.
LEMMA NormalizedIs ==
  ASSUME NEW literal \in Literals
  PROVE  LET e == _normalize_expected(literal) IN
           /\ e \in Values
           /\ e.v = Literal(literal) /\ e.v \in Int
           /\ Numeric(e) <=> Numeric(literal) \/ literal \in {TrueText, FalseText}
           /\ e.type \in {"number", "text"}
           /\ e = [type |-> e.type, v |-> e.v]
<1>1. CASE literal = TrueText
  BY <1>1 DEF _normalize_expected, Literal, Literals, Values, Number, Numeric, TrueText,
              FalseText, Text
<1>2. CASE literal = FalseText
  BY <1>2 DEF _normalize_expected, Literal, Literals, Values, Number, Numeric, TrueText,
              FalseText, Text
<1>3. CASE literal \notin {TrueText, FalseText}
  BY <1>3 DEF _normalize_expected, Literal, Literals, Values, Numeric
<1> QED
  BY <1>1, <1>2, <1>3

LEMMA ValueShape ==
  ASSUME NEW a \in Values
  PROVE  /\ a = [type |-> a.type, v |-> a.v] /\ a.v \in Int
         /\ a.type \in {"number", "text", "flag", "none"}
         /\ a = None <=> a.type = "none"
BY DEF Values, None

LEMMA ComparableIs ==
  ASSUME NEW a \in Values, NEW literal \in Literals
  PROVE  LET e == _normalize_expected(literal) IN
           /\ Ordered(a, e) <=> Comparable(a, literal)
           /\ Same(a, e) <=> Comparable(a, literal) /\ a.v = Literal(literal)
<1>1. PICK e : e = _normalize_expected(literal)
  OBVIOUS
<1>2. /\ e.v = Literal(literal) /\ e.v \in Int
      /\ Numeric(e) <=> Numeric(literal) \/ literal \in {TrueText, FalseText}
      /\ e.type \in {"number", "text"}
      /\ e = [type |-> e.type, v |-> e.v]
  BY <1>1, NormalizedIs
<1>3. Comparable(a, literal) <=> a # None /\ (Numeric(a) <=> Numeric(e))
  BY <1>2 DEF Comparable, Numeric
<1>4. Ordered(a, e) <=> Comparable(a, literal)
  BY <1>2, <1>3, ValueShape DEF Ordered, Numeric
<1>5. Same(a, e) <=> Comparable(a, literal) /\ a.v = e.v
  BY <1>2, <1>3, ValueShape DEF Same, Numeric
<1> QED
  BY <1>1, <1>2, <1>4, <1>5

LEMMA CompareRight ==
  ASSUME NEW op \in Operators, NEW a \in Values, NEW literal \in Literals
  PROVE  Compare(op, a, _normalize_expected(literal)) =
           IF Sensible(op, a, literal) THEN Truth(Relates(op, a, literal)) ELSE "raises"
<1>1. PICK e : e = _normalize_expected(literal)
  OBVIOUS
<1>2. /\ Ordered(a, e) <=> Comparable(a, literal)
      /\ Same(a, e) <=> Comparable(a, literal) /\ a.v = Literal(literal)
      /\ e.v = Literal(literal) /\ e.v \in Int /\ a.v \in Int
  BY <1>1, NormalizedIs, ComparableIs, ValueShape
<1>3. CASE op \in {"=", "!="}
  BY <1>1, <1>2, <1>3 DEF Compare, Sensible, Relates, Truth
<1>4. CASE op \in {"<", "<=", ">", ">="}
  <2>1. Compare(op, a, e) = IF Comparable(a, literal) THEN Truth(Order(op, a.v, e.v)) ELSE "raises"
    BY <1>2, <1>4 DEF Compare
  <2>2. Comparable(a, literal) => (Order(op, a.v, e.v) <=> Relates(op, a, literal))
    <3> SUFFICES ASSUME Comparable(a, literal)
                 PROVE  Order(op, a.v, e.v) <=> Relates(op, a, literal)
      OBVIOUS
    <3>1. CASE op = "<"
      BY <1>2, <3>1 DEF Order, Relates
    <3>2. CASE op = "<="
      BY <1>2, <3>2 DEF Order, Relates
    <3>3. CASE op = ">"
      BY <1>2, <3>3 DEF Order, Relates
    <3>4. CASE op = ">="
      BY <1>2, <3>4 DEF Order, Relates
    <3> QED
      BY <1>4, <3>1, <3>2, <3>3, <3>4
  <2>3. Sensible(op, a, literal) <=> Comparable(a, literal)
    BY <1>4 DEF Sensible, Comparable
  <2> QED
    BY <1>1, <2>1, <2>2, <2>3 DEF Truth
<1> QED
  BY <1>3, <1>4 DEF Operators

LEMMA InRight ==
  ASSUME NEW a \in Values, NEW items \in SUBSET Literals
  PROVE  (\E v \in items : Same(a, v)) <=> Listed(a, items)
<1>1. ASSUME NEW v \in items
      PROVE  Same(a, v) <=> a # None /\ Numeric(a) = Numeric(v) /\ a.v = v.v
  <2>1. v = [type |-> v.type, v |-> v.v] /\ v.type \in {"number", "text"} /\ v.v \in Int
    BY DEF Literals
  <2> QED
    BY <2>1, ValueShape DEF Same, Numeric
<1> QED
  BY <1>1 DEF Listed

\* What a predicate comes to.
Worth(t, context) ==
  IF Meaningful(t, context) THEN Truth(Holds(t, context)) ELSE "raises"

LEMMA FieldRight ==
  ASSUME NEW context \in Contexts, NEW t \in Trees, t.kind \notin {"and", "or", "func"}
  PROVE  EvaluateField(t, context) = Worth(t, context)
<1>1. CASE t.field \notin DOMAIN context
  BY <1>1, MeaningfulIs DEF EvaluateField, Worth
<1>2. CASE t.field \in DOMAIN context
  <2>1. PICK a : a = context[t.field]
    OBVIOUS
  <2>2. a \in Values
    BY <1>2, <2>1, PredicatesAssumption
  <2>3. CASE t.kind = "cmp"
    <3>1. EvaluateField(t, context) = Compare(t.op, a, _normalize_expected(t.value))
      BY <1>2, <2>1, <2>3 DEF EvaluateField
    <3>2. /\ Meaningful(t, context) <=> Sensible(t.op, a, t.value)
          /\ Holds(t, context) = Relates(t.op, a, t.value)
      BY <1>2, <2>1, <2>3, MeaningfulIs, HoldsIs
    <3> QED
      BY <2>2, <2>3, <3>1, <3>2, TreeShape, CompareRight DEF Worth
  <2>4. CASE t.kind = "in_expr"
    <3>1. EvaluateField(t, context) = Truth((\E v \in t.items : Same(a, v)) # t.negate)
      BY <1>2, <2>1, <2>4 DEF EvaluateField
    <3>2. Meaningful(t, context) /\ Holds(t, context) = (Listed(a, t.items) # t.negate)
      BY <1>2, <2>1, <2>4, MeaningfulIs, HoldsIs
    <3>3. (\E v \in t.items : Same(a, v)) <=> Listed(a, t.items)
      BY <2>2, <2>4, TreeShape, InRight
    <3>4. PICK b \in BOOLEAN : b <=> Listed(a, t.items)
      OBVIOUS
    <3>5. t.negate \in BOOLEAN /\ Listed(a, t.items) \in BOOLEAN
      BY <2>4, TreeShape DEF Listed
    <3>6. EvaluateField(t, context) = Truth(b # t.negate)
      BY <3>1, <3>3, <3>4
    <3>7. Holds(t, context) = (b # t.negate)
      BY <3>2, <3>4, <3>5
    <3> QED
      BY <3>2, <3>6, <3>7 DEF Worth
  <2>5. CASE t.kind = "is_defined"
    <3>1. EvaluateField(t, context) = Truth((a # None) # t.negate)
      BY <1>2, <2>1, <2>5 DEF EvaluateField
    <3>2. Meaningful(t, context) /\ Holds(t, context) = ((a # None) # t.negate)
      BY <1>2, <2>1, <2>5, MeaningfulIs, HoldsIs
    <3> QED
      BY <3>1, <3>2 DEF Worth
  <2> QED
    BY <2>3, <2>4, <2>5, TreeShape
<1> QED
  BY <1>1, <1>2

Results == {"true", "false", "raises"}

LEMMA WorthType ==
  ASSUME NEW t, NEW context
  PROVE  Worth(t, context) \in Results
BY DEF Worth, Truth, Results

LEMMA WorthOfParts ==
  ASSUME NEW context, NEW t \in Trees
  PROVE  /\ t.kind = "or" =>
              Worth(t, context) = or_expr(Worth(t.left, context), Worth(t.right, context))
         /\ t.kind = "and" =>
              Worth(t, context) = and_expr(Worth(t.left, context), Worth(t.right, context))
         /\ t.kind = "func" =>
              Worth(t, context) =
                comparison(function_call(t.name, Worth(t.arg, context)), t.op, t.value)
<1>1. CASE t.kind = "or"
  <2>1. /\ Meaningful(t, context) <=> Meaningful(t.left, context) /\ Meaningful(t.right, context)
        /\ Holds(t, context) <=> Holds(t.left, context) \/ Holds(t.right, context)
    BY <1>1, MeaningfulIs, HoldsIs
  <2> QED
    BY <1>1, <2>1 DEF Worth, or_expr, Truth
<1>2. CASE t.kind = "and"
  <2>1. /\ Meaningful(t, context) <=> Meaningful(t.left, context) /\ Meaningful(t.right, context)
        /\ Holds(t, context) <=> Holds(t.left, context) /\ Holds(t.right, context)
    BY <1>2, MeaningfulIs, HoldsIs
  <2> QED
    BY <1>2, <2>1 DEF Worth, and_expr, Truth
<1>3. CASE t.kind = "func"
  <2>1. PICK b \in BOOLEAN : b = Holds(t.arg, context)
    BY <1>3, PartsBelow, HoldsIs
  <2>2. /\ Meaningful(t, context) <=> /\ t.name \in {"lineItemCount", "lineItemExists"}
                                      /\ Meaningful(t.arg, context)
                                      /\ Sensible(t.op, Number(1), t.value)
        /\ Holds(t, context) = Relates(t.op, Count(b), t.value)
    BY <1>3, <2>1, MeaningfulIs, HoldsIs
  <2>3. t.op \in Operators /\ t.value \in Literals /\ Count(b) \in Values
    BY <1>3, TreeShape DEF Count, Number, Values
  <2>4. Sensible(t.op, Number(1), t.value) <=> Sensible(t.op, Count(b), t.value)
    BY DEF Sensible, Comparable, Count, Number, None, Numeric
  <2>5. Compare(t.op, Count(b), _normalize_expected(t.value)) =
          IF Sensible(t.op, Count(b), t.value) THEN Truth(Holds(t, context)) ELSE "raises"
    BY <2>2, <2>3, CompareRight
  <2>6. CASE t.name \in {"lineItemCount", "lineItemExists"} /\ Meaningful(t.arg, context)
    <3>1. function_call(t.name, Worth(t.arg, context)) = Truth(b)
      BY <2>1, <2>6 DEF function_call, Worth
    <3>2. comparison(Truth(b), t.op, t.value) =
            Compare(t.op, Count(b), _normalize_expected(t.value))
      BY DEF comparison, Truth
    <3> QED
      BY <1>3, <2>2, <2>4, <2>5, <2>6, <3>1, <3>2 DEF Worth
  <2>7. CASE ~(t.name \in {"lineItemCount", "lineItemExists"} /\ Meaningful(t.arg, context))
    <3>1. function_call(t.name, Worth(t.arg, context)) = "raises"
      BY <2>7 DEF function_call, Worth
    <3> QED
      BY <1>3, <2>2, <2>7, <3>1 DEF comparison, Worth
  <2> QED
    BY <2>6, <2>7, <1>3
<1> QED
  BY <1>1, <1>2, <1>3

-----------------------------------------------------------------------------
(* The stack as a function of positions. *)

\* The stack after k tokens, from the one before.
Shifted(s, context, g, k) == IF k = 0 THEN Start ELSE shift(g[k - 1], s[k], context)

LEMMA StackExists ==
  ASSUME NEW s, Len(s) \in Nat, NEW context
  PROVE  \E g : g = [k \in 0 .. Len(s) |-> Shifted(s, context, g, k)]
<1> DEFINE UpTo(n, g) == \A k \in 0 .. n : g[k] = Shifted(s, context, g, k)
           Bad == {n \in Nat : ~ \E g : UpTo(n, g)}
<1>1. Bad = {}
  <2> SUFFICES ASSUME Bad # {} PROVE FALSE
    OBVIOUS
  <2>1. PICK m \in Bad : \A k \in Bad : m <= k
    <3>1. Bad \subseteq Nat
      OBVIOUS
    <3> HIDE DEF Bad
    <3> QED
      BY <3>1, HasFirst
  <2>2. m \in Nat /\ ~ \E g : UpTo(m, g)
    OBVIOUS
  <2>3. m # 0
    <3>1. PICK g : g = [k \in 0 .. 0 |-> Start]
      OBVIOUS
    <3>2. UpTo(0, g)
      BY <3>1 DEF Shifted
    <3> QED
      BY <2>2, <3>2
  <2>4. PICK g : UpTo(m - 1, g)
    <3>1. m - 1 \in Nat /\ ~(m <= m - 1)
      BY <2>2, <2>3
    <3>2. m - 1 \notin Bad
      BY <2>1, <3>1
    <3> QED
      BY <3>1, <3>2
  <2>5. PICK h : h = [k \in 0 .. m |-> IF k = m THEN Shifted(s, context, g, m) ELSE g[k]]
    OBVIOUS
  <2>6. ASSUME NEW k \in 0 .. m PROVE h[k] = Shifted(s, context, h, k)
    <3>1. k = 0 \/ h[k - 1] = g[k - 1]
      BY <2>2, <2>5
    <3>2. Shifted(s, context, h, k) = Shifted(s, context, g, k)
      BY <3>1 DEF Shifted
    <3>3. k = m \/ g[k] = Shifted(s, context, g, k)
      BY <2>2, <2>4
    <3> QED
      BY <2>5, <3>2, <3>3
  <2> QED
    BY <2>2, <2>6
<1>2. PICK g : UpTo(Len(s), g)
  BY <1>1
<1>3. PICK h : h = [k \in 0 .. Len(s) |-> g[k]]
  OBVIOUS
<1>4. ASSUME NEW k \in 0 .. Len(s) PROVE h[k] = Shifted(s, context, h, k)
  <2>1. k = 0 \/ h[k - 1] = g[k - 1]
    BY <1>3
  <2> QED
    BY <1>2, <1>3, <2>1 DEF Shifted
<1>5. h = [k \in 0 .. Len(s) |-> Shifted(s, context, h, k)]
  BY <1>3, <1>4
<1> QED
  BY <1>5

LEMMA EvaluatedIs ==
  ASSUME NEW s, Len(s) \in Nat, NEW context
  PROVE  \E g : /\ g[0] = Start
                /\ \A k \in 1 .. Len(s) : g[k] = shift(g[k - 1], s[k], context)
                /\ Evaluated(s, context) =
                     IF Ended(g[Len(s)]) /\ g[Len(s)].open.word = "start"
                     THEN expr(g[Len(s)]) ELSE "raises"
<1> DEFINE g == CHOOSE g : g = [k \in 0 .. Len(s) |->
                  IF k = 0 THEN Start ELSE shift(g[k - 1], s[k], context)]
<1>1. g = [k \in 0 .. Len(s) |-> IF k = 0 THEN Start ELSE shift(g[k - 1], s[k], context)]
  BY StackExists DEF Shifted
<1>2. Evaluated(s, context) =
                     IF Ended(g[Len(s)]) /\ g[Len(s)].open.word = "start"
                     THEN expr(g[Len(s)]) ELSE "raises"
  BY DEF Evaluated
<1> HIDE DEF g
<1>3. g[0] = Start /\ \A k \in 1 .. Len(s) : g[k] = shift(g[k - 1], s[k], context)
  BY <1>1
<1> QED
  BY <1>2, <1>3

-----------------------------------------------------------------------------
(* The frames of the stack, a token at a time. *)

IsFrame(f) ==
  /\ f = Frame(f.open, f.outer, f.terms, f.factors, f.factor, f.call)
  /\ f.open.word # "refused"
  /\ f.terms \in Results \cup {"none"} /\ f.factors \in Results \cup {"none"}

\* A factor may begin in this frame, or one has ended in it.
Opened(f) == IsFrame(f) /\ f.factor = "none" /\ f.call = "none"

Complete(f) == IsFrame(f) /\ f.factor \in Results /\ f.call = "none"

\* The frame f, in which a factor has come to x.
Filled(f, x) == Frame(f.open, f.outer, f.terms, f.factors, x, "none")

LEMMA FrameFields ==
  ASSUME NEW o, NEW u, NEW t, NEW f, NEW x, NEW c
  PROVE  LET h == Frame(o, u, t, f, x, c) IN
           /\ h.open = o /\ h.outer = u /\ h.terms = t /\ h.factors = f
           /\ h.factor = x /\ h.call = c
BY DEF Frame

LEMMA FilledFields ==
  ASSUME NEW f, Opened(f), NEW x \in Results
  PROVE  /\ Complete(Filled(f, x)) /\ Filled(f, x).factor = x
         /\ Filled(f, x).open = f.open /\ Filled(f, x).outer = f.outer
         /\ Filled(f, x).terms = f.terms /\ Filled(f, x).factors = f.factors
BY FrameFields DEF Opened, IsFrame, Filled, Complete

\* What is joined has come to something.
LEMMA JoinedType ==
  ASSUME NEW x \in Results \cup {"none"}, NEW y \in Results
  PROVE  and_expr(x, y) \in Results /\ or_expr(x, y) \in Results
BY DEF and_expr, or_expr, Truth, Results

LEMMA CompleteType ==
  ASSUME NEW h, Complete(h)
  PROVE  /\ term(h) \in Results /\ expr(h) \in Results
         /\ h.factors = "none" => term(h) = h.factor
         /\ h.terms = "none" => expr(h) = term(h)
<1>1. term(h) \in Results
  BY JoinedType DEF Complete, IsFrame, term
<1>2. expr(h) \in Results
  BY <1>1, JoinedType DEF Complete, IsFrame, expr
<1>3. \A x : and_expr("none", x) = x /\ or_expr("none", x) = x
  BY DEF and_expr, or_expr
<1> QED
  BY <1>1, <1>2, <1>3 DEF term, expr

LEMMA LeafShifts ==
  ASSUME NEW context, NEW f, Opened(f), NEW t
  PROVE  shift(f, [word |-> "leaf", tree |-> t], context) = Filled(f, EvaluateField(t, context))
<1> DEFINE w == [word |-> "leaf", tree |-> t]
<1>1. w.word = "leaf" /\ w.tree = t /\ Expecting(f)
  BY DEF Opened, IsFrame, Expecting
<1> HIDE DEF w
<1>2. shift(f, w, context) = [f EXCEPT !.factor = EvaluateField(t, context)]
  BY <1>1 DEF shift
<1>3. [f EXCEPT !.factor = EvaluateField(t, context)] = Filled(f, EvaluateField(t, context))
  BY DEF Opened, IsFrame, Filled, Frame
<1> QED
  BY <1>2, <1>3 DEF w

LEMMA OpenShifts ==
  ASSUME NEW context, NEW f, Opened(f), NEW w, w.word \in {"(", "call"}
  PROVE  /\ shift(f, w, context) = Fresh(w, f)
         /\ Opened(Fresh(w, f)) /\ Fresh(w, f).open = w /\ Fresh(w, f).outer = f
         /\ Fresh(w, f).terms = "none" /\ Fresh(w, f).factors = "none"
<1>1. Expecting(f) /\ f.call = "none"
  BY DEF Opened, IsFrame, Expecting
<1>2. shift(f, w, context) = Fresh(w, f)
  BY <1>1 DEF shift
<1>3. PICK h : h = Fresh(w, f)
  OBVIOUS
<1>4. /\ h = Frame(w, f, "none", "none", "none", "none")
      /\ h.open = w /\ h.outer = f /\ h.terms = "none" /\ h.factors = "none"
      /\ h.factor = "none" /\ h.call = "none"
  BY <1>3, FrameFields DEF Fresh
<1>5. Opened(h)
  BY <1>4 DEF Opened, IsFrame
<1> QED
  BY <1>2, <1>3, <1>4, <1>5

LEMMA AndShifts ==
  ASSUME NEW context, NEW h, Complete(h)
  PROVE  LET j == Frame(h.open, h.outer, h.terms, term(h), "none", "none") IN
           shift(h, Word("and"), context) = j /\ Opened(j)
<1>1. Word("and").word = "and" /\ Ended(h)
  BY DEF Word, Complete, IsFrame, Ended, Results
<1>2. shift(h, Word("and"), context) = BeforeAnd(h)
  <2>1. PICK w : w = Word("and")
    OBVIOUS
  <2> QED
    BY <1>1, <2>1 DEF shift
<1>3. BeforeAnd(h) = Frame(h.open, h.outer, h.terms, term(h), "none", "none")
  BY DEF BeforeAnd
<1>4. term(h) \in Results
  BY CompleteType
<1>5. Opened(Frame(h.open, h.outer, h.terms, term(h), "none", "none"))
  BY <1>4, FrameFields DEF Opened, IsFrame, Complete
<1> QED
  BY <1>2, <1>3, <1>5

LEMMA OrShifts ==
  ASSUME NEW context, NEW h, Complete(h)
  PROVE  LET j == Frame(h.open, h.outer, expr(h), "none", "none", "none") IN
           shift(h, Word("or"), context) = j /\ Opened(j)
<1>1. Word("or").word = "or" /\ Ended(h)
  BY DEF Word, Complete, IsFrame, Ended, Results
<1>2. shift(h, Word("or"), context) = BeforeOr(h)
  <2>1. PICK w : w = Word("or")
    OBVIOUS
  <2> QED
    BY <1>1, <2>1 DEF shift
<1>3. BeforeOr(h) = Frame(h.open, h.outer, expr(h), "none", "none", "none")
  BY DEF BeforeOr
<1>4. expr(h) \in Results
  BY CompleteType
<1>5. Opened(Frame(h.open, h.outer, expr(h), "none", "none", "none"))
  BY <1>4, FrameFields DEF Opened, IsFrame, Complete
<1> QED
  BY <1>2, <1>3, <1>5

LEMMA CloseShifts ==
  ASSUME NEW context, NEW f, Opened(f), NEW h, Complete(h), h.outer = f,
         h.open.word \in {"(", "call"}
  PROVE  shift(h, Word(")"), context) =
           IF h.open.word = "call"
           THEN Frame(f.open, f.outer, f.terms, f.factors, "none",
                      function_call(h.open.name, expr(h)))
           ELSE Filled(f, expr(h))
<1>1. Word(")").word = ")" /\ Ended(h)
  BY DEF Word, Complete, IsFrame, Ended, Results
<1>2. shift(h, Word(")"), context) = Closed(h)
  <2>1. PICK w : w = Word(")")
    OBVIOUS
  <2> QED
    BY <1>1, <2>1 DEF shift
<1>3. \A x : [f EXCEPT !.call = x] = Frame(f.open, f.outer, f.terms, f.factors, "none", x)
  BY DEF Opened, IsFrame, Frame
<1>4. \A x : [f EXCEPT !.factor = x] = Filled(f, x)
  BY DEF Opened, IsFrame, Frame, Filled
<1> QED
  BY <1>2, <1>3, <1>4 DEF Closed

LEMMA CompareShifts ==
  ASSUME NEW context, NEW h, h.call \in Results, h.factor = "none", NEW w, w.word = "compare"
  PROVE  shift(h, w, context) =
           Frame(h.open, h.outer, h.terms, h.factors, comparison(h.call, w.op, w.value), "none")
BY DEF shift, Results

-----------------------------------------------------------------------------
(* The text of a tree is read as that tree. *)

\* x stands in s after the first i tokens.
Occurs(x, s, i) ==
  /\ i \in Nat /\ i + Len(x) <= Len(s)
  /\ \A k \in 1 .. Len(x) : s[i + k] = x[k]

LEMMA OccursJoined ==
  ASSUME NEW T, NEW x \in Seq(T), NEW y \in Seq(T), NEW s, Len(s) \in Nat, NEW i,
         Occurs(x \o y, s, i)
  PROVE  /\ Occurs(x, s, i) /\ Occurs(y, s, i + Len(x))
         /\ i + Len(x \o y) = (i + Len(x)) + Len(y) /\ Len(x) \in Nat /\ Len(y) \in Nat
<1>1. PICK z : z = x \o y
  OBVIOUS
<1>2. /\ i \in Nat /\ Len(x) \in Nat /\ Len(y) \in Nat /\ Len(z) = Len(x) + Len(y)
      /\ i + Len(z) <= Len(s)
      /\ \A k \in 1 .. Len(x) : z[k] = x[k]
      /\ \A k \in 1 .. Len(y) : z[Len(x) + k] = y[k]
  BY <1>1 DEF Occurs
<1>3. \A k \in 1 .. Len(z) : s[i + k] = z[k]
  BY <1>1 DEF Occurs
<1>4. Occurs(x, s, i)
  <2>1. \A k \in 1 .. Len(x) : k \in 1 .. Len(z)
    BY <1>2
  <2> QED
    BY <1>2, <1>3, <2>1 DEF Occurs
<1>5. \A k \in 1 .. Len(y) : s[(i + Len(x)) + k] = y[k]
  <2> SUFFICES ASSUME NEW k \in 1 .. Len(y) PROVE s[(i + Len(x)) + k] = y[k]
    OBVIOUS
  <2>1. Len(x) + k \in 1 .. Len(z) /\ i + (Len(x) + k) = (i + Len(x)) + k
    BY <1>2
  <2>2. s[i + (Len(x) + k)] = z[Len(x) + k]
    BY <1>3, <2>1
  <2> QED
    BY <1>2, <2>1, <2>2
<1>6. Occurs(y, s, i + Len(x))
  BY <1>2, <1>5 DEF Occurs
<1> QED
  BY <1>1, <1>2, <1>4, <1>6

LEMMA OccursThree ==
  ASSUME NEW T, NEW x \in Seq(T), NEW y \in Seq(T), NEW z \in Seq(T), NEW s, Len(s) \in Nat,
         NEW i, Occurs(x \o y \o z, s, i)
  PROVE  /\ Occurs(x, s, i) /\ Occurs(y, s, i + Len(x)) /\ Occurs(z, s, i + Len(x) + Len(y))
         /\ i + Len(x \o y \o z) = i + Len(x) + Len(y) + Len(z)
<1>1. x \o y \in Seq(T)
  OBVIOUS
<1>2. PICK xy \in Seq(T) : xy = x \o y
  BY <1>1
<1>3. Occurs(xy \o z, s, i)
  BY <1>2
<1>4. /\ Occurs(xy, s, i) /\ Occurs(z, s, i + Len(xy))
      /\ i + Len(xy \o z) = (i + Len(xy)) + Len(z)
  BY <1>3, OccursJoined
<1>5. Occurs(x \o y, s, i)
  BY <1>2, <1>4
<1>6. /\ Occurs(x, s, i) /\ Occurs(y, s, i + Len(x))
      /\ i + Len(xy) = (i + Len(x)) + Len(y)
  BY <1>2, <1>5, OccursJoined
<1> QED
  BY <1>2, <1>4, <1>6

LEMMA OccursOne ==
  ASSUME NEW w, NEW s, Len(s) \in Nat, NEW i, Occurs(<<w>>, s, i)
  PROVE  i \in Nat /\ i + 1 \in 1 .. Len(s) /\ s[i + 1] = w /\ Len(<<w>>) = 1
BY DEF Occurs

\* g is the stack as the tokens of s are shifted.
Shifts(g, s, context) == \A k \in 1 .. Len(s) : g[k] = shift(g[k - 1], s[k], context)

LEMMA ShiftsOne ==
  ASSUME NEW w, NEW s, Len(s) \in Nat, NEW i, Occurs(<<w>>, s, i),
         NEW context, NEW g, Shifts(g, s, context)
  PROVE  i \in Nat /\ Len(<<w>>) = 1 /\ g[i + 1] = shift(g[i], w, context)
<1>1. i \in Nat /\ i + 1 \in 1 .. Len(s) /\ s[i + 1] = w /\ Len(<<w>>) = 1 /\ (i + 1) - 1 = i
  BY OccursOne
<1> QED
  BY <1>1 DEF Shifts

\* The frame has room for the tree: what is not an "and" or "or" fits anywhere.
Fits(t, f) ==
  /\ t.kind \in {"and", "or"} => f.factors = "none"
  /\ t.kind = "or" => f.terms = "none"

\* From the frame f, reading the tree has led to the frame h.
Read(t, context, f, h) ==
  /\ Complete(h) /\ h.open = f.open /\ h.outer = f.outer
  /\ f.terms = "none" /\ f.factors = "none" => expr(h) = Worth(t, context)
  /\ f.factors = "none" /\ t.kind # "or" => h.terms = f.terms /\ term(h) = Worth(t, context)
  /\ t.kind \notin {"and", "or"} => h = Filled(f, Worth(t, context))

\* The text of the tree is read as the tree.
Reads(t, s, context, g) ==
  \A i : /\ Occurs(Unparse[t], s, i)
         /\ Opened(g[i])
         /\ Fits(t, g[i])
         => Read(t, context, g[i], g[i + Len(Unparse[t])])

\* What has been read as a factor.
LEMMA ReadFactor ==
  ASSUME NEW context, NEW t, NEW f, Opened(f), NEW h, h = Filled(f, Worth(t, context))
  PROVE  /\ Complete(h) /\ h.open = f.open /\ h.outer = f.outer
         /\ h.terms = f.terms /\ h.factors = f.factors /\ h.factor = Worth(t, context)
         /\ f.factors = "none" => term(h) = Worth(t, context)
         /\ f.terms = "none" /\ f.factors = "none" => expr(h) = Worth(t, context)
<1>1. /\ Complete(h) /\ h.open = f.open /\ h.outer = f.outer
      /\ h.terms = f.terms /\ h.factors = f.factors /\ h.factor = Worth(t, context)
  BY FilledFields, WorthType
<1> QED
  BY <1>1, CompleteType

LEMMA ReadsLeaf ==
  ASSUME NEW context \in Contexts, NEW s, Len(s) \in Nat, NEW g, Shifts(g, s, context),
         NEW t \in Trees, t.kind \notin {"and", "or", "func"}
  PROVE  Reads(t, s, context, g)
<1> SUFFICES ASSUME NEW i, Occurs(Unparse[t], s, i), Opened(g[i])
             PROVE  Read(t, context, g[i], g[i + Len(Unparse[t])])
  BY DEF Reads
<1>1. PICK w : w = [word |-> "leaf", tree |-> t]
  OBVIOUS
<1>2. Unparse[t] = <<w>>
  BY <1>1, UnparseIs DEF Wording
<1>3. g[i + 1] = shift(g[i], w, context) /\ Len(<<w>>) = 1
  BY <1>2, ShiftsOne
<1>4. g[i + 1] = Filled(g[i], Worth(t, context))
  BY <1>1, <1>3, LeafShifts, FieldRight
<1> QED
  BY <1>2, <1>3, <1>4, ReadFactor DEF Read

\* So is its text with parentheses where its kind calls for them, as a factor.
ReadsEnclosed(kinds, t, s, context, g) ==
  \A i : Occurs(Enclosed(kinds, t, Unparse[t]), s, i) /\ Opened(g[i]) =>
    LET h == g[i + Len(Enclosed(kinds, t, Unparse[t]))]
    IN IF t.kind \in kinds THEN h = Filled(g[i], Worth(t, context))
       ELSE Fits(t, g[i]) => Read(t, context, g[i], h)

LEMMA EnclosedReads ==
  ASSUME NEW context, NEW s, Len(s) \in Nat, NEW g, Shifts(g, s, context),
         NEW t \in Trees, Reads(t, s, context, g), NEW kinds
  PROVE  ReadsEnclosed(kinds, t, s, context, g)
<1> SUFFICES ASSUME NEW i, Occurs(Enclosed(kinds, t, Unparse[t]), s, i), Opened(g[i]),
                    NEW h, h = g[i + Len(Enclosed(kinds, t, Unparse[t]))]
             PROVE  IF t.kind \in kinds THEN h = Filled(g[i], Worth(t, context))
                    ELSE Fits(t, g[i]) => Read(t, context, g[i], h)
  BY DEF ReadsEnclosed
<1>1. CASE t.kind \notin kinds
  BY <1>1 DEF Enclosed, Reads
<1>2. CASE t.kind \in kinds
  <2>1. PICK x, p, q : /\ x = Unparse[t] /\ p = Word("(") /\ q = Word(")")
                       /\ Enclosed(kinds, t, Unparse[t]) = <<p>> \o x \o <<q>>
    BY <1>2 DEF Enclosed
  <2>2. PICK a \in Seq(Tokens), b \in Seq(Tokens) : a = <<p>> /\ b = <<q>>
    <3>1. p \in Tokens /\ q \in Tokens
      BY <2>1 DEF Tokens
    <3>2. <<p>> \in Seq(Tokens) /\ <<q>> \in Seq(Tokens)
      BY <3>1
    <3> QED
      BY <3>2
  <2>3. x \in Seq(Tokens) /\ Occurs(a \o x \o b, s, i)
    BY <2>1, <2>2, UnparseIs
  <2>4. PICK j : j = i + 1 + Len(x)
    OBVIOUS
  <2>5. /\ Occurs(<<p>>, s, i) /\ Occurs(x, s, i + 1) /\ Occurs(<<q>>, s, j)
        /\ i + Len(Enclosed(kinds, t, Unparse[t])) = j + 1
    <3>1. /\ Occurs(a, s, i) /\ Occurs(x, s, i + Len(a)) /\ Occurs(b, s, i + Len(a) + Len(x))
          /\ i + Len(a \o x \o b) = i + Len(a) + Len(x) + Len(b)
      BY <2>3, OccursThree
    <3>2. Len(a) = 1 /\ Len(b) = 1
      BY <2>2
    <3> QED
      BY <2>1, <2>2, <2>4, <3>1, <3>2
  <2>6. g[i + 1] = shift(g[i], p, context)
    BY <2>5, ShiftsOne
  <2>7. g[j + 1] = shift(g[j], q, context)
    BY <2>5, ShiftsOne
  <2>8. p.word = "("
    BY <2>1 DEF Word
  <2>9. /\ Opened(g[i + 1]) /\ g[i + 1].open = p /\ g[i + 1].outer = g[i]
        /\ g[i + 1].terms = "none" /\ g[i + 1].factors = "none"
    BY <2>6, <2>8, OpenShifts
  <2>10. Read(t, context, g[i + 1], g[j])
    BY <2>1, <2>4, <2>5, <2>9 DEF Reads, Fits
  <2>11. /\ Complete(g[j]) /\ g[j].open = p /\ g[j].outer = g[i]
         /\ expr(g[j]) = Worth(t, context)
    BY <2>9, <2>10 DEF Read
  <2>12. g[j + 1] = Filled(g[i], Worth(t, context))
    BY <2>1, <2>7, <2>8, <2>11, CloseShifts
  <2> QED
    BY <1>2, <2>5, <2>12
<1> QED
  BY <1>1, <1>2

LEMMA ReadsOr ==
  ASSUME NEW context \in Contexts, NEW s, Len(s) \in Nat, NEW g, Shifts(g, s, context),
         NEW t \in Trees, t.kind = "or",
         Reads(t.left, s, context, g), Reads(t.right, s, context, g)
  PROVE  Reads(t, s, context, g)
<1> SUFFICES ASSUME NEW i, Occurs(Unparse[t], s, i), Opened(g[i]), Fits(t, g[i])
             PROVE  Read(t, context, g[i], g[i + Len(Unparse[t])])
  BY DEF Reads
<1>1. t.left \in Trees /\ t.right \in Trees
  BY PartsBelow DEF Joins
<1>2. PICK l \in Seq(Tokens) : l = Unparse[t.left]
  BY <1>1, UnparseIs
<1>3. PICK r \in Seq(Tokens) : r = Enclosed({"or"}, t.right, Unparse[t.right])
  BY <1>1, UnparseIs, EnclosedType
<1>4. PICK w : w = Word("or")
  OBVIOUS
<1>5. PICK m \in Seq(Tokens) : m = <<w>> /\ Len(m) = 1
  <2>1. <<w>> \in Seq(Tokens)
    BY <1>4 DEF Tokens
  <2> QED
    BY <2>1
<1>6. Unparse[t] = l \o m \o r
  BY <1>2, <1>3, <1>4, <1>5, UnparseIs DEF Wording
<1>7. /\ Occurs(l, s, i) /\ Occurs(m, s, i + Len(l)) /\ Occurs(r, s, i + Len(l) + Len(m))
      /\ i + Len(l \o m \o r) = i + Len(l) + Len(m) + Len(r)
  BY <1>6, OccursThree
<1>8. PICK j : j = i + Len(l)
  OBVIOUS
<1>9. PICK f, h, k, e : f = g[i] /\ h = g[j] /\ k = g[j + 1] /\ e = g[j + 1 + Len(r)]
  OBVIOUS
<1>10. Occurs(<<w>>, s, j) /\ Occurs(r, s, j + 1) /\ g[i + Len(Unparse[t])] = e
  BY <1>5, <1>6, <1>7, <1>8, <1>9
<1>11. f.terms = "none" /\ f.factors = "none" /\ Opened(f)
  BY <1>9 DEF Fits
<1>12. /\ Complete(h) /\ h.open = f.open /\ h.outer = f.outer
       /\ expr(h) = Worth(t.left, context)
  <2>1. Fits(t.left, f)
    BY <1>11 DEF Fits
  <2>2. Read(t.left, context, f, h)
    BY <1>2, <1>7, <1>8, <1>9, <1>11, <2>1 DEF Reads
  <2> QED
    BY <1>11, <2>2 DEF Read
<1>13. k = shift(h, w, context)
  BY <1>9, <1>10, ShiftsOne
<1>14. /\ Opened(k) /\ k.open = f.open /\ k.outer = f.outer
       /\ k.terms = Worth(t.left, context) /\ k.factors = "none"
  BY <1>4, <1>12, <1>13, OrShifts, FrameFields
<1>15. /\ Complete(e) /\ e.open = k.open /\ e.outer = k.outer
       /\ e.terms = k.terms /\ term(e) = Worth(t.right, context)
  <2>1. IF t.right.kind \in {"or"} THEN e = Filled(k, Worth(t.right, context))
        ELSE Fits(t.right, k) => Read(t.right, context, k, e)
    <3>1. PICK K : K = {"or"}
      OBVIOUS
    <3>2. PICK n : n = j + 1
      OBVIOUS
    <3>3. /\ r = Enclosed(K, t.right, Unparse[t.right]) /\ Occurs(r, s, n)
          /\ k = g[n] /\ Opened(k) /\ e = g[n + Len(r)]
      BY <1>3, <1>9, <1>10, <1>14, <3>1, <3>2
    <3>4. ReadsEnclosed(K, t.right, s, context, g)
      BY <1>1, EnclosedReads
    <3>5. IF t.right.kind \in K THEN e = Filled(k, Worth(t.right, context))
          ELSE Fits(t.right, k) => Read(t.right, context, k, e)
      BY <3>3, <3>4 DEF ReadsEnclosed
    <3> QED
      BY <3>1, <3>5
  <2>2. CASE t.right.kind = "or"
    BY <1>14, <2>1, <2>2, ReadFactor
  <2>3. CASE t.right.kind # "or"
    <3>1. Fits(t.right, k)
      BY <1>14, <2>3 DEF Fits
    <3> QED
      BY <1>14, <2>1, <2>3, <3>1 DEF Read
  <2> QED
    BY <2>2, <2>3
<1>16. expr(e) = Worth(t, context)
  BY <1>14, <1>15, WorthOfParts DEF expr
<1> QED
  BY <1>9, <1>10, <1>14, <1>15, <1>16 DEF Read

LEMMA ReadsAnd ==
  ASSUME NEW context \in Contexts, NEW s, Len(s) \in Nat, NEW g, Shifts(g, s, context),
         NEW t \in Trees, t.kind = "and",
         Reads(t.left, s, context, g), Reads(t.right, s, context, g)
  PROVE  Reads(t, s, context, g)
<1> SUFFICES ASSUME NEW i, Occurs(Unparse[t], s, i), Opened(g[i]), Fits(t, g[i])
             PROVE  Read(t, context, g[i], g[i + Len(Unparse[t])])
  BY DEF Reads
<1>1. t.left \in Trees /\ t.right \in Trees
  BY PartsBelow DEF Joins
<1>2. PICK l \in Seq(Tokens) : l = Enclosed({"or"}, t.left, Unparse[t.left])
  BY <1>1, UnparseIs, EnclosedType
<1>3. PICK r \in Seq(Tokens) : r = Enclosed({"and", "or"}, t.right, Unparse[t.right])
  BY <1>1, UnparseIs, EnclosedType
<1>4. PICK w : w = Word("and")
  OBVIOUS
<1>5. PICK m \in Seq(Tokens) : m = <<w>> /\ Len(m) = 1
  <2>1. <<w>> \in Seq(Tokens)
    BY <1>4 DEF Tokens
  <2> QED
    BY <2>1
<1>6. Unparse[t] = l \o m \o r
  BY <1>2, <1>3, <1>4, <1>5, UnparseIs DEF Wording
<1>7. /\ Occurs(l, s, i) /\ Occurs(m, s, i + Len(l)) /\ Occurs(r, s, i + Len(l) + Len(m))
      /\ i + Len(l \o m \o r) = i + Len(l) + Len(m) + Len(r)
  BY <1>6, OccursThree
<1>8. PICK j : j = i + Len(l)
  OBVIOUS
<1>9. PICK f, h, k, e : f = g[i] /\ h = g[j] /\ k = g[j + 1] /\ e = g[j + 1 + Len(r)]
  OBVIOUS
<1>10. Occurs(<<w>>, s, j) /\ Occurs(r, s, j + 1) /\ g[i + Len(Unparse[t])] = e
  BY <1>5, <1>6, <1>7, <1>8, <1>9
<1>11. f.factors = "none" /\ Opened(f)
  BY <1>9 DEF Fits
<1>12. /\ Complete(h) /\ h.open = f.open /\ h.outer = f.outer /\ h.terms = f.terms
       /\ term(h) = Worth(t.left, context)
  <2>1. IF t.left.kind \in {"or"} THEN h = Filled(f, Worth(t.left, context))
        ELSE Fits(t.left, f) => Read(t.left, context, f, h)
    <3>1. PICK K : K = {"or"}
      OBVIOUS
    <3>2. PICK n : n = i
      OBVIOUS
    <3>3. /\ l = Enclosed(K, t.left, Unparse[t.left]) /\ Occurs(l, s, n)
          /\ f = g[n] /\ Opened(f) /\ h = g[n + Len(l)]
      BY <1>2, <1>7, <1>8, <1>9, <1>11, <3>1, <3>2
    <3>4. ReadsEnclosed(K, t.left, s, context, g)
      BY <1>1, EnclosedReads
    <3>5. IF t.left.kind \in K THEN h = Filled(f, Worth(t.left, context))
          ELSE Fits(t.left, f) => Read(t.left, context, f, h)
      BY <3>3, <3>4 DEF ReadsEnclosed
    <3> QED
      BY <3>1, <3>5
  <2>2. CASE t.left.kind = "or"
    BY <1>11, <2>1, <2>2, ReadFactor
  <2>3. CASE t.left.kind # "or"
    <3>1. Fits(t.left, f)
      BY <1>11, <2>3 DEF Fits
    <3> QED
      BY <1>11, <2>1, <2>3, <3>1 DEF Read
  <2> QED
    BY <2>2, <2>3
<1>13. k = shift(h, w, context)
  BY <1>9, <1>10, ShiftsOne
<1>14. /\ Opened(k) /\ k.open = f.open /\ k.outer = f.outer
       /\ k.terms = f.terms /\ k.factors = Worth(t.left, context)
  BY <1>4, <1>12, <1>13, AndShifts, FrameFields
<1>15. e = Filled(k, Worth(t.right, context))
  <2>1. IF t.right.kind \in {"and", "or"} THEN e = Filled(k, Worth(t.right, context))
        ELSE Fits(t.right, k) => Read(t.right, context, k, e)
    <3>1. PICK K : K = {"and", "or"}
      OBVIOUS
    <3>2. PICK n : n = j + 1
      OBVIOUS
    <3>3. /\ r = Enclosed(K, t.right, Unparse[t.right]) /\ Occurs(r, s, n)
          /\ k = g[n] /\ Opened(k) /\ e = g[n + Len(r)]
      BY <1>3, <1>9, <1>10, <1>14, <3>1, <3>2
    <3>4. ReadsEnclosed(K, t.right, s, context, g)
      BY <1>1, EnclosedReads
    <3>5. IF t.right.kind \in K THEN e = Filled(k, Worth(t.right, context))
          ELSE Fits(t.right, k) => Read(t.right, context, k, e)
      BY <3>3, <3>4 DEF ReadsEnclosed
    <3> QED
      BY <3>1, <3>5
  <2>2. CASE t.right.kind \notin {"and", "or"}
    <3>1. Fits(t.right, k)
      BY <2>2 DEF Fits
    <3> QED
      BY <2>1, <2>2, <3>1 DEF Read
  <2> QED
    BY <2>1, <2>2
<1>16. /\ Complete(e) /\ e.open = f.open /\ e.outer = f.outer /\ e.terms = f.terms
       /\ e.factors = Worth(t.left, context) /\ e.factor = Worth(t.right, context)
  BY <1>14, <1>15, ReadFactor
<1>17. term(e) = Worth(t, context)
  BY <1>16, WorthOfParts DEF term
<1>18. f.terms = "none" => expr(e) = term(e)
  BY <1>16, CompleteType
<1> QED
  BY <1>9, <1>10, <1>16, <1>17, <1>18 DEF Read

LEMMA ReadsCall ==
  ASSUME NEW context \in Contexts, NEW s, Len(s) \in Nat, NEW g, Shifts(g, s, context),
         NEW t \in Trees, t.kind = "func", Reads(t.arg, s, context, g)
  PROVE  Reads(t, s, context, g)
<1> SUFFICES ASSUME NEW i, Occurs(Unparse[t], s, i), Opened(g[i])
             PROVE  Read(t, context, g[i], g[i + Len(Unparse[t])])
  BY DEF Reads
<1>1. PICK x \in Seq(Tokens) : x = Unparse[t.arg]
  BY PartsBelow, UnparseIs
<1>2. PICK w, q, m : /\ w = [word |-> "call", name |-> t.name] /\ q = Word(")")
                     /\ m = [word |-> "compare", op |-> t.op, value |-> t.value]
  OBVIOUS
<1>3. w \in Tokens /\ q \in Tokens /\ m \in Tokens
  BY <1>2 DEF Tokens
<1>4. PICK a \in Seq(Tokens) : a = <<w>> /\ Len(a) = 1
  <2>1. <<w>> \in Seq(Tokens)
    BY <1>3
  <2> QED
    BY <2>1
<1>5. PICK b \in Seq(Tokens) : b = <<q, m>> /\ Len(b) = 2 /\ b[1] = q /\ b[2] = m
  <2>1. <<q, m>> \in Seq(Tokens)
    BY <1>3
  <2> QED
    BY <2>1
<1>6. Unparse[t] = a \o x \o b
  BY <1>1, <1>2, <1>4, <1>5, UnparseIs DEF Wording
<1>7. /\ Occurs(a, s, i) /\ Occurs(x, s, i + Len(a)) /\ Occurs(b, s, i + Len(a) + Len(x))
      /\ i + Len(a \o x \o b) = i + Len(a) + Len(x) + Len(b)
  BY <1>6, OccursThree
<1>8. PICK j : j = i + 1 + Len(x)
  OBVIOUS
<1>9. PICK f, o, h, c, e : /\ f = g[i] /\ o = g[i + 1] /\ h = g[j] /\ c = g[j + 1]
                           /\ e = g[i + Len(Unparse[t])]
  OBVIOUS
<1>10. Occurs(<<w>>, s, i) /\ Occurs(x, s, i + 1) /\ Occurs(b, s, j)
  BY <1>4, <1>7, <1>8
<1>11. /\ j \in Nat /\ j + 1 \in 1 .. Len(s) /\ j + 2 \in 1 .. Len(s)
       /\ s[j + 1] = q /\ s[j + 2] = m /\ i + Len(Unparse[t]) = j + 2
  <2>1. j \in Nat /\ j + 2 <= Len(s) /\ \A n \in 1 .. 2 : s[j + n] = b[n]
    BY <1>5, <1>10 DEF Occurs
  <2>2. i + Len(Unparse[t]) = j + 2
    BY <1>4, <1>5, <1>6, <1>7, <1>8
  <2> QED
    BY <1>5, <2>1, <2>2
<1>12. /\ o = shift(f, w, context) /\ c = shift(h, q, context) /\ e = shift(c, m, context)
  <2>1. o = shift(f, w, context)
    BY <1>9, <1>10, ShiftsOne
  <2>2. (j + 1) - 1 = j /\ (j + 2) - 1 = j + 1
    BY <1>11
  <2>3. g[j + 1] = shift(g[j], q, context) /\ g[j + 2] = shift(g[j + 1], m, context)
    BY <1>11, <2>2 DEF Shifts
  <2> QED
    BY <1>9, <1>11, <2>1, <2>3
<1>13. /\ Opened(f) /\ Opened(o) /\ o.open = w /\ o.outer = f
       /\ o.terms = "none" /\ o.factors = "none"
  <2>1. w.word = "call" /\ Opened(f)
    BY <1>2, <1>9
  <2> QED
    BY <1>12, <2>1, OpenShifts
<1>14. /\ Complete(h) /\ h.open = w /\ h.outer = f /\ expr(h) = Worth(t.arg, context)
  <2>1. Fits(t.arg, o)
    BY <1>13 DEF Fits
  <2>2. Read(t.arg, context, o, h)
    BY <1>1, <1>8, <1>9, <1>10, <1>13, <2>1 DEF Reads
  <2> QED
    BY <1>13, <2>2 DEF Read
<1>15. PICK y \in Results : y = function_call(t.name, Worth(t.arg, context))
  BY WorthType DEF function_call, Results
<1>16. c = Frame(f.open, f.outer, f.terms, f.factors, "none", y)
  <2>1. h.open.word = "call" /\ h.open.name = t.name
    BY <1>2, <1>14
  <2> QED
    <3>1. shift(h, Word(")"), context) =
            Frame(f.open, f.outer, f.terms, f.factors, "none",
                  function_call(h.open.name, expr(h)))
      BY <1>13, <1>14, <2>1, CloseShifts
    <3> QED
      BY <1>2, <1>12, <1>14, <1>15, <2>1, <3>1
<1>17. e = Filled(f, comparison(y, t.op, t.value))
  <2>1. /\ m.word = "compare" /\ m.op = t.op /\ m.value = t.value
        /\ c.open = f.open /\ c.outer = f.outer /\ c.terms = f.terms /\ c.factors = f.factors
        /\ c.factor = "none" /\ c.call = y
    BY <1>2, <1>16, FrameFields
  <2>2. e = Frame(c.open, c.outer, c.terms, c.factors, comparison(c.call, m.op, m.value), "none")
    BY <1>12, <1>15, <2>1, CompareShifts
  <2> QED
    BY <2>1, <2>2 DEF Filled
<1>18. e = Filled(f, Worth(t, context))
  BY <1>15, <1>17, WorthOfParts
<1> QED
  BY <1>9, <1>13, <1>18, ReadFactor DEF Read

LEMMA ReadsAll ==
  ASSUME NEW context \in Contexts, NEW s, Len(s) \in Nat, NEW g, Shifts(g, s, context)
  PROVE  \A t \in Trees : Reads(t, s, context, g)
<1> DEFINE S == {t \in Trees : Reads(t, s, context, g)}
<1>1. ASSUME NEW t \in Trees, \A p \in Trees : Depth[p] < Depth[t] => p \in S
      PROVE  Reads(t, s, context, g)
  <2>1. CASE t.kind = "or"
    BY <1>1, <2>1, PartsBelow, ReadsOr DEF Joins
  <2>2. CASE t.kind = "and"
    BY <1>1, <2>2, PartsBelow, ReadsAnd DEF Joins
  <2>3. CASE t.kind = "func"
    BY <1>1, <2>3, PartsBelow, ReadsCall
  <2>4. CASE t.kind \notin {"and", "or", "func"}
    BY <2>4, ReadsLeaf
  <2> QED
    BY <2>1, <2>2, <2>3, <2>4
<1>2. \A t \in Trees : (\A p \in Trees : Depth[p] < Depth[t] => p \in S) => t \in S
  BY <1>1
<1> HIDE DEF S
<1>3. Trees \subseteq S
  BY <1>2, TreeInduction
<1> QED
  BY <1>3 DEF S

LEMMA StartOpened ==
  /\ Opened(Start) /\ Start.open.word = "start"
  /\ Start.terms = "none" /\ Start.factors = "none"
BY FrameFields DEF Start, Fresh, Word, Opened, IsFrame

LEMMA EvaluatedRight ==
  ASSUME NEW context \in Contexts, NEW t \in Trees \cup {NoTree}
  PROVE  Evaluated(Written(t), context) = Worth(t, context)
<1>1. CASE t = NoTree
  <2>1. PICK w : w = Word("or")
    OBVIOUS
  <2>2. Written(t) = <<w>> /\ Len(<<w>>) = 1 /\ <<w>>[1] = w
    BY <1>1, <2>1 DEF Written
  <2>3. PICK g : /\ g[0] = Start
                 /\ \A k \in 1 .. Len(<<w>>) : g[k] = shift(g[k - 1], <<w>>[k], context)
                 /\ Evaluated(<<w>>, context) =
                      IF Ended(g[Len(<<w>>)]) /\ g[Len(<<w>>)].open.word = "start"
                      THEN expr(g[Len(<<w>>)]) ELSE "raises"
    BY <2>2, EvaluatedIs
  <2>4. g[1] = shift(Start, w, context)
    BY <2>2, <2>3
  <2>5. ~Ended(Start) /\ w.word = "or" /\ Start.call = "none"
    BY <2>1, FrameFields DEF Start, Fresh, Ended, Word
  <2>6. shift(Start, w, context) = Refused
    BY <2>5 DEF shift
  <2>7. ~Ended(Refused)
    BY FrameFields DEF Refused, Fresh, Ended
  <2>8. Evaluated(<<w>>, context) = "raises"
    BY <2>2, <2>3, <2>4, <2>6, <2>7
  <2>9. ~Meaningful(NoTree, context)
    BY DEF Meaningful
  <2> QED
    BY <1>1, <2>2, <2>8, <2>9 DEF Worth
<1>2. CASE t \in Trees
  <2>1. PICK s \in Seq(Tokens) : s = Unparse[t]
    BY <1>2, UnparseIs
  <2>2. Written(t) = s
    BY <1>2, <2>1, NoTreeIsNone DEF Written
  <2>3. PICK n \in Nat : n = Len(s)
    OBVIOUS
  <2>4. PICK g : /\ g[0] = Start
                 /\ \A k \in 1 .. Len(s) : g[k] = shift(g[k - 1], s[k], context)
                 /\ Evaluated(s, context) =
                      IF Ended(g[Len(s)]) /\ g[Len(s)].open.word = "start"
                      THEN expr(g[Len(s)]) ELSE "raises"
    BY <2>3, EvaluatedIs
  <2>5. Shifts(g, s, context)
    BY <2>4 DEF Shifts
  <2>6. Reads(t, s, context, g)
    BY <1>2, <2>3, <2>5, ReadsAll
  <2>7. Occurs(s, s, 0) /\ 0 + Len(s) = n
    BY <2>3 DEF Occurs
  <2>8. Read(t, context, Start, g[n])
    BY <2>1, <2>4, <2>6, <2>7, StartOpened DEF Reads, Fits
  <2>9. /\ Complete(g[n]) /\ g[n].open = Start.open
        /\ expr(g[n]) = Worth(t, context)
    BY <2>8, StartOpened DEF Read
  <2>10. Ended(g[n]) /\ g[n].open.word = "start"
    BY <2>9, StartOpened DEF Complete, IsFrame, Ended, Results
  <2> QED
    BY <2>2, <2>3, <2>4, <2>9, <2>10
<1> QED
  BY <1>1, <1>2

\* PredicateRight, for every predicate and every context.
THEOREM PredicateMeansWhatItSays == PredicateSpec => []PredicateRight
<1> DEFINE Inv == /\ \/ question = NoQuestion
                     \/ question \in [tree : Trees \cup {NoTree}, context : Contexts]
                  /\ PredicateRight
<1>1. PredicateIdle \/ PredicateInit => Inv
  BY DEF PredicateIdle, PredicateInit, PredicateRight
<1>2. Inv /\ [check]_predicateVars => Inv'
  <2> SUFFICES ASSUME Inv, [check]_predicateVars PROVE Inv'
    OBVIOUS
  <2>1. CASE check
    <3>1. /\ question' = question /\ question \in [tree : Trees \cup {NoTree}, context : Contexts]
          /\ reply' = Evaluated(Written(question.tree), question.context)
      BY <2>1 DEF check
    <3>2. question.tree \in Trees \cup {NoTree} /\ question.context \in Contexts
      BY <3>1
    <3>3. reply' = Worth(question.tree, question.context)
      BY <3>1, <3>2, EvaluatedRight
    <3> QED
      BY <3>1, <3>3 DEF PredicateRight, Worth
  <2>2. CASE UNCHANGED predicateVars
    BY <2>2 DEF predicateVars, PredicateRight
  <2> QED
    BY <2>1, <2>2
<1> QED
  BY <1>1, <1>2, PTL DEF PredicateSpec
=============================================================================
