--------------------------- MODULE AnswersProofs ----------------------------
(***************************************************************************)
(* Theorems about the components of Answers, for all values of their       *)
(* constants.  Each is about the component's own specification, which a    *)
(* behaviour of Answers is one of, for every component: those that the     *)
(* behaviour is not about stay idle.                                       *)
(***************************************************************************)
EXTENDS Answers, PredicateProofs, FiniteSetTheorems, SequenceTheorems,
        WellFoundedInduction, TLAPS

-----------------------------------------------------------------------------
(* Numbers and positions. *)

\* The first of some positions, as SelectInSeq takes it.
LEMMA MinIsFirst ==
  ASSUME NEW I, I \subseteq Nat, I # {}
  PROVE  Min(I) \in I /\ \A j \in I : Min(I) <= j
BY HasFirst DEF Min

\* The last of some positions up to n, as SelectLastInSeq takes it.
LEMMA MaxIsLast ==
  ASSUME NEW n \in Nat, NEW I, I \subseteq 1 .. n, I # {}
  PROVE  Max(I) \in I /\ \A j \in I : Max(I) >= j
<1> DEFINE D == {n - i : i \in I}
<1>1. D \subseteq Nat /\ D # {}
  <2>1. \A i \in I : i \in 1 .. n
    OBVIOUS
  <2>2. \A i \in 1 .. n : n - i \in Nat
    OBVIOUS
  <2> QED
    BY <2>1, <2>2
<1>2. PICK d \in D : \A e \in D : d <= e
  BY <1>1, HasFirst
<1>3. PICK i \in I : d = n - i
  OBVIOUS
<1>4. \A j \in I : n - j \in D /\ j \in Int /\ i \in Int
  OBVIOUS
<1>5. \A j \in I : n - i <= n - j /\ j \in Int /\ i \in Int
  BY <1>2, <1>3, <1>4
<1>6. \A j \in I : i >= j
  BY <1>5
<1> QED
  BY <1>6 DEF Max

-----------------------------------------------------------------------------
(* Sums over finite sets, which SumFunctionOnSet takes one element at a time. *)

\* Of some sets there is one that none of the others is a part of.
LEMMA SmallestSet ==
  ASSUME NEW U, IsFiniteSet(U), NEW B \in SUBSET SUBSET U, B # {}
  PROVE  \E T \in B : \A V \in B : V \subseteq T => V = T
<1> DEFINE N == {Cardinality(T) : T \in B}
<1>1. \A T \in B : IsFiniteSet(T) /\ Cardinality(T) \in Nat
  BY FS_Subset, FS_CardinalityType
<1>2. N \subseteq Nat /\ N # {}
  BY <1>1
<1>3. PICK n \in N : \A m \in N : n <= m
  BY <1>2, HasFirst
<1>4. PICK T \in B : Cardinality(T) = n
  OBVIOUS
<1>5. ASSUME NEW V \in B, V \subseteq T PROVE V = T
  <2>1. Cardinality(V) <= Cardinality(T) /\ (Cardinality(T) = Cardinality(V) => T = V)
    BY <1>1, <1>5, FS_Subset
  <2>2. Cardinality(T) <= Cardinality(V)
    BY <1>3, <1>4
  <2> QED
    BY <1>1, <2>1, <2>2
<1> QED
  BY <1>5

One(s) == CHOOSE y \in s : TRUE

LEMMA OneIsOne == ASSUME NEW s, s # {} PROVE One(s) \in s
BY DEF One

PartialSum(f, h, s) == IF s = {} THEN 0 ELSE f[One(s)] + h[s \ {One(s)}]

Summing(f, S, h) == h = [s \in SUBSET S |-> PartialSum(f, h, s)]

LEMMA SummingExists ==
  ASSUME NEW f, NEW S, IsFiniteSet(S)
  PROVE  \E h : Summing(f, S, h)
<1> DEFINE UpTo(n, h) == /\ h = [s \in SUBSET S |-> h[s]]
                         /\ \A s \in SUBSET S : Cardinality(s) <= n => h[s] = PartialSum(f, h, s)
           Bad == {n \in Nat : ~ \E h : UpTo(n, h)}
<1>1. \A s \in SUBSET S : /\ IsFiniteSet(s) /\ Cardinality(s) \in Nat
                          /\ Cardinality(s) <= Cardinality(S)
  BY FS_Subset, FS_CardinalityType
<1>2. Bad = {}
  <2> SUFFICES ASSUME Bad # {} PROVE FALSE
    OBVIOUS
  <2>1. PICK m \in Bad : \A k \in Bad : m <= k
    <3>1. Bad \subseteq Nat
      OBVIOUS
    <3> HIDE DEF Bad
    <3> QED
      BY <3>1, HasFirst
  <2>2. m \in Nat /\ ~ \E h : UpTo(m, h)
    OBVIOUS
  <2>3. m # 0
    <3>1. PICK h : h = [s \in SUBSET S |-> 0]
      OBVIOUS
    <3>2. \A s \in SUBSET S : Cardinality(s) <= 0 => h[s] = PartialSum(f, h, s)
      <4> SUFFICES ASSUME NEW s \in SUBSET S, Cardinality(s) <= 0
                   PROVE  h[s] = PartialSum(f, h, s)
        OBVIOUS
      <4>1. s = {}
        BY <1>1, FS_EmptySet
      <4> QED
        BY <3>1, <4>1 DEF PartialSum
    <3>3. UpTo(0, h)
      BY <3>1, <3>2
    <3> QED
      BY <2>2, <3>3
  <2>4. PICK g : UpTo(m - 1, g)
    <3>1. m - 1 \in Nat /\ ~(m <= m - 1)
      BY <2>2, <2>3
    <3>2. m - 1 \notin Bad
      BY <2>1, <3>1
    <3> QED
      BY <3>1, <3>2
  <2>5. PICK h : h = [s \in SUBSET S |-> IF Cardinality(s) <= m - 1 THEN g[s]
                                         ELSE PartialSum(f, g, s)]
    OBVIOUS
  <2>6. ASSUME NEW s \in SUBSET S, Cardinality(s) <= m PROVE h[s] = PartialSum(f, h, s)
    <3>1. h[s] = PartialSum(f, g, s)
      <4>1. CASE Cardinality(s) <= m - 1
        <5>1. g[s] = PartialSum(f, g, s)
          BY <2>4, <4>1
        <5> QED
          BY <2>5, <4>1, <5>1
      <4>2. CASE ~(Cardinality(s) <= m - 1)
        BY <2>5, <4>2
      <4> QED
        BY <4>1, <4>2
    <3>2. CASE s = {}
      BY <3>1, <3>2 DEF PartialSum
    <3>3. CASE s # {}
      <4> DEFINE t == s \ {One(s)}
      <4>1. One(s) \in s
        BY <3>3, OneIsOne
      <4>2. t \in SUBSET S
        OBVIOUS
      <4>3. Cardinality(t) = Cardinality(s) - 1
        BY <1>1, <4>1, FS_RemoveElement
      <4>4. Cardinality(t) <= m - 1
        BY <1>1, <2>2, <2>6, <4>3
      <4>5. h[t] = g[t]
        BY <2>5, <4>2, <4>4
      <4> QED
        BY <3>1, <3>3, <4>5 DEF PartialSum
    <3> QED
      BY <3>2, <3>3
  <2>7. h = [s \in SUBSET S |-> h[s]]
    BY <2>5
  <2>8. UpTo(m, h)
    BY <2>6, <2>7
  <2> QED
    BY <2>2, <2>8
<1>3. Cardinality(S) \in Nat
  BY FS_CardinalityType
<1>4. PICK h : UpTo(Cardinality(S), h)
  BY <1>2, <1>3
<1>5. h = [s \in SUBSET S |-> h[s]] /\ \A s \in SUBSET S : h[s] = PartialSum(f, h, s)
  BY <1>1, <1>4
<1> QED
  BY <1>5 DEF Summing

LEMMA SumsAgree ==
  ASSUME NEW f, NEW S, IsFiniteSet(S), NEW T \in SUBSET S, NEW g, NEW h,
         Summing(f, S, g), Summing(f, T, h)
  PROVE  g[T] = h[T]
<1> DEFINE B == {s \in SUBSET T : g[s] # h[s]}
<1>1. IsFiniteSet(T)
  BY FS_Subset
<1>2. \A s \in SUBSET T : g[s] = PartialSum(f, g, s) /\ h[s] = PartialSum(f, h, s)
  <2>1. PICK G : G = [s \in SUBSET S |-> PartialSum(f, g, s)]
    OBVIOUS
  <2>2. PICK H : H = [s \in SUBSET T |-> PartialSum(f, h, s)]
    OBVIOUS
  <2>3. g = G /\ h = H
    BY <2>1, <2>2 DEF Summing
  <2>4. \A s \in SUBSET T : s \in SUBSET S /\ G[s] = PartialSum(f, g, s)
                            /\ H[s] = PartialSum(f, h, s)
    BY <2>1, <2>2
  <2> QED
    BY <2>3, <2>4
<1>3. ASSUME B # {} PROVE FALSE
  <2>1. B \in SUBSET SUBSET T
    OBVIOUS
  <2> HIDE DEF B
  <2>2. PICK s \in B : \A V \in B : V \subseteq s => V = s
    BY <1>1, <1>3, <2>1, SmallestSet
  <2> USE DEF B
  <2>3. s \in SUBSET T /\ g[s] # h[s]
    OBVIOUS
  <2>4. s # {}
    BY <1>2, <2>3 DEF PartialSum
  <2>5. One(s) \in s
    BY <2>4, OneIsOne
  <2>6. s \ {One(s)} \in SUBSET T /\ s \ {One(s)} # s /\ s \ {One(s)} \subseteq s
    BY <2>3, <2>5
  <2>7. g[s \ {One(s)}] = h[s \ {One(s)}]
    BY <2>2, <2>6
  <2> QED
    BY <1>2, <2>3, <2>4, <2>7 DEF PartialSum
<1> QED
  BY <1>3

LEMMA SumIs ==
  ASSUME NEW f, NEW S, IsFiniteSet(S)
  PROVE  \E h : Summing(f, S, h) /\ SumFunctionOnSet(f, S) = h[S]
<1>1. PICK h : h = CHOOSE g : Summing(f, S, g)
  OBVIOUS
<1>2. Summing(f, S, h)
  BY <1>1, SummingExists
<1>3. SumFunctionOnSet(f, S) = h[S]
  BY <1>1 DEF SumFunctionOnSet, FoldFunctionOnSet, MapThenFoldSet, Summing, PartialSum, One
<1> QED
  BY <1>2, <1>3

LEMMA SumEmpty == ASSUME NEW f PROVE SumFunctionOnSet(f, {}) = 0
<1>1. PICK h : Summing(f, {}, h) /\ SumFunctionOnSet(f, {}) = h[{}]
  BY FS_EmptySet, SumIs
<1>2. PICK g : g = [s \in SUBSET {} |-> PartialSum(f, h, s)]
  OBVIOUS
<1>3. g = h /\ g[{}] = PartialSum(f, h, {})
  BY <1>1, <1>2 DEF Summing
<1> QED
  BY <1>1, <1>3 DEF PartialSum

LEMMA SumOne ==
  ASSUME NEW f, NEW S, IsFiniteSet(S), S # {}
  PROVE  SumFunctionOnSet(f, S) = f[One(S)] + SumFunctionOnSet(f, S \ {One(S)})
<1> DEFINE T == S \ {One(S)}
<1>1. PICK g : Summing(f, S, g) /\ SumFunctionOnSet(f, S) = g[S]
  BY SumIs
<1>2. IsFiniteSet(T) /\ T \in SUBSET S
  BY FS_RemoveElement
<1>3. PICK h : Summing(f, T, h) /\ SumFunctionOnSet(f, T) = h[T]
  BY <1>2, SumIs
<1>4. g[T] = h[T]
  BY <1>1, <1>2, <1>3, SumsAgree
<1>5. PICK k : k = [s \in SUBSET S |-> PartialSum(f, g, s)]
  OBVIOUS
<1>6. k = g /\ k[S] = PartialSum(f, g, S)
  BY <1>1, <1>5 DEF Summing
<1> QED
  BY <1>1, <1>3, <1>4, <1>6 DEF PartialSum

LEMMA SumType ==
  ASSUME NEW f, NEW S, IsFiniteSet(S), NEW R \in {Nat, Int}, \A x \in S : f[x] \in R
  PROVE  SumFunctionOnSet(f, S) \in R
<1> DEFINE B == {T \in SUBSET S : SumFunctionOnSet(f, T) \notin R}
<1>1. ASSUME B # {} PROVE FALSE
  <2>1. B \in SUBSET SUBSET S
    OBVIOUS
  <2> HIDE DEF B
  <2>2. PICK T \in B : \A V \in B : V \subseteq T => V = T
    BY <1>1, <2>1, SmallestSet
  <2> USE DEF B
  <2>3. T \in SUBSET S /\ IsFiniteSet(T) /\ SumFunctionOnSet(f, T) \notin R
    BY FS_Subset
  <2>4. T # {}
    BY <2>3, SumEmpty
  <2>5. One(T) \in T
    BY <2>4, OneIsOne
  <2>6. SumFunctionOnSet(f, T \ {One(T)}) \in R
    BY <2>2, <2>3, <2>5
  <2>7. f[One(T)] \in R
    BY <2>3, <2>5
  <2>8. SumFunctionOnSet(f, T) = f[One(T)] + SumFunctionOnSet(f, T \ {One(T)})
    BY <2>3, <2>4, SumOne
  <2>9. \A a, b \in R : a + b \in R
    OBVIOUS
  <2> QED
    BY <2>3, <2>6, <2>7, <2>8, <2>9
<1> QED
  BY <1>1

\* Any element may be the first.
LEMMA SumTakes ==
  ASSUME NEW f, NEW S, IsFiniteSet(S), \A x \in S : f[x] \in Int, NEW x \in S
  PROVE  SumFunctionOnSet(f, S) = f[x] + SumFunctionOnSet(f, S \ {x})
<1> DEFINE Taken(T, y) == SumFunctionOnSet(f, T) = f[y] + SumFunctionOnSet(f, T \ {y})
           B == {T \in SUBSET S : \E y \in T : ~Taken(T, y)}
<1>1. ASSUME B # {} PROVE FALSE
  <2>1. B \in SUBSET SUBSET S
    OBVIOUS
  <2> HIDE DEF B
  <2>2. PICK T \in B : \A V \in B : V \subseteq T => V = T
    BY <1>1, <2>1, SmallestSet
  <2> USE DEF B
  <2>3. T \in SUBSET S /\ IsFiniteSet(T)
    BY FS_Subset
  <2>4. PICK y \in T : ~Taken(T, y)
    OBVIOUS
  <2> DEFINE z == One(T)
  <2>5. z \in T /\ Taken(T, z)
    BY <2>3, <2>4, OneIsOne, SumOne
  <2> HIDE DEF z, Taken
  <2>6. z # y
    BY <2>4, <2>5
  <2>7. ASSUME NEW V \in SUBSET T, V # T, NEW v \in V PROVE Taken(V, v)
    BY <2>2, <2>3, <2>7
  <2>8. Taken(T \ {z}, y) /\ Taken(T \ {y}, z)
    BY <2>4, <2>5, <2>6, <2>7
  <2>9. (T \ {z}) \ {y} = (T \ {y}) \ {z}
    OBVIOUS
  <2>10. f[y] \in Int /\ f[z] \in Int /\ SumFunctionOnSet(f, (T \ {y}) \ {z}) \in Int
    <3>1. IsFiniteSet((T \ {y}) \ {z}) /\ \A v \in (T \ {y}) \ {z} : f[v] \in Int
      BY <2>3, FS_RemoveElement
    <3> QED
      BY <2>3, <2>4, <2>5, <3>1, SumType
  <2> USE DEF Taken
  <2>11. /\ SumFunctionOnSet(f, T) = f[z] + SumFunctionOnSet(f, T \ {z})
         /\ SumFunctionOnSet(f, T \ {z}) = f[y] + SumFunctionOnSet(f, (T \ {y}) \ {z})
         /\ SumFunctionOnSet(f, T \ {y}) = f[z] + SumFunctionOnSet(f, (T \ {y}) \ {z})
         /\ SumFunctionOnSet(f, T) # f[y] + SumFunctionOnSet(f, T \ {y})
    BY <2>4, <2>5, <2>8, <2>9
  <2> QED
    BY <2>10, <2>11
<1> QED
  BY <1>1

\* What is in either of two sets that have nothing in common.
LEMMA SumOfBoth ==
  ASSUME NEW f, NEW S, IsFiniteSet(S), NEW T, IsFiniteSet(T), S \cap T = {},
         \A x \in S \cup T : f[x] \in Int
  PROVE  SumFunctionOnSet(f, S \cup T) = SumFunctionOnSet(f, S) + SumFunctionOnSet(f, T)
<1> DEFINE Both(V) == SumFunctionOnSet(f, S \cup V)
                        = SumFunctionOnSet(f, S) + SumFunctionOnSet(f, V)
           B == {V \in SUBSET T : ~Both(V)}
<1>1. ASSUME B # {} PROVE FALSE
  <2>1. B \in SUBSET SUBSET T
    OBVIOUS
  <2> HIDE DEF B
  <2>2. PICK V \in B : \A W \in B : W \subseteq V => W = V
    BY <1>1, <2>1, SmallestSet
  <2> USE DEF B
  <2>3. V \in SUBSET T /\ IsFiniteSet(V) /\ ~Both(V)
    BY FS_Subset
  <2>4. SumFunctionOnSet(f, S) \in Int
    BY SumType
  <2>5. V # {}
    <3>1. ASSUME V = {} PROVE Both(V)
      <4>1. SumFunctionOnSet(f, V) = 0
        BY <3>1, SumEmpty
      <4>2. S \cup V = S
        BY <3>1
      <4>3. SumFunctionOnSet(f, S \cup V) = SumFunctionOnSet(f, S)
        BY <4>2
      <4> QED
        BY <2>4, <4>1, <4>3
    <3> QED
      BY <2>3, <3>1
  <2>6. PICK v \in V : TRUE
    BY <2>5
  <2> DEFINE W == V \ {v}
  <2>7. W \subseteq V /\ W # V /\ W \in SUBSET T
    BY <2>3
  <2>8. Both(W)
    BY <2>2, <2>7
  <2>9. IsFiniteSet(S \cup V) /\ IsFiniteSet(W) /\ v \in S \cup V /\ (S \cup V) \ {v} = S \cup W
    <3>1. IsFiniteSet(S \cup V)
      BY <2>3, FS_Union
    <3>2. IsFiniteSet(W)
      BY <2>3, FS_RemoveElement
    <3>3. v \notin S
      BY <2>3, <2>6
    <3> QED
      BY <2>6, <3>1, <3>2, <3>3
  <2>10. f[v] \in Int /\ (\A x \in V : f[x] \in Int) /\ (\A x \in S \cup V : f[x] \in Int)
         /\ (\A x \in W : f[x] \in Int)
    BY <2>3, <2>6
  <2>11. /\ SumFunctionOnSet(f, S \cup V) = f[v] + SumFunctionOnSet(f, (S \cup V) \ {v})
         /\ SumFunctionOnSet(f, V) = f[v] + SumFunctionOnSet(f, W)
    BY <2>3, <2>6, <2>9, <2>10, SumTakes
  <2>12. SumFunctionOnSet(f, W) \in Int
    BY <2>9, <2>10, SumType
  <2>13. /\ SumFunctionOnSet(f, S \cup V) = f[v] + SumFunctionOnSet(f, S \cup W)
         /\ SumFunctionOnSet(f, S \cup W)
              = SumFunctionOnSet(f, S) + SumFunctionOnSet(f, W)
         /\ SumFunctionOnSet(f, S \cup V)
              # SumFunctionOnSet(f, S) + SumFunctionOnSet(f, V)
    BY <2>3, <2>8, <2>9, <2>11
  <2> HIDE DEF W
  <2> QED
    BY <2>4, <2>10, <2>11, <2>12, <2>13
<1> QED
  BY <1>1

\* Functions that are the same on a set have the same sum over it.
LEMMA SumSame ==
  ASSUME NEW S, IsFiniteSet(S), NEW f, NEW g, \A x \in S : f[x] = g[x]
  PROVE  SumFunctionOnSet(f, S) = SumFunctionOnSet(g, S)
<1> DEFINE B == {T \in SUBSET S : SumFunctionOnSet(f, T) # SumFunctionOnSet(g, T)}
<1>1. ASSUME B # {} PROVE FALSE
  <2>1. B \in SUBSET SUBSET S
    OBVIOUS
  <2> HIDE DEF B
  <2>2. PICK T \in B : \A V \in B : V \subseteq T => V = T
    BY <1>1, <2>1, SmallestSet
  <2> USE DEF B
  <2>3. T \in SUBSET S /\ IsFiniteSet(T) /\ SumFunctionOnSet(f, T) # SumFunctionOnSet(g, T)
    BY FS_Subset
  <2>4. T # {}
    BY <2>3, SumEmpty
  <2>5. One(T) \in T
    BY <2>4, OneIsOne
  <2>6. SumFunctionOnSet(f, T \ {One(T)}) = SumFunctionOnSet(g, T \ {One(T)})
    BY <2>2, <2>3, <2>5
  <2>7. f[One(T)] = g[One(T)]
    BY <2>3, <2>5
  <2> QED
    BY <2>3, <2>4, <2>6, <2>7, SumOne
<1> QED
  BY <1>1

LEMMA SumPart ==
  ASSUME NEW f, NEW S, IsFiniteSet(S), \A x \in S : f[x] \in Nat, NEW T \in SUBSET S
  PROVE  SumFunctionOnSet(f, T) <= SumFunctionOnSet(f, S)
<1>1. IsFiniteSet(T) /\ IsFiniteSet(S \ T)
  BY FS_Subset, FS_Difference
<1>2. T \cup (S \ T) = S /\ T \cap (S \ T) = {}
  OBVIOUS
<1>3. \A x \in T \cup (S \ T) : f[x] \in Int
  BY <1>2
<1>4. SumFunctionOnSet(f, T \cup (S \ T))
        = SumFunctionOnSet(f, T) + SumFunctionOnSet(f, S \ T)
  BY <1>1, <1>2, <1>3, SumOfBoth
<1>5. SumFunctionOnSet(f, T) \in Nat /\ SumFunctionOnSet(f, S \ T) \in Nat
  BY <1>1, SumType
<1>6. SumFunctionOnSet(f, S) = SumFunctionOnSet(f, T) + SumFunctionOnSet(f, S \ T)
  BY <1>2, <1>4
<1> QED
  BY <1>5, <1>6

-----------------------------------------------------------------------------
(* Arithmetic of the shares. *)

LEMMA Distributes ==
  ASSUME NEW a \in Int, NEW b \in Int, NEW c \in Int
  PROVE  (a + b) * c = a * c + b * c /\ c * (a + b) = c * a + c * b /\ a * c = c * a
OBVIOUS

LEMMA ProductsOrdered ==
  ASSUME NEW a \in Int, NEW b \in Int, NEW c \in Nat, a <= b
  PROVE  a * c <= b * c
OBVIOUS

\* What a factor greater than zero keeps in order was in order.
LEMMA FactorDropped ==
  ASSUME NEW a \in Int, NEW b \in Int, NEW c \in Nat, c > 0, a * c <= b * c
  PROVE  a <= b
<1> SUFFICES ASSUME b + 1 <= a PROVE FALSE
  OBVIOUS
<1>1. (b + 1) * c <= a * c
  BY ProductsOrdered
<1>2. (b + 1) * c = b * c + c
  BY Distributes
<1>3. a * c \in Int /\ b * c \in Int
  OBVIOUS
<1> QED
  BY <1>1, <1>2, <1>3

LEMMA Division ==
  ASSUME NEW a \in Int, NEW b \in Nat, b > 0
  PROVE  /\ a \div b \in Int /\ a % b \in Int
         /\ a = b * (a \div b) + (a % b)
         /\ 0 <= a % b /\ a % b < b
OBVIOUS

\* Rounding goes astray by half of the divisor at most.
LEMMA Rounding ==
  ASSUME NEW n \in Nat, NEW d \in Nat, d > 0, NEW q \in get_quantized_amount(n, d)
  PROVE  q \in Int /\ 2 * n - d <= 2 * (d * q) /\ 2 * (d * q) <= 2 * n + d
<1>1. CASE q = (2 * n + d) \div (2 * d)
  <2>1. PICK r : r = (2 * n + d) % (2 * d)
    OBVIOUS
  <2>2. /\ q \in Int /\ r \in Int
        /\ 2 * n + d = (2 * d) * q + r
        /\ 0 <= r /\ r < 2 * d
    <3>1. 2 * n + d \in Int /\ 2 * d \in Nat /\ 2 * d > 0
      OBVIOUS
    <3> QED
      BY <1>1, <2>1, <3>1, Division
  <2>3. (2 * d) * q = 2 * (d * q) /\ d * q \in Int
    BY <2>2
  <2> QED
    BY <2>2, <2>3
<1>2. CASE q = n \div d /\ (2 * n) % (2 * d) = d
  <2>1. PICK m, r : m = (2 * n) \div (2 * d) /\ r = n % d
    OBVIOUS
  <2>2. q \in Int /\ r \in Int /\ n = d * q + r /\ 0 <= r /\ r < d
    BY <1>2, <2>1, Division
  <2>3. m \in Int /\ 2 * n = (2 * d) * m + d
    <3>1. 2 * n \in Int /\ 2 * d \in Nat /\ 2 * d > 0
      OBVIOUS
    <3> QED
      BY <1>2, <2>1, <3>1, Division
  <2>4. (2 * d) * m = 2 * (d * m) /\ d * m \in Int /\ d * q \in Int
    BY <2>2, <2>3
  <2>5. ~(m + 1 <= q)
    <3> SUFFICES ASSUME m + 1 <= q PROVE FALSE
      OBVIOUS
    <3>1. (m + 1) * d <= q * d
      BY <2>2, <2>3, ProductsOrdered
    <3>2. (m + 1) * d = d * m + d /\ q * d = d * q
      BY <2>2, <2>3, Distributes
    <3> QED
      BY <2>2, <2>3, <2>4, <3>1, <3>2
  <2>6. ~(q + 1 <= m)
    <3> SUFFICES ASSUME q + 1 <= m PROVE FALSE
      OBVIOUS
    <3>1. (q + 1) * d <= m * d
      BY <2>2, <2>3, ProductsOrdered
    <3>2. (q + 1) * d = d * q + d /\ m * d = d * m
      BY <2>2, <2>3, Distributes
    <3> QED
      BY <2>2, <2>3, <2>4, <3>1, <3>2
  <2>7. m = q
    BY <2>2, <2>3, <2>5, <2>6
  <2> QED
    BY <2>2, <2>3, <2>4, <2>7
<1> QED
  BY <1>1, <1>2 DEF get_quantized_amount

-----------------------------------------------------------------------------
(* Refund amounts. *)

SaleOK ==
  /\ IsFiniteSet(Items(sale))
  /\ \A i \in Items(sale) : sale.price[i] \in Nat
  /\ sale.cut \in Nat /\ sale.planned \in Nat
  /\ OrderTotal(sale) \in Nat
  /\ OrderTotal(sale) = 0 => sale.planned = 0

RefundType == [items : SUBSET Items(sale), cents : Int]

\* Twice the amount, times the order's total, is off the share of what was returned by
\* the order's total for every return.
Near(cents, part, whole, plan, count) ==
  /\ 2 * (part * plan) - count * whole <= 2 * (whole * cents)
  /\ 2 * (whole * cents) <= 2 * (part * plan) + count * whole

RefundsInv ==
  /\ SaleOK
  /\ refunds \in Seq(RefundType)
  /\ sale.cut = 0 =>
       IF OrderTotal(sale) = 0 THEN Refunded = 0
       ELSE Near(Refunded, TotalOf(sale, Returned), OrderTotal(sale), sale.planned,
                 Len(refunds))

LEMMA PartOfTotal ==
  ASSUME SaleOK, NEW ids \in SUBSET Items(sale)
  PROVE  /\ TotalOf(sale, ids) \in Nat /\ IsFiniteSet(ids)
         /\ sale.cut = 0 => TotalOf(sale, ids) <= OrderTotal(sale)
<1>1. IsFiniteSet(ids) /\ \A i \in ids : sale.price[i] \in Nat
  BY FS_Subset DEF SaleOK
<1>2. TotalOf(sale, ids) \in Nat /\ TotalOf(sale, Items(sale)) \in Nat
  BY <1>1, SumType DEF SaleOK, TotalOf
<1>3. TotalOf(sale, ids) <= TotalOf(sale, Items(sale))
  BY SumPart DEF SaleOK, TotalOf
<1> QED
  BY <1>1, <1>2, <1>3 DEF OrderTotal

\* The amount of one return.
LEMMA AmountNear ==
  ASSUME SaleOK, sale.cut = 0, OrderTotal(sale) # 0, NEW ids \in SUBSET Items(sale),
         NEW cents \in get_line_item_price_to_refund(sale, ids)
  PROVE  cents \in Int /\ Near(cents, TotalOf(sale, ids), OrderTotal(sale), sale.planned, 1)
<1> DEFINE O == OrderTotal(sale)
           P == sale.planned
           T == TotalOf(sale, ids)
<1>1. O \in Nat /\ O > 0 /\ P \in Nat /\ T \in Nat /\ T <= O
  BY PartOfTotal DEF SaleOK
<1>2. T * P \in Nat /\ T * P <= O * P /\ O * P \in Nat
  BY <1>1, ProductsOrdered
<1>3. OrderTotal(sale) = TotalOf(sale, Items(sale))
  <2>1. TotalOf(sale, Items(sale)) \in Nat
    BY PartOfTotal
  <2> QED
    BY <2>1 DEF OrderTotal
<1>4. \/ P = 0 /\ cents = 0
      \/ ids = Items(sale) /\ cents = P
      \/ P = O /\ cents = T
      \/ cents \in Allocated(sale, ids)
  BY DEF get_line_item_price_to_refund
<1>5. CASE P = 0 /\ cents = 0
  <2>1. Near(0, T, O, 0, 1)
    <3> HIDE DEF O, T
    <3> QED
      BY <1>1 DEF Near
  <2> QED
    BY <1>5, <2>1
<1>6. CASE ids = Items(sale) /\ cents = P
  <2>1. T = O
    BY <1>3, <1>6
  <2>2. Near(P, O, O, P, 1)
    <3> HIDE DEF O, P
    <3> QED
      BY <1>1, <1>2 DEF Near
  <2> QED
    BY <1>1, <1>6, <2>1, <2>2
<1>7. CASE P = O /\ cents = T
  <2>1. Near(T, T, O, O, 1)
    <3> HIDE DEF O, T
    <3>1. O * T = T * O /\ O * T \in Int
      BY <1>1
    <3> QED
      BY <1>1, <3>1 DEF Near
  <2> QED
    BY <1>1, <1>7, <2>1
<1>8. CASE cents \in Allocated(sale, ids)
  <2>1. PICK q \in get_quantized_amount(T * P, O) : cents = IF q < P THEN q ELSE P
    BY <1>8 DEF Allocated, Capped
  <2>2. /\ q \in Int
        /\ 2 * (T * P) - O <= 2 * (O * q) /\ 2 * (O * q) <= 2 * (T * P) + O
    <3> HIDE DEF O, P, T
    <3> QED
      BY <1>1, <1>2, <2>1, Rounding
  <2>3. Near(q, T, O, P, 1)
    <3> HIDE DEF O, P, T
    <3> QED
      BY <1>1, <2>2 DEF Near
  <2>4. CASE q < P
    BY <2>1, <2>2, <2>3, <2>4
  <2>5. CASE ~(q < P)
    <3>1. cents = P
      BY <2>1, <2>5
    <3>2. Near(P, T, O, P, 1)
      <4> HIDE DEF O, P, T
      <4>1. P * O <= q * O
        BY <1>1, <2>2, <2>5, ProductsOrdered
      <4>2. P * O = O * P /\ q * O = O * q /\ O * q \in Int
        BY <1>1, <2>2, Distributes
      <4> QED
        BY <1>1, <1>2, <2>2, <4>1, <4>2 DEF Near
    <3> QED
      BY <1>1, <3>1, <3>2
  <2> QED
    BY <2>4, <2>5
<1> QED
  BY <1>4, <1>5, <1>6, <1>7, <1>8

\* The sum of what is near its share is near the share of the sum.
LEMMA NearAdds ==
  ASSUME NEW a \in Int, NEW b \in Int, NEW s \in Nat, NEW t \in Nat, NEW whole \in Nat,
         NEW plan \in Nat, NEW count \in Nat,
         Near(a, s, whole, plan, count), Near(b, t, whole, plan, 1)
  PROVE  Near(a + b, s + t, whole, plan, count + 1)
<1>1. (s + t) * plan = s * plan + t * plan
  BY Distributes
<1>2. whole * (a + b) = whole * a + whole * b
  BY Distributes
<1>3. (count + 1) * whole = count * whole + whole
  BY Distributes
<1>4. /\ s * plan \in Int /\ t * plan \in Int /\ whole * a \in Int /\ whole * b \in Int
      /\ count * whole \in Int /\ 1 * whole = whole
  OBVIOUS
<1> QED
  BY <1>1, <1>2, <1>3, <1>4 DEF Near

LEMMA NearAddsUp ==
  ASSUME NEW cents \in Int, NEW part \in Nat, NEW whole \in Nat, NEW plan \in Nat,
         NEW count \in Nat, whole > 0, part <= whole, Near(cents, part, whole, plan, count)
  PROVE  /\ 2 * (cents - plan) <= count
         /\ part = whole => 2 * (plan - cents) <= count
<1>1. /\ whole * cents \in Int /\ whole * plan \in Int /\ part * plan \in Int
      /\ count * whole \in Int
      /\ (2 * (cents - plan)) * whole = 2 * (whole * cents) - 2 * (whole * plan)
      /\ (2 * (plan - cents)) * whole = 2 * (whole * plan) - 2 * (whole * cents)
  OBVIOUS
<1>2. part * plan <= whole * plan
  BY ProductsOrdered
<1>3. (2 * (cents - plan)) * whole <= count * whole
  BY <1>1, <1>2 DEF Near
<1>4. 2 * (cents - plan) <= count
  BY <1>3, FactorDropped
<1>5. ASSUME part = whole PROVE 2 * (plan - cents) <= count
  <2>1. (2 * (plan - cents)) * whole <= count * whole
    BY <1>1, <1>5 DEF Near
  <2> QED
    BY <2>1, FactorDropped
<1> QED
  BY <1>4, <1>5

LEMMA NothingRefunded ==
  ASSUME refunds = <<>> PROVE Refunded = 0 /\ Returned = {} /\ Len(refunds) = 0
<1>1. DOMAIN refunds = {} /\ Len(refunds) = 0
  OBVIOUS
<1>2. Refunded = SumFunctionOnSet([k \in DOMAIN refunds |-> refunds[k].cents], {})
  BY <1>1 DEF Refunded
<1> HIDE DEF Refunded
<1>3. Refunded = 0
  BY <1>2, SumEmpty
<1>4. Returned = {}
  BY <1>1 DEF Returned
<1> QED
  BY <1>1, <1>3, <1>4

LEMMA RefundsBegin == RefundsIdle \/ RefundsInit => RefundsInv
<1> SUFFICES ASSUME RefundsIdle \/ RefundsInit PROVE RefundsInv
  OBVIOUS
<1>1. SaleOK
  <2>1. CASE RefundsIdle
    <3>1. PICK p : p = <<>>
      OBVIOUS
    <3>2. sale.price = p /\ sale.cut = 0 /\ sale.planned = 0
      BY <2>1, <3>1 DEF RefundsIdle, NoSale
    <3>3. Items(sale) = {}
      BY <3>1, <3>2 DEF Items
    <3>4. TotalOf(sale, Items(sale)) = 0
      BY <3>3, SumEmpty DEF TotalOf
    <3> QED
      BY <3>2, <3>3, <3>4, FS_EmptySet DEF SaleOK, OrderTotal
  <2>2. CASE RefundsInit
    <3>0. PICK n \in 1 .. MaxItems : \E p \in [1 .. n -> Prices], cut \in Cuts :
            LET s == [price |-> p, cut |-> cut, planned |-> 0]
            IN /\ OrderTotal(s) >= 0
               /\ \E plan \in {OrderTotal(s)} \cup (IF OrderTotal(s) > 0 THEN Plans ELSE {}) :
                    sale = [s EXCEPT !.planned = plan]
      BY <2>2 DEF RefundsInit
    <3>1. PICK p \in [1 .. n -> Prices], cut \in Cuts :
            LET s == [price |-> p, cut |-> cut, planned |-> 0]
            IN /\ OrderTotal(s) >= 0
               /\ \E plan \in {OrderTotal(s)} \cup (IF OrderTotal(s) > 0 THEN Plans ELSE {}) :
                    sale = [s EXCEPT !.planned = plan]
      BY <3>0
    <3>2. PICK s : s = [price |-> p, cut |-> cut, planned |-> 0]
      OBVIOUS
    <3>3. PICK plan \in {OrderTotal(s)} \cup (IF OrderTotal(s) > 0 THEN Plans ELSE {}) :
            sale = [s EXCEPT !.planned = plan]
      BY <3>1, <3>2
    <3>4. OrderTotal(s) >= 0
      BY <3>1, <3>2
    <3>5. /\ s.price = p /\ s.cut = cut
          /\ sale.price = p /\ sale.cut = cut /\ sale.planned = plan
      BY <3>2, <3>3
    <3>6. OrderTotal(sale) = OrderTotal(s)
      BY <3>5 DEF OrderTotal, TotalOf, Items
    <3>7. Items(sale) = 1 .. n /\ n \in Nat
      BY <3>5, RefundAmountsAssumption DEF Items
    <3>8. IsFiniteSet(Items(sale)) /\ \A i \in Items(sale) : sale.price[i] \in Nat
      BY <3>5, <3>7, FS_Interval, RefundAmountsAssumption
    <3>9. TotalOf(sale, Items(sale)) \in Nat
      BY <3>8, SumType DEF TotalOf
    <3>10. OrderTotal(sale) \in Nat
      BY <3>4, <3>5, <3>6, <3>9, RefundAmountsAssumption DEF OrderTotal
    <3>11. plan \in Nat /\ (OrderTotal(s) = 0 => plan = 0)
      BY <3>6, <3>10, RefundAmountsAssumption
    <3> QED
      BY <3>5, <3>6, <3>8, <3>10, <3>11, RefundAmountsAssumption DEF SaleOK
  <2> QED
    BY <2>1, <2>2
<1>2. refunds = <<>>
  BY DEF RefundsIdle, RefundsInit
<1>3. refunds \in Seq(RefundType)
  BY <1>2
<1>4. Refunded = 0 /\ Returned = {} /\ Len(refunds) = 0
  BY <1>2, NothingRefunded
<1>5. TotalOf(sale, {}) = 0
  BY SumEmpty DEF TotalOf
<1>6. Near(0, 0, OrderTotal(sale), sale.planned, 0)
  BY <1>1 DEF SaleOK, Near
<1> QED
  BY <1>1, <1>3, <1>4, <1>5, <1>6 DEF RefundsInv

\* A return adds its items and its amount.
LEMMA RefundAdded ==
  ASSUME RefundsInv, NEW ids \in SUBSET Items(sale), ids \cap Returned = {}, NEW cents \in Int,
         refunds' = Append(refunds, [items |-> ids, cents |-> cents]), sale' = sale
  PROVE  /\ (refunds \in Seq(RefundType))'
         /\ Refunded \in Int /\ Refunded' = Refunded + cents
         /\ Returned \in SUBSET Items(sale) /\ Returned' = Returned \cup ids
         /\ Len(refunds') = Len(refunds) + 1 /\ Len(refunds) \in Nat
<1>1. refunds \in Seq(RefundType) /\ SaleOK
  BY DEF RefundsInv
<1>2. PICK r : r = [items |-> ids, cents |-> cents]
  OBVIOUS
<1>3. r \in RefundType /\ r.items = ids /\ r.cents = cents
  BY <1>2 DEF RefundType
<1>4. PICK after : after = Append(refunds, r)
  OBVIOUS
<1> DEFINE n == Len(refunds)
<1>5. /\ n \in Nat /\ DOMAIN refunds = 1 .. n
      /\ after \in Seq(RefundType) /\ Len(after) = n + 1 /\ DOMAIN after = 1 .. n + 1
      /\ \A k \in 1 .. n : after[k] = refunds[k]
      /\ after[n + 1] = r
  BY <1>1, <1>3, <1>4
<1>6. refunds' = after
  BY <1>2, <1>4
<1>7. (refunds \in Seq(RefundType))'
  BY <1>5, <1>6 DEF RefundType, Items
<1>8. \A k \in 1 .. n : refunds[k].items \in SUBSET Items(sale) /\ refunds[k].cents \in Int
  <2>1. \A k \in 1 .. n : refunds[k] \in RefundType
    BY <1>1, <1>5
  <2> QED
    BY <2>1 DEF RefundType
<1>9. Returned = UNION {refunds[k].items : k \in 1 .. n}
  BY <1>5 DEF Returned
<1>10. Returned' = UNION {after[k].items : k \in 1 .. n + 1}
  BY <1>5, <1>6 DEF Returned
<1> HIDE DEF n
<1>11. Returned \in SUBSET Items(sale)
  BY <1>8, <1>9
<1>12. Returned' = Returned \cup ids
  <2>1. 1 .. n + 1 = 1 .. n \cup {n + 1}
    BY <1>5
  <2>2. \A k \in 1 .. n : after[k].items = refunds[k].items
    BY <1>5
  <2>3. after[n + 1].items = ids
    BY <1>3, <1>5
  <2>4. {after[k].items : k \in 1 .. n + 1} = {refunds[k].items : k \in 1 .. n} \cup {ids}
    BY <2>1, <2>2, <2>3
  <2> QED
    BY <1>9, <1>10, <2>4
<1>13. Refunded \in Int /\ Refunded' = Refunded + cents
  <2>1. PICK f : f = [k \in 1 .. n |-> refunds[k].cents]
    OBVIOUS
  <2>2. PICK g : g = [k \in 1 .. n + 1 |-> after[k].cents]
    OBVIOUS
  <2>3. Refunded = SumFunctionOnSet(f, 1 .. n)
    BY <1>5, <2>1 DEF Refunded
  <2>4. Refunded' = SumFunctionOnSet(g, 1 .. n + 1)
    BY <1>5, <1>6, <2>2 DEF Refunded
  <2>5. \A k \in 1 .. n : f[k] \in Int /\ f[k] = g[k]
    BY <1>5, <1>8, <2>1, <2>2
  <2>6. g[n + 1] = cents
    BY <1>3, <1>5, <2>2
  <2>7. n + 1 \in 1 .. n + 1 /\ \A k \in 1 .. n + 1 : k = n + 1 \/ k \in 1 .. n
    BY <1>5
  <2>8. \A k \in 1 .. n + 1 : g[k] \in Int
    BY <2>5, <2>6, <2>7
  <2>9. IsFiniteSet(1 .. n) /\ IsFiniteSet(1 .. n + 1)
    BY <1>5, FS_Interval
  <2>10. (1 .. n + 1) \ {n + 1} = 1 .. n
    BY <1>5
  <2>11. SumFunctionOnSet(g, 1 .. n + 1) = g[n + 1] + SumFunctionOnSet(g, (1 .. n + 1) \ {n + 1})
    <3>1. PICK K : K = 1 .. n + 1
      OBVIOUS
    <3>2. PICK k : k = n + 1
      OBVIOUS
    <3>3. k \in K /\ IsFiniteSet(K) /\ \A j \in K : g[j] \in Int
      BY <2>7, <2>8, <2>9, <3>1, <3>2
    <3>4. SumFunctionOnSet(g, K) = g[k] + SumFunctionOnSet(g, K \ {k})
      BY <3>3, SumTakes
    <3> QED
      BY <3>1, <3>2, <3>4
  <2>12. SumFunctionOnSet(f, 1 .. n) = SumFunctionOnSet(g, 1 .. n)
    BY <2>5, <2>9, SumSame
  <2>13. SumFunctionOnSet(f, 1 .. n) \in Int
    BY <2>5, <2>9, SumType
  <2>14. SumFunctionOnSet(g, 1 .. n + 1) = cents + SumFunctionOnSet(g, 1 .. n)
    BY <2>6, <2>10, <2>11
  <2> QED
    BY <2>3, <2>4, <2>12, <2>13, <2>14
<1> QED
  BY <1>5, <1>6, <1>7, <1>11, <1>12, <1>13 DEF n

LEMMA RefundsStep == RefundsInv /\ [get_edx_refund_info]_refundVars => RefundsInv'
<1> SUFFICES ASSUME RefundsInv, [get_edx_refund_info]_refundVars PROVE RefundsInv'
  OBVIOUS
<1>1. CASE get_edx_refund_info
  <2>0. PICK ids \in SUBSET (Items(sale) \ Returned) \ {{}} :
          \E cents \in get_line_item_price_to_refund(sale, ids) :
            refunds' = Append(refunds, [items |-> ids, cents |-> cents])
    BY <1>1 DEF get_edx_refund_info
  <2>1. PICK cents \in get_line_item_price_to_refund(sale, ids) :
          refunds' = Append(refunds, [items |-> ids, cents |-> cents])
    BY <2>0
  <2>2. sale' = sale
    BY <1>1 DEF get_edx_refund_info
  <2>3. ids \in SUBSET Items(sale) /\ ids \cap Returned = {}
    OBVIOUS
  <2>4. SaleOK /\ SaleOK'
    BY <2>2 DEF RefundsInv, SaleOK
  <2> DEFINE O == OrderTotal(sale)
             P == sale.planned
  <2>5. O \in Nat /\ P \in Nat /\ (O = 0 => P = 0)
    BY <2>4 DEF SaleOK
  <2>6. cents \in Int
    <3>1. CASE P = 0 \/ O = 0
      BY <2>1, <3>1 DEF get_line_item_price_to_refund
    <3>2. CASE P # 0 /\ O # 0
      <4>1. cents \in {P} \cup {TotalOf(sale, ids)} \cup Allocated(sale, ids)
        BY <2>1, <3>2 DEF get_line_item_price_to_refund
      <4>2. TotalOf(sale, ids) \in Nat
        BY <2>3, <2>4, PartOfTotal
      <4>3. ASSUME cents \in Allocated(sale, ids) PROVE cents \in Int
        <5>1. PICK q \in get_quantized_amount(TotalOf(sale, ids) * P, O) :
                cents = IF q < P THEN q ELSE P
          BY <4>3 DEF Allocated, Capped
        <5>2. TotalOf(sale, ids) * P \in Nat /\ O > 0
          BY <2>5, <3>2, <4>2
        <5>3. q \in Int
          BY <2>5, <5>1, <5>2, Rounding
        <5> QED
          BY <2>5, <5>1, <5>3
      <4> QED
        BY <2>5, <4>1, <4>2, <4>3
    <3> QED
      BY <3>1, <3>2
  <2>7. /\ (refunds \in Seq(RefundType))'
        /\ Refunded \in Int /\ Refunded' = Refunded + cents
        /\ Returned \in SUBSET Items(sale) /\ Returned' = Returned \cup ids
        /\ Len(refunds') = Len(refunds) + 1 /\ Len(refunds) \in Nat
    BY <2>1, <2>2, <2>3, <2>6, RefundAdded
  <2>8. ASSUME sale.cut = 0, O = 0 PROVE Refunded' = 0
    <3>1. cents = 0
      BY <2>1, <2>8 DEF get_line_item_price_to_refund
    <3>2. Refunded = 0
      BY <2>8 DEF RefundsInv
    <3> QED
      BY <2>7, <3>1, <3>2
  <2>9. ASSUME sale.cut = 0, O # 0
        PROVE  Near(Refunded', TotalOf(sale, Returned'), O, P, Len(refunds'))
    <3> DEFINE s == TotalOf(sale, Returned)
               t == TotalOf(sale, ids)
    <3>1. Near(Refunded, s, O, P, Len(refunds))
      BY <2>9 DEF RefundsInv
    <3>2. Near(cents, t, O, P, 1)
      BY <2>1, <2>3, <2>4, <2>9, AmountNear
    <3>3. s \in Nat /\ t \in Nat /\ IsFiniteSet(Returned) /\ IsFiniteSet(ids)
      BY <2>3, <2>4, <2>7, PartOfTotal
    <3>4. \A i \in Returned \cup ids : sale.price[i] \in Int
      BY <2>3, <2>4, <2>7 DEF SaleOK
    <3>5. TotalOf(sale, Returned \cup ids) = s + t
      BY <2>3, <3>3, <3>4, SumOfBoth DEF TotalOf
    <3> HIDE DEF s, t, O, P
    <3>6. Near(Refunded + cents, s + t, O, P, Len(refunds) + 1)
      BY <2>5, <2>6, <2>7, <3>1, <3>2, <3>3, NearAdds
    <3> QED
      BY <2>7, <3>5, <3>6
  <2>10. /\ OrderTotal(sale)' = O /\ sale'.planned = P /\ sale'.cut = sale.cut
         /\ TotalOf(sale, Returned)' = TotalOf(sale, Returned')
    BY <2>2
  <2> HIDE DEF O, P
  <2> QED
    BY <2>4, <2>7, <2>8, <2>9, <2>10 DEF RefundsInv
<1>2. CASE UNCHANGED refundVars
  BY <1>2 DEF refundVars, RefundsInv, SaleOK, RefundType, Refunded, Returned
<1> QED
  BY <1>1, <1>2

(* Returned in whatever pieces, an order without a discount on its total price is refunded
   for what was paid, within half a cent for every return, and a part of it for no more,
   whatever the number of its items, the prices and the planned amount. *)
THEOREM RefundsComeToPlan == RefundsSpec => []RefundsAddUp
<1>1. RefundsInv => RefundsAddUp
  <2> SUFFICES ASSUME RefundsInv, sale.cut = 0
               PROVE  /\ 2 * (Refunded - sale.planned) <= Len(refunds)
                      /\ Returned = Items(sale) => 2 * (sale.planned - Refunded) <= Len(refunds)
    BY DEF RefundsAddUp
  <2>1. SaleOK /\ refunds \in Seq(RefundType)
    BY DEF RefundsInv
  <2>2. Len(refunds) \in Nat
    BY <2>1
  <2>3. CASE OrderTotal(sale) = 0
    <3>1. Refunded = 0 /\ sale.planned = 0
      BY <2>1, <2>3 DEF RefundsInv, SaleOK
    <3> QED
      BY <2>2, <3>1
  <2>4. CASE OrderTotal(sale) # 0
    <3> DEFINE O == OrderTotal(sale)
               P == sale.planned
               T == TotalOf(sale, Returned)
               k == Len(refunds)
               paid == Refunded
    <3>1. Near(paid, T, O, P, k)
      BY <2>4 DEF RefundsInv
    <3>2. O \in Nat /\ O > 0 /\ P \in Nat
      BY <2>1, <2>4 DEF SaleOK
    <3>3. Returned \in SUBSET Items(sale)
      <4>1. \A j \in DOMAIN refunds : refunds[j].items \in SUBSET Items(sale)
        <5>1. \A j \in DOMAIN refunds : refunds[j] \in RefundType
          BY <2>1
        <5> QED
          BY <5>1 DEF RefundType
      <4> QED
        BY <4>1 DEF Returned
    <3>4. T \in Nat /\ T <= O
      BY <2>1, <3>3, PartOfTotal
    <3>5. Returned = Items(sale) => T = O
      <4>1. TotalOf(sale, Items(sale)) \in Nat
        BY <2>1, PartOfTotal
      <4> QED
        BY <4>1 DEF OrderTotal
    <3>6. paid \in Int
      <4>1. IsFiniteSet(DOMAIN refunds)
        <5>1. DOMAIN refunds = 1 .. k
          BY <2>1
        <5> QED
          BY <2>2, <5>1, FS_Interval
      <4>2. PICK f : f = [j \in DOMAIN refunds |-> refunds[j].cents]
        OBVIOUS
      <4>3. \A j \in DOMAIN refunds : f[j] \in Int
        <5>1. \A j \in DOMAIN refunds : refunds[j] \in RefundType
          BY <2>1
        <5> QED
          BY <4>2, <5>1 DEF RefundType
      <4>4. SumFunctionOnSet(f, DOMAIN refunds) \in Int
        BY <4>1, <4>3, SumType
      <4> QED
        BY <4>2, <4>4 DEF Refunded
    <3> HIDE DEF O, P, T, k, paid
    <3>7. 2 * (paid - P) <= k /\ (T = O => 2 * (P - paid) <= k)
      BY <2>2, <3>1, <3>2, <3>4, <3>6, NearAddsUp DEF k
    <3> QED
      BY <3>5, <3>7 DEF P, k, paid
  <2> QED
    BY <2>3, <2>4
<1> QED
  BY <1>1, RefundsBegin, RefundsStep, PTL DEF RefundsSpec

-----------------------------------------------------------------------------
(* Prices of programs. *)

PricesInv ==
  /\ offers \in Offers \cup {<<>>}
  /\ \A r \in Readers : fetched[r].open => fetched[r].courses \in recent
  /\ fetched = [r \in Readers |-> fetched[r]]
  /\ recent # {} => program \in recent
  /\ PricedFromRecentProgram
  /\ DiscountIsOffered

LEMMA OffersType ==
  ASSUME PricesInv
  PROVE  /\ offers \in Seq(OfferType)
         /\ \A k, l \in DOMAIN offers : Default(offers[k]) /\ Default(offers[l]) => k = l
<1>1. CASE offers = <<>>
  BY <1>1
<1>2. CASE offers \in Offers
  BY <1>2, OffersAssumption DEF Default
<1> QED
  BY <1>1, <1>2 DEF PricesInv

LEMMA PricesBegin == PricesIdle \/ PricesInit => PricesInv
<1> SUFFICES ASSUME PricesIdle \/ PricesInit PROVE PricesInv
  OBVIOUS
<1>1. /\ offers \in Offers \cup {<<>>} /\ kept = NoEntry /\ quote = NoQuote
      /\ fetched = [r \in Readers |-> NotFetched]
      /\ recent # {} => program \in recent
  BY DEF PricesIdle, PricesInit
<1>2. kept.filled = FALSE /\ quote.status # 200
  BY <1>1 DEF NoEntry, NoQuote
<1>3. \A r \in Readers : fetched[r] = NotFetched /\ fetched[r].open = FALSE
  BY <1>1 DEF NotFetched
<1>4. fetched = [r \in Readers |-> fetched[r]]
  BY <1>1
<1> QED
  BY <1>1, <1>2, <1>3, <1>4 DEF PricesInv, PricedFromRecentProgram, DiscountIsOffered

\* Of an offer within the convention, the names tell whether it applies.
LEMMA NamesTell ==
  ASSUME NEW offer, Conventional(offer)
  PROVE  Applies(offer) <=> (IF Default(offer) THEN ~Named(offer) ELSE Named(offer))
<1>1. Named(offer) <=> \E test \in offer.tests : test.op # "in" /\ Bundle \in test.names
  BY DEF Named, extract_uuids_from_predicate
<1>2. CASE Default(offer)
  BY <1>1, <1>2 DEF Conventional, Applies, Passes
<1>3. CASE ~Default(offer)
  BY <1>1, <1>3 DEF Conventional, Applies, Passes
<1> QED
  BY <1>2, <1>3

\* What the property says of the offer that is chosen.
ChosenWell(offer) ==
  /\ Conventional(offer) => Applies(offer)
  /\ offer = NoOffer => \A k \in DOMAIN offers : ~Given(offers[k])
  /\ Default(offer) => \A k \in DOMAIN offers : Given(offers[k]) => Default(offers[k])

LEMMA NoOfferIs == NoOffer.value \in Nat /\ ~Conventional(NoOffer) /\ ~Default(NoOffer)
<1>1. NoOffer.other = FALSE /\ NoOffer.key = "none" /\ NoOffer.value = 0
  BY DEF NoOffer
<1> QED
  BY <1>1 DEF Conventional, Default

\* The first offer of its own that names the program, and the default one.
LEMMA OfferChosen ==
  ASSUME PricesInv
  PROVE  ChosenWell(get_program_offer) /\ get_program_offer.value \in Nat
<1> DEFINE n == Len(offers)
           Own == {i \in 1 .. n : ~Default(offers[i]) /\ Named(offers[i])}
           Defaults == {i \in 1 .. n : Default(offers[i])}
<1>1. /\ offers \in Seq(OfferType)
      /\ \A k, l \in DOMAIN offers : Default(offers[k]) /\ Default(offers[l]) => k = l
  BY OffersType
<1>2. DOMAIN offers = 1 .. n /\ n \in Nat
  BY <1>1
<1>3. FirstOwn = IF Own # {} THEN Min(Own) ELSE 0
  BY DEF FirstOwn, SelectInSeq
<1>4. LastDefault = IF Defaults # {} THEN Max(Defaults) ELSE 0
  BY DEF LastDefault, SelectLastInSeq
<1>5. /\ Own \subseteq 1 .. n /\ Own \subseteq Nat /\ Defaults \subseteq 1 .. n
      /\ \A i \in Own : ~Default(offers[i]) /\ Named(offers[i])
      /\ \A i \in Defaults : Default(offers[i])
      /\ \A i \in 1 .. n : i \in Own \/ i \in Defaults \/ ~Named(offers[i])
      /\ \A i \in 1 .. n : ~Default(offers[i]) => i \notin Defaults
  OBVIOUS
<1> HIDE DEF n, Own, Defaults
<1>6. IF Own = {} THEN FirstOwn = 0 ELSE FirstOwn \in Own /\ FirstOwn # 0
  <2>1. CASE Own = {}
    BY <1>3, <2>1
  <2>2. CASE Own # {}
    <3>1. PICK m : m = Min(Own)
      OBVIOUS
    <3>2. m \in Own
      BY <1>5, <2>2, <3>1, MinIsFirst
    <3>3. m \in 1 .. n
      BY <1>5, <3>2
    <3>4. m # 0
      BY <1>2, <3>3
    <3>5. FirstOwn = m
      BY <1>3, <2>2, <3>1
    <3> QED
      BY <2>2, <3>2, <3>4, <3>5
  <2> QED
    BY <2>1, <2>2
<1>7. IF Defaults = {} THEN LastDefault = 0 ELSE LastDefault \in Defaults /\ LastDefault # 0
  <2>1. CASE Defaults = {}
    BY <1>4, <2>1
  <2>2. CASE Defaults # {}
    <3>1. PICK m : m = Max(Defaults)
      OBVIOUS
    <3>2. m \in Defaults
      BY <1>2, <1>5, <2>2, <3>1, MaxIsLast
    <3>3. m \in 1 .. n
      BY <1>5, <3>2
    <3>4. m # 0
      BY <1>2, <3>3
    <3>5. LastDefault = m
      BY <1>4, <2>2, <3>1
    <3> QED
      BY <2>2, <3>2, <3>4, <3>5
  <2> QED
    BY <2>1, <2>2
<1>8. \A i \in 1 .. n : offers[i].value \in Nat
  <2>1. \A o \in OfferType : o.value \in Nat
    BY DEF OfferType
  <2>2. \A i \in 1 .. n : offers[i] \in OfferType
    BY <1>1, <1>2
  <2> QED
    BY <2>1, <2>2
<1>9. CASE Own # {}
  <2>1. get_program_offer = offers[FirstOwn]
    BY <1>6, <1>9 DEF get_program_offer
  <2>2. FirstOwn \in 1 .. n /\ ~Default(offers[FirstOwn]) /\ Named(offers[FirstOwn])
    BY <1>5, <1>6, <1>9
  <2>3. get_program_offer # NoOffer
    BY <2>1, <2>2 DEF NoOffer, Named, extract_uuids_from_predicate
  <2>4. Conventional(get_program_offer) => Applies(get_program_offer)
    BY <2>1, <2>2, NamesTell
  <2> QED
    BY <1>8, <2>1, <2>2, <2>3, <2>4 DEF ChosenWell
<1>10. ASSUME Own = {}, NEW k \in DOMAIN offers, Given(offers[k])
       PROVE  Default(offers[k]) /\ ~Named(offers[k])
  <2>1. ~Named(offers[k]) \/ Default(offers[k])
    BY <1>2, <1>5, <1>10
  <2> QED
    BY <1>10, <2>1, NamesTell DEF Given
<1>11. CASE Own = {} /\ Defaults # {} /\ ~Named(offers[LastDefault])
  <2>1. get_program_offer = offers[LastDefault]
    BY <1>6, <1>7, <1>11 DEF get_program_offer
  <2>2. LastDefault \in 1 .. n /\ Default(offers[LastDefault])
    BY <1>5, <1>7, <1>11
  <2>3. get_program_offer # NoOffer
    BY <2>1, <2>2, NoOfferIs
  <2>4. Conventional(get_program_offer) => Applies(get_program_offer)
    BY <1>11, <2>1, <2>2, NamesTell
  <2> QED
    BY <1>8, <1>10, <1>11, <2>1, <2>2, <2>3, <2>4 DEF ChosenWell
<1>12. CASE Own = {} /\ ~(Defaults # {} /\ ~Named(offers[LastDefault]))
  <2>1. get_program_offer = NoOffer
    BY <1>6, <1>7, <1>12 DEF get_program_offer
  <2>2. ASSUME NEW k \in DOMAIN offers, Given(offers[k]) PROVE FALSE
    <3>1. Default(offers[k]) /\ ~Named(offers[k])
      BY <1>10, <1>12, <2>2
    <3>2. k \in Defaults
      BY <1>2, <3>1 DEF Defaults
    <3>3. LastDefault \in DOMAIN offers /\ Default(offers[LastDefault])
      BY <1>2, <1>5, <1>7, <3>2
    <3>4. k = LastDefault
      BY <1>1, <3>1, <3>3
    <3> QED
      BY <1>12, <3>1, <3>2, <3>4
  <2> QED
    BY <2>1, <2>2, NoOfferIs DEF ChosenWell
<1> QED
  BY <1>9, <1>11, <1>12

\* A discount takes from the price, and never gives more than it.
LEMMA DiscountLowers ==
  ASSUME NEW offer, offer.value \in Nat, NEW total \in Nat
  PROVE  _calculate_discounted_price(offer, total) <= total
<1>1. PICK v \in Nat : v = offer.value
  OBVIOUS
<1>2. total * v \in Nat
  OBVIOUS
<1>3. (total * v) \div 10000 \in Nat
  BY <1>2
<1> DEFINE price == IF offer.type = "absolute" THEN total - v ELSE total - (total * v) \div 10000
<1>4. price \in Int /\ price <= total
  BY <1>3
<1>5. _calculate_discounted_price(offer, total) = IF price < 0 THEN 0 ELSE price
  BY <1>1 DEF _calculate_discounted_price
<1> HIDE DEF price
<1> QED
  BY <1>4, <1>5

\* An answer for courses of a program that was there lately.
LEMMA QuoteRight ==
  ASSUME PricesInv, NEW courses \in recent, NEW asked \in SUBSET Courses,
         quote' \in Quotes(courses, asked), UNCHANGED <<offers, recent>>
  PROVE  /\ quote'.status = 200 => \E p \in recent : quote'.courses = p \cap quote'.asked
         /\ quote'.status = 200 /\ quote'.courses # {} /\ quote'.courses \subseteq DOMAIN Price
              /\ Cardinality(quote'.courses) <= PricePage
              => quote'.total = SumFunctionOnSet(Price, quote'.courses)
         /\ DiscountIsOffered'
<1> DEFINE cs == courses \cap asked
           all == get_standalone_prices_for_skus(cs)
<1>1. CASE quote'.status # 200
  BY <1>1 DEF DiscountIsOffered
<1>2. ASSUME NEW found \in all,
             quote' = [status |-> 200, asked |-> asked, courses |-> cs,
                       total |-> SumFunctionOnSet(Price, found),
                       price |-> _calculate_discounted_price(get_program_offer,
                                                             SumFunctionOnSet(Price, found)),
                       offer |-> get_program_offer]
      PROVE  /\ quote'.status = 200 => \E p \in recent : quote'.courses = p \cap quote'.asked
             /\ quote'.status = 200 /\ quote'.courses # {}
                  /\ quote'.courses \subseteq DOMAIN Price
                  /\ Cardinality(quote'.courses) <= PricePage
                  => quote'.total = SumFunctionOnSet(Price, quote'.courses)
             /\ DiscountIsOffered'
  <2>1. PICK offer : offer = get_program_offer
    OBVIOUS
  <2>2. PICK total : total = SumFunctionOnSet(Price, found)
    OBVIOUS
  <2>3. /\ quote'.courses = cs /\ quote'.asked = asked /\ quote'.total = total
        /\ quote'.price = _calculate_discounted_price(offer, total) /\ quote'.offer = offer
    BY <1>2, <2>1, <2>2
  <2>4. found \in SUBSET DOMAIN Price
    BY DEF get_standalone_prices_for_skus
  <2>5. total \in Nat
    <3>1. IsFiniteSet(found) /\ \A c \in found : Price[c] \in Nat
      BY <2>4, FS_Subset, ProgramPricesAssumption
    <3> QED
      BY <2>2, <3>1, SumType
  <2>6. ASSUME cs # {}, cs \subseteq DOMAIN Price, Cardinality(cs) <= PricePage
        PROVE  total = SumFunctionOnSet(Price, cs)
    <3>1. DOMAIN Price \cap cs = cs
      BY <2>6
    <3>2. all = {cs}
      BY <2>6, <3>1 DEF get_standalone_prices_for_skus
    <3> QED
      BY <2>2, <3>2
  <2>7. ChosenWell(offer) /\ offer.value \in Nat
    BY <2>1, OfferChosen
  <2>8. _calculate_discounted_price(offer, total) <= total
    BY <2>5, <2>7, DiscountLowers
  <2>9. DiscountIsOffered'
    BY <2>3, <2>7, <2>8 DEF DiscountIsOffered, ChosenWell
  <2> QED
    BY <2>3, <2>6, <2>9
<1>3. \/ quote' = Failed(404) \/ quote' = Failed(500)
      \/ \E found \in all :
           quote' = [status |-> 200, asked |-> asked, courses |-> cs,
                     total |-> SumFunctionOnSet(Price, found),
                     price |-> _calculate_discounted_price(get_program_offer,
                                                           SumFunctionOnSet(Price, found)),
                     offer |-> get_program_offer]
  <2>1. CASE courses = {}
    BY <2>1 DEF Quotes
  <2>2. CASE courses # {}
    BY <2>2 DEF Quotes
  <2> QED
    BY <2>1, <2>2
<1>4. Failed(404).status # 200 /\ Failed(500).status # 200
  BY DEF Failed, NoQuote
<1> HIDE DEF all, cs
<1> QED
  BY <1>1, <1>2, <1>3, <1>4

LEMMA PricesStep == PricesInv /\ [PricesNext]_priceVars => PricesInv'
<1> SUFFICES ASSUME PricesInv, [PricesNext]_priceVars PROVE PricesInv'
  OBVIOUS
<1>1. quote'.status # 200 => DiscountIsOffered'
  BY DEF DiscountIsOffered
<1>2. NoQuote.status # 200 /\ NoEntry.filled = FALSE /\ NotFetched.open = FALSE
      /\ Failed(400).status # 200 /\ Failed(404).status # 200
  BY DEF NoQuote, NoEntry, NotFetched, Failed
<1>3. /\ offers \in Offers \cup {<<>>}
      /\ \A r \in Readers : fetched[r].open => fetched[r].courses \in recent
      /\ recent # {} => program \in recent
      /\ kept.filled => kept.courses \in recent
      /\ fetched = [r \in Readers |-> fetched[r]]
  BY DEF PricesInv, PricedFromRecentProgram
<1>4. CASE EditProgram
  <2>1. /\ recent' = IF Forgotten THEN {program'} ELSE recent \cup {program'}
        /\ quote' = NoQuote /\ offers' = offers /\ kept' = kept /\ fetched' = fetched
    BY <1>4 DEF EditProgram
  <2> QED
    BY <1>1, <1>2, <1>3, <2>1 DEF PricesInv, PricedFromRecentProgram, Forgotten
<1>5. CASE ExpireEntry
  <2>1. /\ recent' = IF \A r \in Readers : ~fetched[r].open THEN {program} ELSE recent
        /\ quote' = NoQuote /\ kept' = NoEntry
        /\ UNCHANGED <<program, offers, fetched>>
    BY <1>5 DEF ExpireEntry
  <2> QED
    BY <1>1, <1>2, <1>3, <2>1 DEF PricesInv, PricedFromRecentProgram
<1>6. CASE Answered
  BY <1>1, <1>2, <1>3, <1>6 DEF Answered, PricesInv, PricedFromRecentProgram
<1>7. CASE ProgramPriceView
  <2>1. UNCHANGED <<program, offers, kept, fetched, recent>>
    BY <1>7 DEF ProgramPriceView
  <2>2. CASE quote' = Failed(400)
    BY <1>1, <1>2, <1>3, <2>1, <2>2 DEF PricesInv, PricedFromRecentProgram
  <2>3. ASSUME kept.filled, NEW asked \in SUBSET Courses, quote' \in Quotes(kept.courses, asked)
        PROVE  PricesInv'
    BY <1>3, <2>1, <2>3, QuoteRight DEF PricesInv, PricedFromRecentProgram
  <2> QED
    BY <1>7, <2>2, <2>3 DEF ProgramPriceView
<1>8. CASE _make_request_Fails
  BY <1>1, <1>2, <1>3, <1>8
  DEF _make_request_Fails, AfterFailure, PricesInv, PricedFromRecentProgram
<1>9. ASSUME NEW r \in Readers, ReadProgram(r) PROVE PricesInv'
  <2>1. /\ recent # {} /\ quote' = NoQuote /\ UNCHANGED <<program, offers, kept, recent>>
        /\ fetched' = [fetched EXCEPT ![r] = [open |-> TRUE, courses |-> program]]
    BY <1>9 DEF ReadProgram, Quotable
  <2>2. \A q \in Readers : fetched'[q] = fetched[q]
                           \/ fetched'[q] = [open |-> TRUE, courses |-> program]
    BY <1>3, <2>1
  <2>3. \A q \in Readers : fetched'[q].open => fetched'[q].courses \in recent
    BY <1>3, <2>1, <2>2
  <2>4. fetched' = [q \in Readers |-> fetched'[q]]
    BY <1>3, <2>1
  <2> QED
    BY <1>1, <1>2, <1>3, <2>1, <2>3, <2>4 DEF PricesInv, PricedFromRecentProgram
<1>10. ASSUME NEW r \in Readers, get_program_variants(r) PROVE PricesInv'
  <2>1. /\ fetched[r].open /\ UNCHANGED <<program, offers, recent>>
        /\ kept' = [filled |-> TRUE, courses |-> fetched[r].courses]
        /\ fetched' = [fetched EXCEPT ![r] = NotFetched]
    BY <1>10 DEF get_program_variants
  <2>2. PICK asked \in SUBSET Courses : quote' \in Quotes(fetched[r].courses, asked)
    BY <1>10 DEF get_program_variants
  <2>3. \A q \in Readers : fetched'[q] = fetched[q] \/ fetched'[q] = NotFetched
    BY <1>3, <2>1
  <2>4. \A q \in Readers : fetched'[q].open => fetched'[q].courses \in recent
    BY <1>2, <1>3, <2>3
  <2>5. fetched' = [q \in Readers |-> fetched'[q]]
    BY <1>3, <2>1
  <2>6. fetched[r].courses \in recent
    BY <1>3, <2>1
  <2>7. kept'.filled => kept'.courses \in recent
    BY <2>1, <2>6
  <2> QED
    BY <1>3, <2>1, <2>2, <2>4, <2>5, <2>6, <2>7, QuoteRight
    DEF PricesInv, PricedFromRecentProgram
<1>11. CASE UNCHANGED priceVars
  BY <1>11 DEF priceVars, PricesInv, PricedFromRecentProgram, DiscountIsOffered
<1> QED
  BY <1>4, <1>5, <1>6, <1>7, <1>8, <1>9, <1>10, <1>11 DEF PricesNext

LEMMA PricesInvariant == PricesSpec => []PricesInv
BY PricesBegin, PricesStep, PTL DEF PricesSpec

(* The cache holds, and an answer prices, the courses of one program there was lately, for
   any courses, prices, offers, requests and edits. *)
THEOREM PriceIsOfRecentProgram == PricesSpec => []PricedFromRecentProgram
<1>1. PricesInv => PricedFromRecentProgram
  BY DEF PricesInv
<1> QED
  BY <1>1, PricesInvariant, PTL

(* The discount lowers the price.  Where the offers keep to the convention, it is that of
   an offer whose predicate holds of the program, the default one only if no other's
   does, and is missing only if no offer's predicate holds. *)
THEOREM DiscountIsThatOffered == PricesSpec => []DiscountIsOffered
<1>1. PricesInv => DiscountIsOffered
  BY DEF PricesInv
<1> QED
  BY <1>1, PricesInvariant, PTL

-----------------------------------------------------------------------------
(* The order history. *)

OrderType ==
  [id : OrderIds, system : {"legacy", "commercetools"}, created : Int, completed : Int,
   placed : Int]

HistoryInv ==
  /\ today \in Int
  /\ bought \subseteq OrderType
  /\ IsFiniteSet(bought)
  /\ \A o \in bought : o.created <= o.placed
  /\ HistoryComplete

LEMMA HistoryBegin == HistoryIdle \/ HistoryInit => HistoryInv
<1> SUFFICES ASSUME HistoryIdle \/ HistoryInit PROVE HistoryInv
  OBVIOUS
<1>1. bought = {} /\ today \in Int /\ page = NoPage
  BY DEF HistoryIdle, HistoryInit
<1>2. HistoryComplete
  BY <1>1 DEF NoPage, HistoryComplete
<1> QED
  BY <1>1, <1>2, FS_EmptySet DEF HistoryInv

\* An order that a page leaves out is none of the newer ones of a full page.
LEMMA LeftOut ==
  ASSUME NEW rank, IsFiniteSet(DOMAIN rank), NEW p \in FirstPage(rank),
         NEW o \in DOMAIN rank, o \notin p
  PROVE  Cardinality(p) = Limit /\ \A x \in p : ~Newer(rank[o], rank[x])
<1>1. /\ p \subseteq DOMAIN rank
      /\ Cardinality(p) = IF Cardinality(DOMAIN rank) < Limit THEN Cardinality(DOMAIN rank)
                          ELSE Limit
      /\ \A x \in p : ~Newer(rank[o], rank[x])
  BY DEF FirstPage
<1>2. Cardinality(p) # Cardinality(DOMAIN rank)
  BY <1>1, FS_Subset
<1> QED
  BY <1>1, <1>2

\* A list of a set's elements has them all.
LEMMA ListsAll ==
  ASSUME NEW S, IsFiniteSet(S), NEW list \in SetToSeqs(S)
  PROVE  /\ list \in Seq(S)
         /\ \A o \in S : \E i \in DOMAIN list : list[i] = o
<1>1. Cardinality(S) \in Nat
  BY FS_CardinalityType
<1> DEFINE n == Cardinality(S)
<1>2. list \in [1 .. n -> S] /\ \A i, j \in 1 .. n : i # j => list[i] # list[j]
  BY DEF SetToSeqs
<1>3. list \in Injection(1 .. n, S)
  BY <1>2 DEF Injection, IsInjective
<1>4. Cardinality(1 .. n) = n
  BY <1>1, FS_Interval
<1>5. list \in Surjection(1 .. n, S)
  BY <1>3, <1>4, FS_Injection
<1> HIDE DEF n
<1>6. n \in Nat
  BY <1>1 DEF n
<1> QED
  BY <1>2, <1>5, <1>6 DEF Surjection

\* A list in order, until the cutoff, has the orders that are not too old.
LEMMA CutOff ==
  ASSUME today \in Int, NEW S \in SUBSET OrderType, IsFiniteSet(S), NEW list \in InOrder(S)
  PROVE  /\ ToSet(UntilCutoff(list)) = {o \in S : o.placed >= today - Cutoff}
         /\ \A i, j \in DOMAIN UntilCutoff(list) :
              i < j => UntilCutoff(list)[i].placed >= UntilCutoff(list)[j].placed
<1>1. /\ list \in Seq(S)
      /\ \A o \in S : \E i \in DOMAIN list : list[i] = o
      /\ \A i, j \in DOMAIN list : i < j => list[i].placed >= list[j].placed
  BY ListsAll DEF InOrder
<1> DEFINE n == Len(list)
           cut == today - Cutoff
           I == {i \in 1 .. n : list[i].placed < cut}
<1>2. n \in Nat /\ DOMAIN list = 1 .. n /\ cut \in Int
  BY <1>1, OrderHistoryAssumption
<1>3. \A i \in 1 .. n : list[i] \in S /\ list[i].placed \in Int
  BY <1>1, <1>2 DEF OrderType
<1>4. UntilCutoff(list) = IF (IF I # {} THEN Min(I) ELSE 0) = 0 THEN list
                          ELSE SubSeq(list, 1, (IF I # {} THEN Min(I) ELSE 0) - 1)
  BY DEF UntilCutoff, SelectInSeq
<1>5. I \subseteq 1 .. n /\ I \subseteq Nat
  OBVIOUS
<1>6. PICK shown : shown = UntilCutoff(list)
  OBVIOUS
<1>7. \E m \in 0 .. n : /\ shown = SubSeq(list, 1, m)
                        /\ \A i \in 1 .. n : i <= m <=> list[i].placed >= cut
  <2>1. CASE I = {}
    <3>1. shown = list /\ SubSeq(list, 1, n) = list
      BY <1>1, <1>4, <1>6, <2>1, SubSeqFull
    <3>2. \A i \in 1 .. n : list[i].placed >= cut
      BY <1>2, <1>3, <2>1
    <3>3. n \in 0 .. n /\ shown = SubSeq(list, 1, n)
      BY <1>2, <3>1
    <3>4. \A i \in 1 .. n : i <= n
      BY <1>2
    <3> HIDE DEF n, I, cut
    <3> QED
      BY <3>2, <3>3, <3>4
  <2>2. CASE I # {}
    <3>1. PICK m : m = Min(I)
      OBVIOUS
    <3>2. m \in I /\ \A j \in I : m <= j
      BY <1>5, <2>2, <3>1, MinIsFirst
    <3>3. m \in 1 .. n /\ list[m].placed < cut
      BY <3>2
    <3>4. shown = SubSeq(list, 1, m - 1)
      <4>1. PICK k : k = IF I # {} THEN Min(I) ELSE 0
        OBVIOUS
      <4>2. shown = IF k = 0 THEN list ELSE SubSeq(list, 1, k - 1)
        BY <1>4, <1>6, <4>1
      <4>3. k = m /\ m # 0
        BY <2>2, <3>1, <3>3, <4>1
      <4> QED
        BY <4>2, <4>3
    <3>5. ASSUME NEW i \in 1 .. n
          PROVE  i <= m - 1 <=> list[i].placed >= cut
      <4>1. CASE i < m
        BY <1>2, <1>3, <3>2, <3>3, <4>1
      <4>2. CASE i = m
        BY <1>2, <1>3, <3>3, <4>2
      <4>3. CASE m < i
        <5>1. list[m].placed >= list[i].placed
          BY <1>1, <1>2, <3>3, <4>3
        <5> QED
          BY <1>2, <1>3, <3>3, <4>3, <5>1
      <4> QED
        BY <3>3, <4>1, <4>2, <4>3
    <3> QED
      BY <1>2, <3>3, <3>4, <3>5
  <2> QED
    BY <2>1, <2>2
<1>8. PICK m \in 0 .. n : /\ shown = SubSeq(list, 1, m)
                          /\ \A i \in 1 .. n : i <= m <=> list[i].placed >= cut
  BY <1>7
<1> HIDE DEF I, n, cut
<1>9. /\ DOMAIN shown = 1 .. m
      /\ \A i \in 1 .. m : shown[i] = list[i]
  BY <1>1, <1>2, <1>8, SubSeqProperties DEF n
<1>10. ToSet(shown) = {list[i] : i \in 1 .. m}
  BY <1>9 DEF ToSet
<1>11. {list[i] : i \in 1 .. m} = {o \in S : o.placed >= cut}
  <2>1. \A i \in 1 .. m : i \in 1 .. n /\ list[i] \in S /\ list[i].placed >= cut
    BY <1>2, <1>3, <1>8
  <2>2. ASSUME NEW o \in S, o.placed >= cut PROVE \E i \in 1 .. m : o = list[i]
    <3>1. PICK i \in 1 .. n : list[i] = o
      BY <1>1, <1>2
    <3>2. i \in 1 .. m
      BY <1>2, <1>8, <2>2, <3>1
    <3> QED
      BY <3>1, <3>2
  <2> QED
    BY <2>1, <2>2
<1>12. \A i, j \in DOMAIN shown : i < j => shown[i].placed >= shown[j].placed
  <2> SUFFICES ASSUME NEW i \in 1 .. m, NEW j \in 1 .. m, i < j
               PROVE  list[i].placed >= list[j].placed
    BY <1>9
  <2>1. i \in DOMAIN list /\ j \in DOMAIN list
    BY <1>2, <1>8
  <2> QED
    BY <1>1, <2>1
<1> QED
  BY <1>6, <1>10, <1>11, <1>12 DEF cut

\* The answer of a request that both systems were asked for.
LEMMA HistoryAnswered ==
  ASSUME HistoryInv, UserOrdersView
  PROVE  HistoryComplete'
<1>1. today' = today /\ bought' = bought /\ today \in Int /\ bought \subseteq OrderType
  BY DEF UserOrdersView, HistoryInv
<1>2. CASE page' = [NoPage EXCEPT !.status = 400]
  BY <1>2 DEF NoPage, HistoryComplete
<1>3. ASSUME NEW silent \in SUBSET {"legacy", "commercetools"},
             NEW legacy \in GetEcommerceOrders(silent),
             NEW new \in GetCommercetoolsOrders(silent),
             NEW list \in Sorted(legacy, new),
             page' = [status |-> 200, orders |-> UntilCutoff(list), silent |-> silent]
      PROVE  HistoryComplete'
  <2> DEFINE cut == today - Cutoff
             L == {b \in bought : b.system = "legacy"}
             C == {b \in bought : b.system = "commercetools" /\ b.created >= cut}
             rankL == [o \in L |-> <<o.placed, o.placed>>]
             rankC == [o \in C |-> <<o.completed, o.placed>>]
  <2>1. /\ IF "legacy" \in silent THEN legacy = {} ELSE legacy \in FirstPage(rankL)
        /\ IF "commercetools" \in silent THEN new = {} ELSE new \in FirstPage(rankC)
    BY DEF GetEcommerceOrders, GetCommercetoolsOrders, EcommerceOrders, get_orders
  <2>2. legacy \subseteq L /\ new \subseteq C
    <3>1. \A p \in FirstPage(rankL) : p \subseteq L
      BY DEF FirstPage
    <3>2. \A p \in FirstPage(rankC) : p \subseteq C
      BY DEF FirstPage
    <3> QED
      BY <2>1, <3>1, <3>2
  <2> DEFINE S == legacy \cup new
  <2>3. S \subseteq bought /\ S \in SUBSET OrderType /\ IsFiniteSet(S)
    BY <1>1, <2>2, FS_Subset DEF HistoryInv
  <2>4. IsFiniteSet(L) /\ IsFiniteSet(C)
    <3>1. L \in SUBSET bought /\ C \in SUBSET bought
      OBVIOUS
    <3> QED
      BY <3>1, FS_Subset DEF HistoryInv
  <2>5. DOMAIN rankL = L /\ DOMAIN rankC = C
    OBVIOUS
  <2>6. PICK shown : shown = UntilCutoff(list)
    OBVIOUS
  <2>7. /\ ToSet(shown) = {o \in S : o.placed >= cut}
        /\ \A i, j \in DOMAIN shown : i < j => shown[i].placed >= shown[j].placed
    BY <1>1, <2>3, <2>6, CutOff DEF Sorted
  <2>8. page'.status = 200 /\ page'.orders = shown /\ page'.silent = silent
    BY <1>3, <2>6
  <2>9. cut \in Int
    BY <1>1, OrderHistoryAssumption
  <2>10. \A o \in bought : o.placed \in Int /\ o.created \in Int /\ o.created <= o.placed
                           /\ o.system \in {"legacy", "commercetools"}
    BY <1>1 DEF HistoryInv, OrderType
  <2> HIDE DEF cut
  <2>11. ASSUME NEW o \in bought, o \notin ToSet(shown), o.system \notin silent,
                ~(o.created < cut)
         PROVE  Cardinality({x \in ToSet(shown) : x.system = o.system}) = Limit
    <3>1. o.placed >= cut /\ o.created >= cut
      BY <2>9, <2>10, <2>11
    <3>2. o \notin S
      BY <2>7, <2>11, <3>1
    <3>3. CASE o.system = "legacy"
      <4>1. legacy \in FirstPage(rankL) /\ o \in L /\ o \notin legacy
        BY <2>1, <2>11, <3>2, <3>3
      <4>2. Cardinality(legacy) = Limit /\ \A x \in legacy : ~Newer(rankL[o], rankL[x])
        BY <2>4, <2>5, <4>1, LeftOut
      <4>3. ASSUME NEW x \in legacy PROVE x.placed >= cut
        <5>1. x \in L /\ x \in bought
          BY <2>2
        <5>2. rankL[o] = <<o.placed, o.placed>> /\ rankL[x] = <<x.placed, x.placed>>
          BY <4>1, <5>1
        <5>3. ~(o.placed > x.placed)
          BY <4>2, <5>2 DEF Newer
        <5> QED
          BY <2>9, <2>10, <3>1, <5>1, <5>3
      <4>4. {x \in ToSet(shown) : x.system = o.system} = legacy
        BY <2>2, <2>7, <3>3, <4>3
      <4> QED
        BY <4>2, <4>4
    <3>4. CASE o.system = "commercetools"
      <4>1. new \in FirstPage(rankC) /\ o \in C /\ o \notin new
        BY <2>1, <2>11, <3>1, <3>2, <3>4
      <4>2. Cardinality(new) = Limit
        BY <2>4, <2>5, <4>1, LeftOut
      <4>3. ASSUME NEW x \in new PROVE x.placed >= cut
        <5>1. x \in bought /\ x.created >= cut
          BY <2>2
        <5> QED
          BY <2>9, <2>10, <5>1
      <4>4. {x \in ToSet(shown) : x.system = o.system} = new
        BY <2>2, <2>7, <3>4, <4>3
      <4> QED
        BY <4>2, <4>4
    <3> QED
      BY <2>10, <3>3, <3>4
  <2> QED
    BY <1>1, <2>7, <2>8, <2>11 DEF HistoryComplete, Shown, cut
<1> QED
  BY <1>2, <1>3 DEF UserOrdersView

LEMMA HistoryStep == HistoryInv /\ [HistoryNext]_historyVars => HistoryInv'
<1> SUFFICES ASSUME HistoryInv, [HistoryNext]_historyVars PROVE HistoryInv'
  OBVIOUS
<1>1. page' = NoPage => HistoryComplete'
  BY DEF NoPage, HistoryComplete
<1>2. CASE NextDay
  BY <1>1, <1>2, OrderHistoryAssumption DEF NextDay, HistoryInv
<1>3. CASE UserOrdersView
  BY <1>3, HistoryAnswered DEF UserOrdersView, HistoryInv
<1>4. ASSUME NEW id \in OrderIds, Buy(id) PROVE HistoryInv'
  <2>1. PICK system \in {"legacy", "commercetools"}, created \in 0 .. today :
          bought' = bought \cup
            {[id |-> id, system |-> system, created |-> created, completed |-> today,
              placed |-> IF system = "legacy" THEN created ELSE today]}
    BY <1>4 DEF Buy
  <2>2. PICK o : o = [id |-> id, system |-> system, created |-> created, completed |-> today,
                      placed |-> IF system = "legacy" THEN created ELSE today]
    OBVIOUS
  <2>3. today \in Int
    BY DEF HistoryInv
  <2>4. o \in OrderType /\ o.created <= o.placed
    BY <2>2, <2>3 DEF OrderType
  <2>5. bought' = bought \cup {o}
    BY <2>1, <2>2
  <2>6. IsFiniteSet(bought')
    BY <2>5, FS_AddElement DEF HistoryInv
  <2>7. today' = today /\ page' = NoPage
    BY <1>4 DEF Buy
  <2> QED
    BY <1>1, <2>3, <2>4, <2>5, <2>6, <2>7 DEF HistoryInv
<1>5. ASSUME NEW o \in bought, ChangeOrder(o) PROVE HistoryInv'
  <2>1. PICK p : p = [o EXCEPT !.placed = today]
    OBVIOUS
  <2>2. today \in Int /\ o \in OrderType /\ o.created <= o.placed
    BY DEF HistoryInv
  <2>3. today' = today /\ page' = NoPage /\ o.placed < today /\ bought' = (bought \ {o}) \cup {p}
    BY <1>5, <2>1 DEF ChangeOrder
  <2>4. p \in OrderType /\ p.created = o.created /\ p.placed = today
    BY <2>1, <2>2 DEF OrderType
  <2>5. p.created <= p.placed
    BY <2>2, <2>3, <2>4 DEF OrderType
  <2>6. IsFiniteSet(bought')
    BY <2>3, FS_AddElement, FS_RemoveElement DEF HistoryInv
  <2> QED
    BY <1>1, <2>2, <2>3, <2>4, <2>5, <2>6 DEF HistoryInv
<1>6. CASE UNCHANGED historyVars
  BY <1>6 DEF historyVars, HistoryInv, HistoryComplete, Shown
<1> QED
  BY <1>2, <1>3, <1>4, <1>5, <1>6 DEF HistoryNext

(* The history is complete and in order for any number of orders and days, any size of
   the page, and any order in which the orders of one day come. *)
THEOREM HistoryIsComplete == HistorySpec => []HistoryComplete
<1>1. HistoryInv => HistoryComplete
  BY DEF HistoryInv
<1> QED
  BY <1>1, HistoryBegin, HistoryStep, PTL DEF HistorySpec

-----------------------------------------------------------------------------
(* Receipts. *)

PaymentType == [psp : Processors, status : {"pending", "succeeded", "failed"}]

Paid == {k \in DOMAIN placed.payments : placed.payments[k].status = "succeeded"}

ReceiptsInv ==
  /\ placed \in [number : {"none", "legacy", "commercetools"}, payments : Seq(PaymentType)]
  /\ \A j, k \in Paid : j = k
  /\ ReceiptOfPayment

LEMMA ReceiptsBegin == ReceiptsIdle \/ ReceiptsInit => ReceiptsInv
<1> SUFFICES ASSUME ReceiptsIdle \/ ReceiptsInit PROVE ReceiptsInv
  OBVIOUS
<1>1. PICK p : p = <<>>
  OBVIOUS
<1>2. p \in Seq(PaymentType) /\ DOMAIN p = {}
  BY <1>1
<1>3. /\ placed \in [number : {"none", "legacy", "commercetools"}, payments : Seq(PaymentType)]
      /\ placed.payments = p
  <2>1. CASE ReceiptsIdle
    <3>1. PICK o : o = [number |-> "none", payments |-> p]
      OBVIOUS
    <3>2. o \in [number : {"none", "legacy", "commercetools"}, payments : Seq(PaymentType)]
          /\ o.payments = p
      BY <1>2, <3>1
    <3> QED
      BY <1>1, <2>1, <3>1, <3>2 DEF ReceiptsIdle
  <2>2. CASE ReceiptsInit
    BY <1>1, <1>2, <2>2 DEF ReceiptsInit
  <2> QED
    BY <2>1, <2>2
<1>4. Paid = {}
  BY <1>2, <1>3 DEF Paid
<1> QED
  BY <1>3, <1>4
  DEF ReceiptsInv, ReceiptsIdle, ReceiptsInit, NoReceipt, ReceiptOfPayment

\* The answer of a request.
LEMMA ReceiptAnswered ==
  ASSUME ReceiptsInv, RedirectReceiptView PROVE ReceiptOfPayment'
<1> DEFINE I == {i \in 1 .. Len(placed.payments) : placed.payments[i].status = "succeeded"}
           k == IF I # {} THEN Min(I) ELSE 0
           info == IF k = 0 THEN NoPayment ELSE placed.payments[k]
<1>1. placed' = placed /\ placed.payments \in Seq(PaymentType)
  BY DEF RedirectReceiptView, ReceiptsInv
<1>2. I = Paid
  BY <1>1 DEF Paid
<1>3. get_edx_successful_payment_info(placed.payments) = info
  BY DEF get_edx_successful_payment_info, SelectInSeq, Succeeded
<1>4. I # {} => Min(I) \in I /\ Min(I) \in Nat /\ Min(I) > 0
  <2>1. I \subseteq Nat /\ \A i \in I : i > 0
    BY <1>1
  <2> QED
    BY <2>1, MinIsFirst
<1> HIDE DEF I
<1> DEFINE paid == {placed.payments[j].psp : j \in Paid}
<1>5. IF Paid = {} THEN info = NoPayment /\ paid = {}
      ELSE info.psp \in paid /\ paid = {info.psp}
  <2>1. CASE Paid = {}
    BY <1>2, <2>1
  <2>2. CASE Paid # {}
    <3>1. k \in Paid /\ k # 0
      <4>1. I # {}
        BY <1>2, <2>2
      <4>2. Min(I) \in I /\ Min(I) # 0
        BY <1>4, <4>1
      <4>3. k = Min(I)
        BY <4>1
      <4> HIDE DEF k
      <4> QED
        BY <1>2, <4>2, <4>3
    <3>2. Paid = {k}
      BY <3>1 DEF ReceiptsInv
    <3>3. info = placed.payments[k]
      BY <3>1
    <3> HIDE DEF k, info
    <3>4. paid = {placed.payments[k].psp}
      BY <3>2
    <3> QED
      BY <2>2, <3>3, <3>4
  <2> QED
    BY <2>1, <2>2
<1> HIDE DEF k, info
<1>6. \/ receipt' = Redirect("ecommerce")
      \/ receipt' = NotFound(TRUE)
      \/ receipt' \in ReceiptOf(info)
  BY <1>3 DEF RedirectReceiptView, GetLegacyEcommerceReceiptRedirectUrl
<1>7. /\ receipt'.at \in {"stripe", "paypal"} => receipt'.at \in paid
      /\ receipt'.status = 404 /\ ~receipt'.failed => paid \cap {"stripe", "paypal"} = {}
  <2>1. CASE receipt' = Redirect("ecommerce") \/ receipt' = NotFound(TRUE)
    BY <2>1 DEF Redirect, NotFound
  <2>2. CASE info.psp = "paypal" /\ receipt' \in ReceiptOf(info)
    <3>1. receipt' = Redirect("paypal")
      BY <2>2 DEF ReceiptOf
    <3>2. receipt'.at = "paypal" /\ receipt'.status # 404
      BY <3>1 DEF Redirect
    <3>3. "paypal" \in paid
      BY <1>5, <2>2 DEF NoPayment
    <3> QED
      BY <3>2, <3>3
  <2>3. CASE info.psp = "stripe" /\ receipt' \in ReceiptOf(info)
    <3>1. receipt' = Redirect("stripe") \/ receipt' = [NotFound(TRUE) EXCEPT !.status = 500]
      BY <2>3 DEF ReceiptOf
    <3>2. receipt'.at \in {"stripe", "none"} /\ receipt'.status # 404
      BY <3>1 DEF Redirect, NotFound
    <3>3. "stripe" \in paid
      BY <1>5, <2>3 DEF NoPayment
    <3> QED
      BY <3>2, <3>3
  <2>4. CASE info.psp \notin {"stripe", "paypal"} /\ receipt' \in ReceiptOf(info)
    <3>1. receipt' = NotFound(FALSE)
      BY <2>4 DEF ReceiptOf
    <3>2. receipt'.at = "none"
      BY <3>1 DEF NotFound
    <3>3. paid \cap {"stripe", "paypal"} = {}
      BY <1>5, <2>4
    <3> QED
      BY <3>2, <3>3
  <2> QED
    BY <1>6, <2>1, <2>2, <2>3, <2>4
<1>8. ReceiptOfPayment' <=> 
      /\ receipt'.at \in {"stripe", "paypal"} => receipt'.at \in paid
      /\ receipt'.status = 404 /\ ~receipt'.failed => paid \cap {"stripe", "paypal"} = {}
  BY <1>1 DEF ReceiptOfPayment, Paid
<1> QED
  BY <1>7, <1>8

LEMMA ReceiptsStep == ReceiptsInv /\ [ReceiptsNext]_receiptVars => ReceiptsInv'
<1> SUFFICES ASSUME ReceiptsInv, [ReceiptsNext]_receiptVars PROVE ReceiptsInv'
  OBVIOUS
<1> DEFINE before == placed.payments
           PlacedOrder == [number : {"none", "legacy", "commercetools"},
                           payments : Seq(PaymentType)]
<1>0. placed \in PlacedOrder /\ before \in Seq(PaymentType)
  BY DEF ReceiptsInv
<1>1. CASE AddPayment
  <2>1. PICK psp \in Processors, status \in {"pending", "succeeded"} :
          placed' = [placed EXCEPT !.payments =
                      Append(@, [psp |-> psp, status |-> status])]
    BY <1>1 DEF AddPayment
  <2>2. PICK p : p = [psp |-> psp, status |-> status]
    OBVIOUS
  <2>3. p \in PaymentType
    BY <2>2 DEF PaymentType
  <2>4. PICK after : after = Append(before, p)
    OBVIOUS
  <2>5. /\ after \in Seq(PaymentType) /\ DOMAIN after = 1 .. Len(before) + 1
        /\ \A k \in 1 .. Len(before) : after[k] = before[k]
    BY <1>0, <2>3, <2>4
  <2>6. placed' \in PlacedOrder /\ placed'.payments = after
    BY <1>0, <2>1, <2>2, <2>4, <2>5
  <2>7. \A k \in DOMAIN before : before[k].status # "succeeded"
    BY <1>1 DEF AddPayment
  <2>8. \A k \in Paid' : k = Len(before) + 1
    <3>1. SUFFICES ASSUME NEW k \in Paid' PROVE k = Len(before) + 1
      OBVIOUS
    <3>2. k \in 1 .. Len(before) + 1 /\ after[k].status = "succeeded"
      BY <2>5, <2>6 DEF Paid
    <3>3. DOMAIN before = 1 .. Len(before) /\ Len(before) \in Nat
      BY <1>0
    <3> QED
      BY <2>5, <2>7, <3>2, <3>3
  <2>9. receipt' = NoReceipt
    BY <1>1 DEF AddPayment
  <2> QED
    BY <2>6, <2>8, <2>9 DEF ReceiptsInv, ReceiptOfPayment, NoReceipt
<1>2. CASE SettlePayment
  <2>1. PICK k \in DOMAIN before, status \in {"succeeded", "failed"} :
          placed' = [placed EXCEPT !.payments[k].status = status]
    BY <1>2 DEF SettlePayment
  <2>2. PICK p : p = [before[k] EXCEPT !.status = status]
    OBVIOUS
  <2>3. p \in PaymentType
    <3>1. before[k] \in PaymentType
      BY <1>0
    <3> QED
      BY <2>2, <3>1 DEF PaymentType
  <2>4. PICK after : after = [before EXCEPT ![k] = p]
    OBVIOUS
  <2>5. /\ after \in Seq(PaymentType) /\ DOMAIN after = DOMAIN before
        /\ \A j \in DOMAIN before : j # k => after[j] = before[j]
    BY <1>0, <2>3, <2>4, ExceptSeq
  <2>6. placed' \in PlacedOrder /\ placed'.payments = after
    BY <1>0, <2>1, <2>2, <2>4, <2>5
  <2>7. \A j \in DOMAIN before : before[j].status # "succeeded"
    BY <1>2 DEF SettlePayment
  <2>8. \A j \in Paid' : j = k
    BY <2>5, <2>6, <2>7 DEF Paid
  <2>9. receipt' = NoReceipt
    BY <1>2 DEF SettlePayment
  <2> QED
    BY <2>6, <2>8, <2>9 DEF ReceiptsInv, ReceiptOfPayment, NoReceipt
<1>3. CASE RedirectReceiptView
  <2>1. placed' = placed
    BY <1>3 DEF RedirectReceiptView
  <2> QED
    BY <1>3, <2>1, ReceiptAnswered DEF ReceiptsInv, Paid
<1>4. CASE UNCHANGED receiptVars
  BY <1>4 DEF receiptVars, ReceiptsInv, Paid, ReceiptOfPayment
<1> QED
  BY <1>1, <1>2, <1>3, <1>4 DEF ReceiptsNext

(* A receipt of Stripe or PayPal is that of the payment that succeeded, and an
   order that was paid there has one unless a call failed, for any number of
   payments. *)
THEOREM ReceiptIsOfPayment == ReceiptsSpec => []ReceiptOfPayment
<1>1. ReceiptsInv => ReceiptOfPayment
  BY DEF ReceiptsInv
<1> QED
  BY <1>1, ReceiptsBegin, ReceiptsStep, PTL DEF ReceiptsSpec

-----------------------------------------------------------------------------
(* Sanctioned orders. *)

SanctionType ==
  [at : {"none", "order", "customer", "deactivate"}, retries : 0 .. SanctionRetries,
   hit : BOOLEAN, ended : {"no", "unpublished", "not_found", "finished", "gave_up", "died"}]

SanctionsTypeOK ==
  /\ screened \in [state : {"idle", "none", "sanctioned", "cleared"}, hit : BOOLEAN,
                   edx : BOOLEAN]
  /\ account \in {"active", "deactivated"}
  /\ guarded \in BOOLEAN
  /\ messages \in 0 .. MaxMessages
  /\ sanctions \in [Sanctionings -> SanctionType]

\* A task t that has seen the sanction saw what was there, one that is about to
\* deactivate the learner has seen it, and one that came to its end then has done so:
\* of the order s and the account a.
TaskTrue(t, s, a) ==
  /\ t.hit => s.hit
  /\ t.at # "none" => t.ended = "no"
  /\ t.at = "deactivate" => t.hit /\ s.edx
  /\ t.ended = "finished" /\ t.hit /\ s.edx => a = "deactivated"

SanctionsInv ==
  /\ SanctionsTypeOK
  /\ screened.state = "sanctioned" => screened.hit
  /\ account = "deactivated" => screened.hit /\ screened.edx
  /\ \A k \in Sanctionings : TaskTrue(sanctions[k], screened, account)

LEMMA SanctionsBegin == SanctionsIdle \/ SanctionsInit => SanctionsInv
<1> SUFFICES ASSUME SanctionsIdle \/ SanctionsInit PROVE SanctionsInv
  OBVIOUS
<1>8. ASSUME SanctionsIdle
      PROVE  screened \in [state : {"idle", "none"}, hit : {FALSE}, edx : BOOLEAN]
  <2>1. PICK s : s = [state |-> "idle", hit |-> FALSE, edx |-> FALSE]
    OBVIOUS
  <2>2. s \in [state : {"idle", "none"}, hit : {FALSE}, edx : BOOLEAN]
    BY <2>1
  <2>3. screened = s
    BY <1>8, <2>1 DEF SanctionsIdle
  <2> QED
    BY <2>2, <2>3
<1>9. ASSUME SanctionsInit
      PROVE  screened \in [state : {"idle", "none"}, hit : {FALSE}, edx : BOOLEAN]
  BY <1>9 DEF SanctionsInit
<1>1. /\ screened \in [state : {"idle", "none"}, hit : {FALSE}, edx : BOOLEAN]
      /\ account = "active" /\ guarded = FALSE /\ messages = 0
      /\ sanctions = [k \in Sanctionings |-> NoSanctioning]
  BY <1>8, <1>9 DEF SanctionsIdle, SanctionsInit
<1>2. NoSanctioning \in SanctionType /\ 0 \in 0 .. MaxMessages
  BY SanctionsAssumption DEF NoSanctioning, SanctionType
<1>3. SanctionsTypeOK
  BY <1>1, <1>2 DEF SanctionsTypeOK
<1>4. TaskTrue(NoSanctioning, screened, account)
  BY DEF TaskTrue, NoSanctioning
<1>5. screened.state # "sanctioned"
  BY <1>1
<1> QED
  BY <1>1, <1>3, <1>4, <1>5 DEF SanctionsInv

\* A step that moves one task on.
LEMMA TaskMoved ==
  ASSUME SanctionsInv, NEW k \in Sanctionings, NEW t \in SanctionType,
         sanctions' = [sanctions EXCEPT ![k] = t],
         UNCHANGED <<screened, guarded, messages>>,
         account' = account \/ (account' = "deactivated" /\ screened.hit /\ screened.edx),
         TaskTrue(t, screened', account')
  PROVE  SanctionsInv'
<1>1. SanctionsTypeOK'
  BY DEF SanctionsInv, SanctionsTypeOK
<1>2. \A j \in Sanctionings : sanctions'[j] = IF j = k THEN t ELSE sanctions[j]
  BY DEF SanctionsInv, SanctionsTypeOK
<1>3. \A j \in Sanctionings : TaskTrue(sanctions'[j], screened', account')
  <2> SUFFICES ASSUME NEW j \in Sanctionings, j # k 
               PROVE  TaskTrue(sanctions'[j], screened', account')
    BY <1>2
  <2>1. TaskTrue(sanctions[j], screened, account) /\ sanctions'[j] = sanctions[j]
    BY <1>2 DEF SanctionsInv
  <2> QED
    BY <2>1 DEF TaskTrue
<1> QED
  BY <1>1, <1>3 DEF SanctionsInv

LEMMA TaskRetried ==
  ASSUME SanctionsInv, NEW k \in Sanctionings, Retry(k) \/ \E how \in
           {"not_found", "died"} : Finish(k, how),
         UNCHANGED <<screened, guarded, messages>>,
         account' = account \/ (account' = "deactivated" /\ screened.hit /\ screened.edx)
  PROVE  SanctionsInv'
<1> DEFINE t == sanctions[k]
<1>1. t \in SanctionType /\ TaskTrue(t, screened, account)
  BY DEF SanctionsInv, SanctionsTypeOK
<1>2. ASSUME NEW how \in {"not_found", "died", "gave_up"}, Finish(k, how)
      PROVE  SanctionsInv'
  <2> DEFINE u == [t EXCEPT !.at = "none", !.ended = how]
  <2>1. sanctions' = [sanctions EXCEPT ![k] = u]
    BY <1>2, <1>1 DEF Finish, SanctionsInv, SanctionsTypeOK, SanctionType
  <2>2. u \in SanctionType /\ u.at = "none" /\ u.ended = how /\ u.hit = t.hit
    BY <1>1 DEF SanctionType
  <2> HIDE DEF u
  <2>3. TaskTrue(u, screened', account')
    BY <1>1, <2>2 DEF TaskTrue
  <2> QED
    BY <2>1, <2>2, <2>3, TaskMoved
<1>3. CASE t.retries < SanctionRetries /\ Retry(k)
  <2> DEFINE u == [NoSanctioning EXCEPT !.at = "order", !.retries = t.retries + 1]
  <2>1. sanctions' = [sanctions EXCEPT ![k] = u]
    BY <1>3 DEF Retry
  <2>2. t.retries + 1 \in 0 .. SanctionRetries
    BY <1>1, <1>3, SanctionsAssumption DEF SanctionType
  <2>3. u \in SanctionType /\ u.at = "order" /\ u.ended = "no" /\ u.hit = FALSE
    BY <2>2 DEF SanctionType, NoSanctioning
  <2> HIDE DEF u
  <2>4. TaskTrue(u, screened', account')
    BY <2>3 DEF TaskTrue
  <2> QED
    BY <2>1, <2>3, <2>4, TaskMoved
<1> QED
  BY <1>2, <1>3 DEF Retry

LEMMA SanctionsStep == SanctionsInv /\ [SanctionsNext]_sanctionVars => SanctionsInv'
<1> SUFFICES ASSUME SanctionsInv, [SanctionsNext]_sanctionVars PROVE SanctionsInv'
  OBVIOUS
<1>1. CASE Screen
  <2>1. PICK s \in {"sanctioned", "cleared"} :
          screened' = [screened EXCEPT !.state = s, !.hit = @ \/ s = "sanctioned"]
    BY <1>1 DEF Screen
  <2> DEFINE h == screened.hit \/ s = "sanctioned"
  <2>2. h \in BOOLEAN /\ screened' = [screened EXCEPT !.state = s, !.hit = h]
    BY <2>1 DEF SanctionsInv, SanctionsTypeOK
  <2>3. (screened.hit => h) /\ (s = "sanctioned" => h)
    OBVIOUS
  <2> HIDE DEF h
  <2>4. /\ screened' \in [state : {"idle", "none", "sanctioned", "cleared"}, hit : BOOLEAN,
                          edx : BOOLEAN]
        /\ screened'.state = s /\ screened'.hit = h /\ screened'.edx = screened.edx
    BY <2>2 DEF SanctionsInv, SanctionsTypeOK
  <2>5. UNCHANGED <<account, guarded, messages, sanctions>>
    BY <1>1 DEF Screen
  <2> QED
    BY <2>3, <2>4, <2>5 DEF SanctionsInv, SanctionsTypeOK, TaskTrue
<1>2. CASE OrderSanctionedView
  <2>1. /\ messages < MaxMessages /\ messages' = messages + 1 /\ guarded' = TRUE
        /\ UNCHANGED <<screened, account>>
    BY <1>2 DEF OrderSanctionedView
  <2>2. messages' \in Sanctionings /\ messages' \in 0 .. MaxMessages
    BY <2>1, SanctionsAssumption DEF SanctionsInv, SanctionsTypeOK, Sanctionings
  <2>3. CASE UNCHANGED sanctions
    BY <2>1, <2>2, <2>3 DEF SanctionsInv, SanctionsTypeOK, TaskTrue
  <2>4. ASSUME NEW t \in {[NoSanctioning EXCEPT !.at = "order"],
                          [NoSanctioning EXCEPT !.ended = "unpublished"]},
               sanctions' = [sanctions EXCEPT ![messages'] = t]
        PROVE  SanctionsInv'
    <3>1. ASSUME t = [NoSanctioning EXCEPT !.at = "order"]
          PROVE  t \in SanctionType /\ t.hit = FALSE /\ t.ended \in {"no", "unpublished"}
                 /\ t.at \in {"none", "order"} /\ (t.at # "none" => t.ended = "no")
      <4>1. PICK u : u = [at |-> "order", retries |-> 0, hit |-> FALSE, ended |-> "no"]
        OBVIOUS
      <4>2. u \in SanctionType /\ u.at = "order" /\ u.hit = FALSE /\ u.ended = "no"
        BY <4>1, SanctionsAssumption DEF SanctionType
      <4>3. t = u
        BY <3>1, <4>1 DEF NoSanctioning
      <4> QED
        BY <4>2, <4>3
    <3>2. ASSUME t = [NoSanctioning EXCEPT !.ended = "unpublished"]
          PROVE  t \in SanctionType /\ t.hit = FALSE /\ t.ended \in {"no", "unpublished"}
                 /\ t.at \in {"none", "order"} /\ (t.at # "none" => t.ended = "no")
      <4>1. PICK u : u = [at |-> "none", retries |-> 0, hit |-> FALSE, ended |-> "unpublished"]
        OBVIOUS
      <4>2. u \in SanctionType /\ u.at = "none" /\ u.hit = FALSE /\ u.ended = "unpublished"
        BY <4>1, SanctionsAssumption DEF SanctionType
      <4>3. t = u
        BY <3>2, <4>1 DEF NoSanctioning
      <4> QED
        BY <4>2, <4>3
    <3>3. /\ t \in SanctionType
          /\ t.hit = FALSE /\ t.ended # "finished"
          /\ t.at # "deactivate" /\ (t.at # "none" => t.ended = "no")
      BY <2>4, <3>1, <3>2
    <3>4. TaskTrue(t, screened', account')
      BY <3>3 DEF TaskTrue
    <3>6. \A j \in Sanctionings : sanctions'[j] = t \/ sanctions'[j] = sanctions[j]
      BY <2>2, <2>4 DEF SanctionsInv, SanctionsTypeOK
    <3>7. \A j \in Sanctionings : TaskTrue(sanctions'[j], screened', account')
      BY <2>1, <3>4, <3>6 DEF SanctionsInv, TaskTrue
    <3>8. SanctionsTypeOK'
      BY <2>1, <2>2, <2>4, <3>3 DEF SanctionsInv, SanctionsTypeOK
    <3> QED
      BY <2>1, <3>7, <3>8 DEF SanctionsInv
  <2> QED
    BY <1>2, <2>3, <2>4 DEF OrderSanctionedView
<1>3. CASE ExpireGuard
  BY <1>3 DEF ExpireGuard, SanctionsInv, SanctionsTypeOK, TaskTrue
<1>4. ASSUME NEW k \in Sanctionings, LookupFails(k) \/ SanctionDies(k)
      PROVE  SanctionsInv'
  BY <1>4, TaskRetried DEF LookupFails, SanctionDies
<1>5. ASSUME NEW k \in Sanctionings, get_order_by_id(k) PROVE SanctionsInv'
  <2>1. /\ sanctions[k].at = "order" /\ UNCHANGED <<screened, account, guarded, messages>>
        /\ sanctions' =
             [sanctions EXCEPT ![k].at = "customer", ![k].hit = get_edx_is_sanctioned]
    BY <1>5 DEF get_order_by_id
  <2> DEFINE t == sanctions[k]
             h == get_edx_is_sanctioned
             u == [t EXCEPT !.at = "customer", !.hit = h]
  <2>2. t \in SanctionType /\ TaskTrue(t, screened, account)
    BY DEF SanctionsInv, SanctionsTypeOK
  <2>3. h \in BOOLEAN /\ (h => screened.hit)
    BY DEF SanctionsInv, get_edx_is_sanctioned
  <2>4. sanctions' = [sanctions EXCEPT ![k] = u]
    BY <2>1
  <2>5. t.at = "order"
    BY <2>1
  <2> HIDE DEF h
  <2>6. u \in SanctionType /\ u.at = "customer" /\ u.hit = h /\ u.ended = t.ended
    BY <2>2, <2>3 DEF SanctionType
  <2> HIDE DEF u
  <2>7. t.ended = "no"
    BY <2>2, <2>5 DEF TaskTrue
  <2> HIDE DEF t
  <2>8. TaskTrue(u, screened', account')
    BY <2>1, <2>3, <2>6, <2>7 DEF TaskTrue
  <2> QED
    BY <2>1, <2>4, <2>6, <2>8, TaskMoved
<1>6. ASSUME NEW k \in Sanctionings, get_customer_by_id(k) PROVE SanctionsInv'
  <2>1. sanctions[k].at = "customer" /\ UNCHANGED <<screened, account, guarded, messages>>
    BY <1>6 DEF get_customer_by_id
  <2> DEFINE t == sanctions[k]
  <2>2. t \in SanctionType /\ TaskTrue(t, screened, account) /\ t.ended = "no"
    BY <2>1 DEF SanctionsInv, SanctionsTypeOK, TaskTrue
  <2>3. CASE screened.edx /\ t.hit
    <3> DEFINE u == [t EXCEPT !.at = "deactivate"]
    <3>1. sanctions' = [sanctions EXCEPT ![k] = u]
      BY <1>6, <2>3 DEF get_customer_by_id
    <3>2. u \in SanctionType /\ u.at = "deactivate" /\ u.hit = t.hit /\ u.ended = t.ended
      BY <2>2 DEF SanctionType
    <3> HIDE DEF u
    <3>3. TaskTrue(u, screened', account')
      BY <2>1, <2>2, <2>3, <3>2 DEF TaskTrue
    <3> QED
      BY <2>1, <3>1, <3>2, <3>3, TaskMoved
  <2>4. CASE ~(screened.edx /\ t.hit)
    <3> DEFINE u == [t EXCEPT !.at = "none", !.ended = "finished"]
    <3>1. sanctions' = [sanctions EXCEPT ![k] = u]
      BY <1>6, <2>4 DEF get_customer_by_id, Finish
    <3>2. u \in SanctionType /\ u.at = "none" /\ u.hit = t.hit
      BY <2>2 DEF SanctionType
    <3> HIDE DEF u
    <3>3. TaskTrue(u, screened', account')
      BY <2>1, <2>2, <2>4, <3>2 DEF TaskTrue
    <3> QED
      BY <2>1, <3>1, <3>2, <3>3, TaskMoved
  <2> QED
    BY <2>3, <2>4
<1>7. ASSUME NEW k \in Sanctionings, deactivate_user(k) PROVE SanctionsInv'
  <2>1. sanctions[k].at = "deactivate" /\ UNCHANGED <<screened, guarded, messages>>
    BY <1>7 DEF deactivate_user
  <2> DEFINE t == sanctions[k]
  <2>2. t \in SanctionType /\ t.ended = "no" /\ t.hit /\ screened.edx /\ screened.hit
    BY <2>1 DEF SanctionsInv, SanctionsTypeOK, TaskTrue
  <2>3. CASE account' \in {account, "deactivated"} /\ Retry(k)
    BY <2>1, <2>2, <2>3, TaskRetried
  <2>4. CASE account' = "deactivated" /\ Finish(k, "finished")
    <3> DEFINE u == [t EXCEPT !.at = "none", !.ended = "finished"]
    <3>1. sanctions' = [sanctions EXCEPT ![k] = u]
      BY <2>4 DEF Finish
    <3>2. u \in SanctionType /\ u.at = "none" /\ u.hit = t.hit
      BY <2>2 DEF SanctionType
    <3> HIDE DEF u
    <3>3. TaskTrue(u, screened', account')
      BY <2>1, <2>2, <2>4, <3>2 DEF TaskTrue
    <3> QED
      BY <2>1, <2>2, <2>4, <3>1, <3>2, <3>3, TaskMoved
  <2> QED
    BY <1>7, <2>3, <2>4 DEF deactivate_user, DeactivationFails
<1>8. CASE UNCHANGED sanctionVars
  BY <1>8 DEF sanctionVars, SanctionsInv, SanctionsTypeOK, TaskTrue
<1> QED
  BY <1>1, <1>2, <1>3, <1>4, <1>5, <1>6, <1>7, <1>8 DEF SanctionsNext

LEMMA SanctionsInvariant == SanctionsSpec => []SanctionsInv
BY SanctionsBegin, SanctionsStep, PTL DEF SanctionsSpec

(* A task that has seen the sanction and came to its end leaves the learner
   deactivated, for any number of messages and retries. *)
THEOREM SanctionsAreEnforced == SanctionsSpec => []SanctionEnforced
<1>1. SanctionsInv => SanctionEnforced
  BY DEF SanctionsInv, TaskTrue, SanctionEnforced
<1> QED
  BY <1>1, SanctionsInvariant, PTL

(* No learner is deactivated without a sanctioned order of edX. *)
THEOREM DeactivationHasCause == SanctionsSpec => []DeactivatedForCause
<1>1. SanctionsInv => DeactivatedForCause
  BY DEF SanctionsInv, DeactivatedForCause
<1> QED
  BY <1>1, SanctionsInvariant, PTL

-----------------------------------------------------------------------------
(* Discount codes. *)

CodeType ==
  [status : {"missing", "active", "inactive"}, discount : {"gone", "active", "inactive"},
   relative : BOOLEAN, window : {"before", "within", "after"}, limit : Nat,
   tree : Trees \cup {NoTree, Always}]

CodedOrder ==
  [codes : {<<"this">>, <<"other">>, <<"gone">>, <<"other", "this">>},
   email : {"none", "old", "new"}]

DiscountsInv ==
  /\ code \in CodeType
  /\ variant.found = "variant" => variant.context \in Contexts
  /\ learner \in [customer : BOOLEAN, email : {"none", "old", "new"}]
  /\ orders \in Seq(CodedOrder)
  /\ TurnedDownForCause
  /\ ApplicableIsEarned

LEMMA DiscountsBegin == DiscountsIdle \/ DiscountsInit => DiscountsInv
<1> SUFFICES ASSUME DiscountsIdle \/ DiscountsInit PROVE DiscountsInv
  OBVIOUS
<1>1. code \in CodeType
  <2>1. CASE DiscountsIdle
    <3>1. code = NoCode
      BY <2>1 DEF DiscountsIdle
    <3>2. NoCode \in CodeType
      BY DEF NoCode, CodeType
    <3> QED
      BY <3>1, <3>2
  <2>2. CASE DiscountsInit
    BY <2>2, DiscountsAssumption DEF DiscountsInit, CodeType
  <2> QED
    BY <2>1, <2>2
<1>2. variant.found = "variant" => variant.context \in Contexts
  BY DiscountsAssumption DEF DiscountsIdle, DiscountsInit, NoVariant
<1>3. learner \in [customer : BOOLEAN, email : {"none", "old", "new"}]
  <2>1. CASE DiscountsIdle
    BY <2>1 DEF DiscountsIdle, NoLearner
  <2>2. CASE DiscountsInit
    BY <2>2 DEF DiscountsInit
  <2> QED
    BY <2>1, <2>2
<1>4. orders = << >> /\ verdict = NoVerdict
  BY DEF DiscountsIdle, DiscountsInit
<1>5. orders \in Seq(CodedOrder)
  BY <1>4
<1>6. TurnedDownForCause /\ ApplicableIsEarned
  BY <1>4 DEF TurnedDownForCause, ApplicableIsEarned, NoVerdict
<1> QED
  BY <1>1, <1>2, <1>3, <1>5, <1>6 DEF DiscountsInv

\* What the check for a first purchase may find.
LEMMA FirstTime ==
  ASSUME DiscountsInv, NEW found \in SUBSET DOMAIN orders,
         NEW a \in is_first_time_discount_eligible(found)
  PROVE  /\ a \in {"true", "false"}
         /\ a = "false" => Used
         /\ (found = DOMAIN orders /\ Len(orders) <= PageSize
               /\ \A k \in DOMAIN orders : Len(orders[k].codes) = 1)
              => (a = "true" => ~Used)
<1>1. PICK firsts \in FirstPages(found) : a = Truth(\A k \in firsts : orders[k].codes[1] # "this")
  BY DEF is_first_time_discount_eligible
<1>2. /\ firsts \subseteq found
      /\ Cardinality(firsts) = IF Cardinality(found) < PageSize THEN Cardinality(found) ELSE PageSize
  BY DEF FirstPages, kSubset
<1>3. orders \in Seq(CodedOrder) /\ DOMAIN orders = 1 .. Len(orders) /\ Len(orders) \in Nat
  BY DEF DiscountsInv
<1>4. \A k \in DOMAIN orders : orders[k] \in CodedOrder
  BY <1>3
<1>5. ASSUME NEW k \in DOMAIN orders
      PROVE  1 \in DOMAIN orders[k].codes /\ orders[k].codes \in Seq({"this", "other", "gone"})
  <2>1. orders[k].codes \in {<<"this">>, <<"other">>, <<"gone">>, <<"other", "this">>}
    BY <1>4 DEF CodedOrder
  <2>2. ASSUME NEW w \in {"this", "other", "gone"}, orders[k].codes = <<w>>
        PROVE  1 \in DOMAIN orders[k].codes /\ orders[k].codes \in Seq({"this", "other", "gone"})
    BY <2>2
  <2>3. CASE orders[k].codes = <<"other", "this">>
    BY <2>3
  <2> QED
    BY <2>1, <2>2, <2>3
<1>6. a = "false" => Used
  <2> SUFFICES ASSUME a = "false" PROVE Used
    OBVIOUS
  <2>1. PICK k \in firsts : orders[k].codes[1] = "this"
    BY <1>1 DEF Truth
  <2>2. k \in DOMAIN orders /\ 1 \in DOMAIN orders[k].codes
    BY <1>2, <1>5
  <2> QED
    BY <2>1, <2>2 DEF Used
<1>7. ASSUME found = DOMAIN orders, Len(orders) <= PageSize,
             \A k \in DOMAIN orders : Len(orders[k].codes) = 1, a = "true"
      PROVE  ~Used
  <2>1. IsFiniteSet(found) /\ Cardinality(found) = Len(orders)
    BY <1>3, <1>7, FS_Interval
  <2>2. Cardinality(firsts) = Cardinality(found)
    BY <1>2, <1>3, <1>7, <2>1, DiscountsAssumption
  <2>3. firsts = found
    BY <1>2, <2>1, <2>2, FS_Subset
  <2>4. \A k \in DOMAIN orders : orders[k].codes[1] # "this"
    BY <1>1, <1>7, <2>3 DEF Truth
  <2>5. \A k \in DOMAIN orders : \A j \in DOMAIN orders[k].codes : j = 1
    BY <1>5, <1>7
  <2> QED
    BY <2>4, <2>5 DEF Used
<1> QED
  BY <1>1, <1>6, <1>7 DEF Truth

LEMMA UsageRight ==
  ASSUME DiscountsInv, NEW fails, NEW usage \in UsageChecked(fails)
  PROVE  /\ usage \in {"true", "false", "refused"}
         /\ usage = "false" => ~Valid \/ Used
         /\ usage = "true" =>
              /\ Valid
              /\ code.limit > 0 /\ Len(orders) <= PageSize
                   /\ (\A k \in DOMAIN orders : Len(orders[k].codes) = 1) => ~Used
<1>1. get_discount_code_info <=> Valid
  BY DEF get_discount_code_info, Valid
<1>2. code.limit \in Nat
  BY DEF DiscountsInv, CodeType
<1>3. CASE ~get_discount_code_info
  <2>1. usage = "false"
    BY <1>3 DEF UsageChecked
  <2> QED
    BY <1>1, <1>3, <2>1
<1>4. CASE get_discount_code_info /\ code.limit = 0
  <2>1. usage = "true"
    BY <1>4 DEF UsageChecked
  <2> QED
    BY <1>1, <1>4, <2>1
<1>5. CASE get_discount_code_info /\ code.limit > 0
  <2>1. usage = "refused" \/ usage \in is_first_time_discount_eligible(DOMAIN orders)
    <3>1. UsageChecked(fails) =
            IF "customer" \in fails \/ (learner.customer /\ "orders" \in fails) THEN {"refused"}
            ELSE is_first_time_discount_eligible(DOMAIN orders)
      BY <1>2, <1>5 DEF UsageChecked
    <3> QED
      BY <3>1
  <2>2. CASE usage = "refused"
    BY <2>2
  <2>3. CASE usage \in is_first_time_discount_eligible(DOMAIN orders)
    BY <1>1, <1>5, <2>3, FirstTime
  <2> QED
    BY <2>1, <2>2, <2>3
<1> QED
  BY <1>2, <1>3, <1>4, <1>5

LEMMA CodeAnswered ==
  ASSUME DiscountsInv, NEW fails, NEW usage \in UsageChecked(fails)
  PROVE  /\ PredicateChecked(usage, fails) = "false" =>
              ~Valid \/ Used \/ (Says /\ ~Holds(code.tree, variant.context))
         /\ PredicateChecked(usage, fails) = "true" =>
              /\ Valid
              /\ Says => Holds(code.tree, variant.context)
              /\ code.limit > 0 /\ Len(orders) <= PageSize
                   /\ (\A k \in DOMAIN orders : Len(orders[k].codes) = 1) => ~Used
<1>1. CASE usage # "true"
  <2>1. PredicateChecked(usage, fails) = usage
    BY <1>1 DEF PredicateChecked
  <2> QED
    BY <1>1, <2>1, UsageRight
<1>2. CASE usage = "true" /\ code.tree = Always
  <2>1. PredicateChecked(usage, fails) = usage /\ ~Says
    BY <1>2 DEF PredicateChecked, Says
  <2> QED
    BY <1>2, <2>1, UsageRight
<1>3. CASE usage = "true" /\ code.tree # Always
  <2>1. CASE "product" \in fails
    <3>1. PredicateChecked(usage, fails) = "refused"
      BY <1>3, <2>1 DEF PredicateChecked
    <3> QED
      BY <3>1
  <2>2. CASE "product" \notin fails
    <3>1. PredicateChecked(usage, fails) =
            Truth(variant.found = "variant" => PredicateHolds)
      BY <1>3, <2>2 DEF PredicateChecked, get_product_and_variant_by_course_run_key
    <3>2. CASE variant.found # "variant"
      <4>1. PredicateChecked(usage, fails) = "true" /\ ~Says
        BY <3>1, <3>2 DEF Truth, Says
      <4> QED
        BY <1>3, <4>1, UsageRight
    <3>3. CASE variant.found = "variant"
      <4>1. code.tree \in Trees \cup {NoTree} /\ variant.context \in Contexts
        BY <1>3, <3>3 DEF DiscountsInv, CodeType
      <4>2. PredicateHolds <=> Worth(code.tree, variant.context) # "false"
        BY <4>1, EvaluatedRight DEF PredicateHolds
      <4>3. Says <=> Meaningful(code.tree, variant.context)
        BY <1>3, <3>3 DEF Says
      <4>4. PredicateHolds <=> (Says => Holds(code.tree, variant.context))
        BY <4>2, <4>3 DEF Worth, Truth
      <4>5. /\ PredicateChecked(usage, fails) = "false" =>
                 Says /\ ~Holds(code.tree, variant.context)
            /\ PredicateChecked(usage, fails) = "true" =>
                 (Says => Holds(code.tree, variant.context))
        BY <3>1, <3>3, <4>4 DEF Truth
      <4> QED
        BY <1>3, <4>5, UsageRight
    <3> QED
      BY <3>2, <3>3
  <2> QED
    BY <2>1, <2>2
<1> QED
  BY <1>1, <1>2, <1>3

LEMMA DiscountsStep == DiscountsInv /\ [DiscountNext]_discountVars => DiscountsInv'
<1> SUFFICES ASSUME DiscountsInv, [DiscountNext]_discountVars PROVE DiscountsInv'
  OBVIOUS
<1>1. ASSUME verdict' = NoVerdict PROVE TurnedDownForCause' /\ ApplicableIsEarned'
  BY <1>1 DEF TurnedDownForCause, ApplicableIsEarned, NoVerdict
<1>2. CASE PlaceOrder
  <2>1. PICK codes \in {<<"this">>, <<"other">>, <<"gone">>, <<"other", "this">>} :
          orders' = Append(orders, [codes |-> codes, email |-> learner.email])
    BY <1>2 DEF PlaceOrder
  <2>2. PICK o : o = [codes |-> codes, email |-> learner.email]
    OBVIOUS
  <2>3. o \in CodedOrder /\ orders \in Seq(CodedOrder)
    BY <2>2 DEF DiscountsInv, CodedOrder
  <2>4. orders' \in Seq(CodedOrder)
    BY <2>1, <2>2, <2>3
  <2>5. learner' \in [customer : BOOLEAN, email : {"none", "old", "new"}]
    BY <1>2 DEF PlaceOrder, DiscountsInv
  <2>6. code' = code /\ variant' = variant /\ verdict' = NoVerdict
    BY <1>2 DEF PlaceOrder
  <2> QED
    BY <1>1, <2>4, <2>5, <2>6 DEF DiscountsInv
<1>3. CASE ChangeEmail
  <2>1. learner' \in [customer : BOOLEAN, email : {"none", "old", "new"}]
    BY <1>3 DEF ChangeEmail, DiscountsInv
  <2>2. code' = code /\ variant' = variant /\ orders' = orders /\ verdict' = NoVerdict
    BY <1>3 DEF ChangeEmail
  <2> QED
    BY <1>1, <2>1, <2>2 DEF DiscountsInv
<1>4. CASE TimePasses \/ SwitchOff
  <2>1. code' \in CodeType
    BY <1>4 DEF TimePasses, SwitchOff, DiscountsInv, CodeType
  <2>2. learner' = learner /\ variant' = variant /\ orders' = orders /\ verdict' = NoVerdict
    BY <1>4 DEF TimePasses, SwitchOff
  <2> QED
    BY <1>1, <2>1, <2>2 DEF DiscountsInv
<1>5. CASE DiscountCodeInfoView
  <2>1. UNCHANGED <<code, variant, learner, orders>>
    BY <1>5 DEF DiscountCodeInfoView
  <2>2. /\ Valid' = Valid /\ Used' = Used /\ Says' = Says
        /\ Holds(code.tree, variant.context)' = Holds(code.tree, variant.context)
    BY <2>1 DEF Valid, Used, Says
  <2>3. PICK fails :
          \/ verdict' = [view |-> "info", answer |-> "refused"]
          \/ \E usage \in UsageChecked(fails) :
               verdict' = [view |-> "info", answer |-> PredicateChecked(usage, fails)]
    BY <1>5 DEF DiscountCodeInfoView
  <2>4. CASE verdict' = [view |-> "info", answer |-> "refused"]
    BY <2>1, <2>4 DEF DiscountsInv, TurnedDownForCause, ApplicableIsEarned
  <2>5. ASSUME NEW usage \in UsageChecked(fails),
               verdict' = [view |-> "info", answer |-> PredicateChecked(usage, fails)]
        PROVE  DiscountsInv'
    <3>1. verdict'.view = "info" /\ verdict'.answer = PredicateChecked(usage, fails)
      BY <2>5
    <3>2. TurnedDownForCause'
      BY <2>1, <2>2, <3>1, CodeAnswered DEF TurnedDownForCause
    <3>3. ApplicableIsEarned'
      BY <2>1, <2>2, <3>1, CodeAnswered DEF ApplicableIsEarned
    <3> QED
      BY <2>1, <3>2, <3>3 DEF DiscountsInv
  <2> QED
    BY <2>3, <2>4, <2>5
<1>6. CASE FirstTimeDiscountEligibleView
  <2>1. UNCHANGED <<code, variant, learner, orders>> /\ Used' = Used
    BY <1>6 DEF FirstTimeDiscountEligibleView, Used
  <2>2. PICK found \in SUBSET DOMAIN orders :
          \/ verdict' = [view |-> "first", answer |-> "true"]
          \/ \E a \in is_first_time_discount_eligible(found) :
               verdict' = [view |-> "first", answer |-> a]
    BY <1>6 DEF FirstTimeDiscountEligibleView
  <2>3. verdict'.view = "first" /\ (verdict'.answer = "false" => Used)
    BY <2>2, FirstTime
  <2>4. TurnedDownForCause' /\ ApplicableIsEarned'
    BY <2>1, <2>3 DEF TurnedDownForCause, ApplicableIsEarned
  <2> QED
    BY <2>1, <2>4 DEF DiscountsInv
<1>7. CASE UNCHANGED discountVars
  BY <1>7 DEF discountVars, DiscountsInv, TurnedDownForCause, ApplicableIsEarned, Valid, Used, Says
<1> QED
  BY <1>2, <1>3, <1>4, <1>5, <1>6, <1>7 DEF DiscountNext

LEMMA DiscountsInvariant == DiscountsSpec => []DiscountsInv
BY DiscountsBegin, DiscountsStep, PTL DEF DiscountsSpec

\* TurnedDownForCause, whatever codes, predicates and orders there are: a failed
\* lookup or a predicate that raises is never what turns a code down.
THEOREM CodesAreTurnedDownForCause == DiscountsSpec => []TurnedDownForCause
<1>1. DiscountsInv => TurnedDownForCause
  BY DEF DiscountsInv
<1> QED
  BY <1>1, DiscountsInvariant, PTL

\* ApplicableIsEarned, with the same reach.
THEOREM ApplicableCodesAreEarned == DiscountsSpec => []ApplicableIsEarned
<1>1. DiscountsInv => ApplicableIsEarned
  BY DEF DiscountsInv
<1> QED
  BY <1>1, DiscountsInvariant, PTL

-----------------------------------------------------------------------------
(* The components side by side. *)

\* In Answers every component begins, and goes on, as it does by itself.
LEMMA BeginsIdleOrBusy ==
  Init =>
    /\ RefundsIdle \/ RefundsInit
    /\ PredicateIdle \/ PredicateInit
    /\ DiscountsIdle \/ DiscountsInit
    /\ PricesIdle \/ PricesInit
    /\ HistoryIdle \/ HistoryInit
    /\ ReceiptsIdle \/ ReceiptsInit
    /\ SanctionsIdle \/ SanctionsInit
BY DEF Init, Idle

LEMMA GoesOnOrIdles ==
  [Next]_vars =>
    /\ [get_edx_refund_info]_refundVars
    /\ [check]_predicateVars
    /\ [DiscountNext]_discountVars
    /\ [PricesNext]_priceVars
    /\ [HistoryNext]_historyVars
    /\ [ReceiptsNext]_receiptVars
    /\ [SanctionsNext]_sanctionVars
BY DEF Next, vars

\* A behaviour of Answers is one of each of its components.
THEOREM AnswersRunComponents ==
  Spec =>
    /\ RefundsSpec
    /\ PredicateSpec
    /\ DiscountsSpec
    /\ PricesSpec
    /\ HistorySpec
    /\ ReceiptsSpec
    /\ SanctionsSpec
BY BeginsIdleOrBusy, GoesOnOrIdles, PTL
   DEF Spec, RefundsSpec, PredicateSpec, DiscountsSpec, PricesSpec,
       HistorySpec, ReceiptsSpec, SanctionsSpec

\* What a component promises by itself holds of every answer: no view or task
\* that another component runs makes it untrue.
THEOREM EveryAnswerIsRight ==
  Spec =>
    [](/\ RefundsAddUp
       /\ PredicateRight
       /\ TurnedDownForCause
       /\ ApplicableIsEarned
       /\ PricedFromRecentProgram
       /\ DiscountIsOffered
       /\ HistoryComplete
       /\ ReceiptOfPayment
       /\ SanctionEnforced
       /\ DeactivatedForCause)
BY AnswersRunComponents, RefundsComeToPlan, PredicateMeansWhatItSays, CodesAreTurnedDownForCause,
   ApplicableCodesAreEarned, PriceIsOfRecentProgram, DiscountIsThatOffered,
   HistoryIsComplete, ReceiptIsOfPayment, SanctionsAreEnforced, DeactivationHasCause, PTL
=============================================================================
