---------------------------- MODULE NumberLemmas ----------------------------
(***************************************************************************)
(* Numbers, whatever the module they are cited in.                         *)
(*                                                                         *)
(* Induction without a predicate as a parameter: a set of numbers has a    *)
(* least member and, if it is bounded, a greatest one.  From that, two     *)
(* kinds of recursive function satisfy their own equations: one that walks *)
(* up through memory until something stops it, and one that folds a        *)
(* sequence from its first element on.  And division.                      *)
(***************************************************************************)
EXTENDS Integers, Sequences, WellFoundedInduction, TLAPS

\* the order of the numbers, as a relation
Less == {pair \in Nat \X Nat : pair[1] < pair[2]}

LEMMA Elements ==
  ASSUME NEW X, NEW v \in Seq(X)
  PROVE  Len(v) \in Nat /\ \A i \in 1 .. Len(v) : v[i] \in X
  OBVIOUS

LEMMA TailIs ==
  ASSUME NEW N \in Nat, N > 0, NEW g
  PROVE  Tail([n \in 1 .. N |-> g[n]]) = [n \in 1 .. N - 1 |-> g[n + 1]]
  OBVIOUS

(* A set of numbers has a least one.                                       *)
LEMMA Least ==
  ASSUME NEW T, T \subseteq Nat, T # {}
  PROVE  \E x \in T : \A y \in T : x <= y
  <1>1. IsWellFoundedOn(Less, Nat)
    BY NatLessThanWellFounded DEF OpToRel, Less
  <1>2. ASSUME NEW R, IsWellFoundedOn(R, Nat)
        PROVE  \E x \in T : \A y \in T : ~(<<y, x>> \in R)
    BY <1>2, WFMin
  <1>3. PICK x \in T : \A y \in T : ~(<<y, x>> \in Less)
    BY <1>1, <1>2
  <1>4. ASSUME NEW y \in T
        PROVE  x <= y
    <2>1. x \in Nat /\ y \in Nat /\ ~(<<y, x>> \in Less)
      BY <1>3
    <2> QED BY <2>1 DEF Less
  <1> QED BY <1>4

(* A set of numbers with a bound has a greatest one.                       *)
LEMMA Greatest ==
  ASSUME NEW N \in Nat, NEW T, T \subseteq 0 .. N, T # {}
  PROVE  \E x \in T : \A y \in T : y <= x
  <1> DEFINE Mirror == {N - t : t \in T}
  <1>1. Mirror \subseteq Nat
    <2>1. ASSUME NEW t \in T
          PROVE  N - t \in Nat
      OBVIOUS
    <2> QED BY <2>1
  <1>0. Mirror # {}
    OBVIOUS
  <1>2. PICK m \in Mirror : \A n \in Mirror : m <= n
    BY <1>0, <1>1, Least
  <1>3. PICK x \in T : m = N - x
    OBVIOUS
  <1>4. ASSUME NEW y \in T
        PROVE  y <= x
    <2>1. N - x <= N - y
      BY <1>2, <1>3
    <2> QED BY <2>1
  <1> QED BY <1>4

-----------------------------------------------------------------------------
(* A walk up through the addresses 0 .. N: at one of Stop it ends, with    *)
(* the value val has there, and elsewhere it goes on at nxt.               *)

Walked(f, from, N, Stop, val, nxt) ==
  f = [o \in from .. N |-> IF o \in Stop THEN val[o] ELSE f[nxt[o]]]

(* There is such a function.                                               *)
LEMMA WalkExists ==
  ASSUME NEW N \in Nat, NEW Stop, NEW val, NEW nxt,
         \A o \in 0 .. N : o \notin Stop => nxt[o] \in Nat /\ nxt[o] <= N /\ o < nxt[o]
  PROVE  \E f : Walked(f, 0, N, Stop, val, nxt)
  <1> DEFINE Bad == {k \in 0 .. N : ~\E f : Walked(f, k, N, Stop, val, nxt)}
  <1>1. SUFFICES Bad = {}
    <2>1. 0 \notin Bad
      BY <1>1
    <2> QED BY <2>1
  <1>2. SUFFICES ASSUME Bad # {}
                 PROVE  FALSE
    OBVIOUS
  <1>3. PICK k \in Bad : \A j \in Bad : j <= k
    BY <1>2, Greatest
  <1>4. \E g : Walked(g, k + 1, N, Stop, val, nxt)
    <2>1. CASE k = N
      <3>1. Walked([o \in N + 1 .. N |-> 0], N + 1, N, Stop, val, nxt)
        BY DEF Walked
      <3> QED BY <2>1, <3>1
    <2>2. CASE k < N
      <3>1. k + 1 \in 0 .. N /\ k + 1 \notin Bad
        BY <1>3, <2>2
      <3> QED BY <3>1
    <2> QED BY <2>1, <2>2
  <1>5. PICK g : Walked(g, k + 1, N, Stop, val, nxt)
    BY <1>4
  <1> DEFINE f == [o \in k .. N |-> IF o # k THEN g[o]
                                    ELSE IF k \in Stop THEN val[k] ELSE g[nxt[k]]]
  <1>6. ASSUME NEW o \in k .. N
        PROVE  f[o] = IF o \in Stop THEN val[o] ELSE f[nxt[o]]
    <2>1. CASE o \in Stop
      <3>1. CASE o = k
        BY <2>1, <3>1
      <3>2. CASE o # k
        <4>1. o \in k + 1 .. N
          BY <3>2
        <4>2. g[o] = val[o]
          BY <1>5, <2>1, <4>1 DEF Walked
        <4> QED BY <2>1, <3>2, <4>2
      <3> QED BY <3>1, <3>2
    <2>2. CASE o \notin Stop
      <3>1. nxt[o] \in k + 1 .. N
        BY <2>2
      <3>2. f[nxt[o]] = g[nxt[o]]
        BY <3>1
      <3>3. CASE o = k
        BY <2>2, <3>2, <3>3
      <3>4. CASE o # k
        <4>1. o \in k + 1 .. N
          BY <3>4
        <4>2. g[o] = g[nxt[o]]
          BY <1>5, <2>2, <4>1 DEF Walked
        <4> QED BY <2>2, <3>2, <3>4, <4>2
      <3> QED BY <3>3, <3>4
    <2> QED BY <2>1, <2>2
  <1>7. Walked(f, k, N, Stop, val, nxt)
    BY <1>6 DEF Walked
  <1> QED BY <1>3, <1>7

-----------------------------------------------------------------------------
(* A fold of what stands at a + 1 .. N into a value of B, from base on.    *)

Folded(f, a, N, base, op) ==
  f = [i \in a .. N |-> IF i = a THEN base ELSE op[<<f[i - 1], i>>]]

LEMMA FoldTyped ==
  ASSUME NEW a \in Nat, NEW N \in Nat, NEW B, NEW base \in B, NEW op,
         \A x \in B, i \in a + 1 .. N : op[<<x, i>>] \in B,
         NEW f, Folded(f, a, N, base, op)
  PROVE  \A i \in a .. N : f[i] \in B
  <1> DEFINE Bad == {i \in a .. N : f[i] \notin B}
  <1>1. SUFFICES ASSUME Bad # {}
                 PROVE  FALSE
    OBVIOUS
  <1> HIDE DEF Bad
  <1>6. Bad \subseteq Nat
    BY DEF Bad
  <1>2. PICK k \in Bad : \A j \in Bad : k <= j
    BY <1>1, <1>6, Least
  <1> USE DEF Bad
  <1>3. f[k] = IF k = a THEN base ELSE op[<<f[k - 1], k>>]
    BY DEF Folded
  <1>4. CASE k = a
    BY <1>3, <1>4
  <1>5. CASE k # a
    <2>1. k - 1 \in a .. N /\ k - 1 \notin Bad /\ k \in a + 1 .. N
      BY <1>2, <1>5
    <2> QED BY <1>3, <1>5, <2>1
  <1> QED BY <1>4, <1>5

LEMMA FoldExists ==
  ASSUME NEW a \in Nat, NEW N \in Nat, NEW base, NEW op
  PROVE  \E f : Folded(f, a, N, base, op)
  <1> DEFINE Bad == {k \in Nat : ~\E f : Folded(f, a, k, base, op)}
  <1>1. SUFFICES ASSUME Bad # {}
                 PROVE  FALSE
    OBVIOUS
  <1>2. PICK k \in Bad : \A j \in Bad : k <= j
    BY <1>1, Least
  <1>3. CASE k < a
    BY <1>3, Folded([i \in a .. k |-> base], a, k, base, op) DEF Folded
  <1>4. CASE k = a
    BY <1>4, Folded([i \in a .. k |-> base], a, k, base, op) DEF Folded
  <1>5. CASE a < k
    <2>1. k - 1 \in Nat /\ k - 1 \notin Bad
      BY <1>2, <1>5
    <2>2. PICK g : Folded(g, a, k - 1, base, op)
      BY <2>1
    <2> DEFINE f == [i \in a .. k |-> IF i = k THEN op[<<g[k - 1], k>>] ELSE g[i]]
    <2>3. ASSUME NEW i \in a .. k
          PROVE  f[i] = IF i = a THEN base ELSE op[<<f[i - 1], i>>]
      <3>1. CASE i = k
        BY <1>5, <3>1
      <3>2. CASE i # k
        <4>1. i \in a .. k - 1 /\ (i # a => i - 1 \in a .. k - 1)
          BY <3>2
        <4>2. g[i] = IF i = a THEN base ELSE op[<<g[i - 1], i>>]
          BY <2>2, <4>1 DEF Folded
        <4>3. f[i] = g[i] /\ (i # a => f[i - 1] = g[i - 1])
          BY <3>2, <4>1
        <4> QED BY <4>2, <4>3
      <3> QED BY <3>1, <3>2
    <2>4. Folded(f, a, k, base, op)
      BY <2>3 DEF Folded
    <2> QED BY <1>2, <2>4
  <1> QED BY <1>3, <1>4, <1>5

-----------------------------------------------------------------------------
(* Division by a positive number.                                          *)

LEMMA DivMod ==
  ASSUME NEW a \in Int, NEW b \in Nat \ {0}
  PROVE  a \div b \in Int /\ a % b \in 0 .. b - 1 /\ a = b * (a \div b) + (a % b)
  OBVIOUS

LEMMA Times ==
  ASSUME NEW a \in Int, NEW b \in Int, NEW c \in Nat, a <= b
  PROVE  c * a <= c * b
  OBVIOUS

(* The quotient compared with a number.                                    *)
LEMMA AtLeast ==
  ASSUME NEW a \in Int, NEW b \in Nat \ {0}, NEW c \in Int
  PROVE  (b * c <= a => c <= a \div b) /\ (a < b * c => a \div b < c)
  <1> DEFINE q == a \div b
             r == a % b
  <1>1. q \in Int /\ r \in 0 .. b - 1 /\ a = b * q + r
    BY DivMod
  <1> HIDE DEF q, r
  <1>2. b * c \in Int /\ b * q \in Int
    BY <1>1
  <1>3. ASSUME b * c <= a
        PROVE  c <= q
    <2>1. SUFFICES ASSUME q + 1 <= c
                   PROVE  FALSE
      BY <1>1
    <2>2. b * (q + 1) <= b * c
      BY <1>1, <2>1, Times
    <2>3. b * (q + 1) = b * q + b
      BY <1>1
    <2> QED BY <1>1, <1>2, <1>3, <2>2, <2>3
  <1>4. ASSUME a < b * c
        PROVE  q < c
    <2>1. SUFFICES ASSUME c <= q
                   PROVE  FALSE
      BY <1>1
    <2>2. b * c <= b * q
      BY <1>1, <2>1, Times
    <2> QED BY <1>1, <1>2, <1>4, <2>2
  <1> QED BY <1>3, <1>4 DEF q

(* The quotient and the remainder of a natural number.                     *)
LEMMA DivNat ==
  ASSUME NEW a \in Nat, NEW b \in Nat \ {0}
  PROVE  /\ a \div b \in Nat /\ a % b \in Nat /\ a % b <= a
         /\ b * (a \div b) <= a /\ a < b * (a \div b) + b
  <1> DEFINE q == a \div b
             r == a % b
  <1>1. r \in 0 .. b - 1 /\ a = b * q + r
    BY DivMod
  <1>2. q \in Nat
    OBVIOUS
  <1> HIDE DEF q, r
  <1>3. b * q \in Nat
    BY <1>2
  <1>4. r \in Nat /\ r <= a /\ b * q <= a /\ a < b * q + b
    BY <1>1, <1>3
  <1> QED BY <1>2, <1>4 DEF q, r

(* The remainder, from any quotient that leaves one in range.              *)
LEMMA ModIs ==
  ASSUME NEW a \in Int, NEW b \in Nat \ {0}, NEW q \in Int, NEW r \in Int,
         a = b * q + r, 0 <= r, r < b
  PROVE  a % b = r
  <1> DEFINE d == a \div b
             m == a % b
  <1>1. d \in Int /\ m \in 0 .. b - 1 /\ a = b * d + m
    BY DivMod
  <1>2. b * q \in Int /\ b * (q + 1) = b * q + b
    OBVIOUS
  <1>3. q <= d /\ d < q + 1
    BY <1>2, AtLeast
  <1> HIDE DEF d, m
  <1>4. d = q
    BY <1>1, <1>3
  <1>5. m = r
    BY <1>1, <1>2, <1>4
  <1> QED BY <1>5 DEF m

(* Of a range of dividers there is one that leaves the least over, and the *)
(* least of those.                                                         *)
LEMMA LeastOver ==
  ASSUME NEW S, S \subseteq Nat, S # {}, NEW f \in [S -> Nat]
  PROVE  \E p \in S : \A q \in S : f[p] < f[q] \/ (f[p] = f[q] /\ p <= q)
  <1> DEFINE T == {f[p] : p \in S}
  <1>1. T \subseteq Nat /\ T # {}
    OBVIOUS
  <1>2. PICK v \in T : \A w \in T : v <= w
    BY <1>1, Least
  <1> DEFINE U == {p \in S : f[p] = v}
  <1>3. U \subseteq Nat /\ U # {}
    BY <1>2
  <1>4. PICK p \in U : \A q \in U : p <= q
    BY <1>3, Least
  <1>5. ASSUME NEW q \in S
        PROVE  f[p] < f[q] \/ (f[p] = f[q] /\ p <= q)
    <2>1. f[p] = v /\ f[p] \in Nat /\ f[q] \in Nat /\ v <= f[q]
      BY <1>2, <1>4
    <2>2. CASE f[q] = v
      BY <1>4, <2>1, <2>2
    <2>3. CASE f[q] # v
      BY <2>1, <2>3
    <2> QED BY <2>2, <2>3
  <1> QED BY <1>4, <1>5
=============================================================================
