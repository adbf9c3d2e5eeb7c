------------------------- MODULE SignOnCrypto_proofs --------------------------
(***************************************************************************)
(* The algebra of a sign-on, for every prime order, every threshold and    *)
(* number of nodes, and any hashes.                                        *)
(*                                                                         *)
(* A sharing is a polynomial a of K coefficients, and a share its value.   *)
(* With Lambda(i) the product of j / (j - i) over the other ids,           *)
(*   - the sum of Lambda(i) times a power e of i is 1 for e = 0 and 0 for  *)
(*     every e below the number of ids (CoefficientsSum, Moments), which   *)
(*     partial fractions show an id at a time (ExpandsAlways),             *)
(*   - so that the weighted shares of K ids or more make the first         *)
(*     coefficient (Interpolation), multiplied by what multiplies them     *)
(*     (WeightedShares): the blinded point, or the challenge,              *)
(*   - while the product of the 1 - x / i over fewer ids than K is a       *)
(*     polynomial that can be added without changing their shares, to      *)
(*     make the first coefficient any other (Kernel, OpenBelow).           *)
(* Both libraries compute Lambda: their inverses are those of the field    *)
(* (InvertIsInv by Fermat's theorem, ModInverseIsInv by Euclid), their     *)
(* products and sums the ones used here (FrostCoefficient,                 *)
(* ShamirCoefficient, ShareAtIsValue, HornerIsValue).                      *)
(***************************************************************************)
EXTENDS SignOnCrypto, FiniteSetTheorems, TLAPS

-------------------------------------------------------------------------------
(***************************************************************************)
(* Induction and recursion, without operators for parameters: a statement  *)
(* about a number is a set of numbers, a step is a function.               *)
(***************************************************************************)

\* A set that holds zero and with each number the next holds them all: else n |-> n + 1
\* would be an injection of a finite part of it into itself that misses zero.
LEMMA Induction ==
  ASSUME NEW S, 0 \in S, \A n \in Nat : n \in S => n + 1 \in S
  PROVE  Nat \subseteq S
<1>1. SUFFICES ASSUME NEW x \in Nat, x \notin S PROVE FALSE
  OBVIOUS
<1> DEFINE A == S \cap (0 .. x)
           f == [n \in A |-> n + 1]
<1>2. IsFiniteSet(A)
  <2>1. 0 \in Int /\ x \in Int /\ A \in SUBSET (0 .. x)
    OBVIOUS
  <2> QED
    BY <2>1, FS_Interval, FS_Subset
<1>3. \A n \in A : n + 1 \in A /\ n + 1 # 0
  BY <1>1
<1>4. f \in Injection(A, A)
  BY <1>3 DEF Injection, IsInjective
<1>5. f \in Surjection(A, A)
  BY <1>2, <1>4, FS_Injection
<1>6. 0 \in A
  BY <1>1
<1>7. \E n \in A : f[n] = 0
  BY <1>5, <1>6 DEF Surjection
<1> QED
  BY <1>3, <1>7

\* A set of natural numbers has a least one.
LEMMA Least ==
  ASSUME NEW T, T \subseteq Nat, T # {}
  PROVE  \E x \in T : \A y \in T : x <= y
<1> DEFINE S == {n \in Nat : \A y \in T : n <= y}
<1>1. SUFFICES ASSUME \A x \in T : x \notin S PROVE FALSE
  OBVIOUS
<1>2. 0 \in S
  OBVIOUS
<1>3. ASSUME NEW n \in Nat, n \in S PROVE n + 1 \in S
  <2>1. n \notin T
    BY <1>1, <1>3
  <2>2. \A y \in T : y \in Nat /\ n <= y /\ n # y
    BY <2>1, <1>3
  <2>3. \A y \in T : n + 1 <= y
    BY <2>2
  <2> QED
    BY <2>3
<1>4. Nat \subseteq S
  <2> HIDE DEF S
  <2> QED
    BY <1>2, <1>3, Induction
<1>5. PICK y \in T : y \in Nat
  OBVIOUS
<1> QED
  BY <1>1, <1>4, <1>5

\* A value for zero and a step from each value to the next make a sequence of values.
Iterates(f, N, V, base, step) ==
  /\ f \in [0 .. N -> V]
  /\ f[0] = base
  /\ \A k \in 1 .. N : f[k] = step[<<k, f[k - 1]>>]

\* Every start and step have their sequence.
LEMMA Recursion ==
  ASSUME NEW N \in Nat, NEW V, NEW base \in V, NEW step,
         \A k \in 1 .. N, v \in V : step[<<k, v>>] \in V
  PROVE  \E f : Iterates(f, N, V, base, step)
<1> DEFINE Upto(n) == \E f \in [0 .. n -> V] :
             f[0] = base /\ \A k \in 1 .. n : f[k] = step[<<k, f[k - 1]>>]
           S == {n \in Nat : n <= N => Upto(n)}
<1>1. 0 \in S
  <2> DEFINE f == [k \in 0 .. 0 |-> base]
  <2>1. f \in [0 .. 0 -> V] /\ f[0] = base /\ \A k \in 1 .. 0 : FALSE
    OBVIOUS
  <2>2. Upto(0)
    <3> HIDE DEF f
    <3> QED
      BY <2>1
  <2> QED
    BY <2>2
<1>2. ASSUME NEW n \in Nat, n \in S PROVE n + 1 \in S
  <2>1. SUFFICES ASSUME n + 1 <= N PROVE Upto(n + 1)
    OBVIOUS
  <2>2. PICK f \in [0 .. n -> V] :
          f[0] = base /\ \A k \in 1 .. n : f[k] = step[<<k, f[k - 1]>>]
    BY <1>2, <2>1
  <2> DEFINE v == step[<<n + 1, f[n]>>]
             g == [k \in 0 .. n + 1 |-> IF k <= n THEN f[k] ELSE v]
  <2>3. v \in V
    BY <2>1
  <2>4. g \in [0 .. n + 1 -> V]
    BY <2>3
  <2>5. g[0] = base /\ g[n + 1] = v /\ \A k \in 0 .. n : g[k] = f[k]
    BY <2>2
  <2>6. ASSUME NEW k \in 1 .. n + 1 PROVE g[k] = step[<<k, g[k - 1]>>]
    <3>1. CASE k = n + 1
      <4>1. k - 1 = n /\ n \in 0 .. n
        BY <3>1
      <4>2. g[k - 1] = f[n]
        BY <4>1, <2>5
      <4> QED
        BY <3>1, <4>2, <2>5
    <3>2. CASE k \in 1 .. n
      BY <3>2, <2>2, <2>5
    <3> QED
      BY <3>1, <3>2
  <2> HIDE DEF g
  <2> QED
    BY <2>4, <2>5, <2>6
<1>3. Nat \subseteq S
  <2> HIDE DEF S
  <2> QED
    BY <1>1, <1>2, Induction
<1>4. Upto(N)
  <2> HIDE DEF Upto
  <2> QED
    BY <1>3
<1> QED
  BY <1>4 DEF Iterates

-------------------------------------------------------------------------------
(***************************************************************************)
(* Arithmetic modulo Order.  Two numbers are congruent when their Mod is   *)
(* the same, so that equality does the bookkeeping.                        *)
(***************************************************************************)

\* What is needed of Order besides that it is prime.
LEMMA OrderFacts == Order \in Nat /\ Order > 1
  BY OrderAssumption

\* A number is a multiple of Order and its remainder.
LEMMA ModSplits ==
  ASSUME NEW a \in Int
  PROVE  Mod(a) \in Scalar /\ \E q \in Int : a = q * Order + Mod(a)
<1>1. /\ Mod(a) \in 0 .. Order - 1 /\ a \div Order \in Int
      /\ a = (a \div Order) * Order + Mod(a)
  BY OrderFacts DEF Mod
<1> QED
  BY <1>1 DEF Scalar

\* There is one remainder only.
LEMMA Remainder ==
  ASSUME NEW a \in Int, NEW q \in Int, NEW r \in Scalar, a = q * Order + r
  PROVE  Mod(a) = r
<1>1. PICK p \in Int : a = p * Order + Mod(a)
  BY ModSplits
<1>2. Mod(a) \in 0 .. Order - 1 /\ r \in 0 .. Order - 1
  BY ModSplits DEF Scalar
<1>3. (p - q) * Order = r - Mod(a)
  BY <1>1, <1>2, OrderFacts
<1>4. ~(p - q >= 1) /\ ~(p - q <= -1)
  <2>1. CASE p - q >= 1
    <3>1. (p - q) * Order >= Order
      BY <2>1, OrderFacts
    <3> QED
      BY <3>1, <1>3, <1>2, OrderFacts
  <2>2. CASE p - q <= -1
    <3>1. (p - q) * Order <= -Order
      BY <2>2, OrderFacts
    <3> QED
      BY <3>1, <1>3, <1>2, OrderFacts
  <2> QED
    BY <2>1, <2>2
<1>5. p = q
  BY <1>4
<1> QED
  BY <1>1, <1>2, <1>5, OrderFacts

\* Scalars are integers, zero and one among them.
LEMMA ScalarIsInt == Scalar \subseteq Int /\ NonZero \subseteq Scalar /\ 0 \in Scalar /\ 1 \in Scalar
  BY OrderFacts DEF Scalar, NonZero

\* A scalar is its own remainder.
LEMMA ModOfScalar == ASSUME NEW a \in Scalar PROVE Mod(a) = a
<1>1. a \in Int /\ a = 0 * Order + a
  BY OrderFacts DEF Scalar
<1> QED
  BY <1>1, Remainder

\* Mod makes scalars.
LEMMA ModType == \A a \in Int : Mod(a) \in Scalar /\ Mod(a) \in Int
  BY ModSplits, ScalarIsInt

\* Multiples of Order do not matter.
LEMMA ModShift ==
  ASSUME NEW a \in Int, NEW q \in Int
  PROVE  Mod(a + q * Order) = Mod(a)
<1>1. PICK p \in Int : a = p * Order + Mod(a)
  BY ModSplits
<1>2. Mod(a) \in Int
  BY ModType
<1>3. a + q * Order = (p + q) * Order + Mod(a)
  BY <1>1, <1>2, OrderFacts
<1>4. a + q * Order \in Int /\ p + q \in Int
  BY OrderFacts
<1> QED
  BY <1>3, <1>4, ModType, Remainder

\* Reducing twice is reducing once.
LEMMA ModMod == ASSUME NEW a \in Int PROVE Mod(Mod(a)) = Mod(a)
  BY ModType, ModOfScalar

\* Congruent numbers differ by a multiple of Order.
LEMMA CongruentBy ==
  ASSUME NEW a \in Int, NEW b \in Int, Mod(a) = Mod(b)
  PROVE  \E q \in Int : a = b + q * Order
<1>1. PICK p \in Int : a = p * Order + Mod(a)
  BY ModSplits
<1>2. PICK r \in Int : b = r * Order + Mod(b)
  BY ModSplits
<1>3. Mod(a) \in Int
  BY ModType
<1>4. a = b + (p - r) * Order
  BY <1>1, <1>2, <1>3, OrderFacts
<1> QED
  BY <1>4

\* Sums of congruent numbers are congruent.
LEMMA ModAdd ==
  ASSUME NEW a \in Int, NEW b \in Int, NEW c \in Int, NEW d \in Int,
         Mod(a) = Mod(b), Mod(c) = Mod(d)
  PROVE  Mod(a + c) = Mod(b + d) /\ Mod(a - c) = Mod(b - d)
<1>1. PICK p \in Int : a = b + p * Order
  BY CongruentBy
<1>2. PICK q \in Int : c = d + q * Order
  BY CongruentBy
<1>3. a + c = (b + d) + (p + q) * Order /\ a - c = (b - d) + (p - q) * Order
  BY <1>1, <1>2, OrderFacts
<1>4. b + d \in Int /\ p + q \in Int /\ b - d \in Int /\ p - q \in Int
  OBVIOUS
<1> QED
  BY <1>3, <1>4, ModShift

\* And so are their products.
LEMMA ModMul ==
  ASSUME NEW a \in Int, NEW b \in Int, NEW c \in Int, NEW d \in Int,
         Mod(a) = Mod(b), Mod(c) = Mod(d)
  PROVE  Mod(a * c) = Mod(b * d)
<1>1. PICK p \in Int : a = b + p * Order
  BY CongruentBy
<1>2. PICK q \in Int : c = d + q * Order
  BY CongruentBy
<1>3. a * c = b * d + (b * q + p * d + p * q * Order) * Order
  BY <1>1, <1>2, OrderFacts
<1>4. b * d \in Int /\ b * q + p * d + p * q * Order \in Int
  BY OrderFacts
<1> QED
  BY <1>3, <1>4, ModShift

\* A factor may be replaced by a congruent one.
LEMMA ModTimes ==
  ASSUME NEW a \in Int, NEW c \in Int, NEW d \in Int, Mod(c) = Mod(d)
  PROVE  Mod(a * c) = Mod(a * d) /\ Mod(c * a) = Mod(d * a)
<1>1. PICK q \in Int : c = d + q * Order
  BY CongruentBy
<1>2. a * c = a * d + (a * q) * Order
  BY <1>1, OrderFacts
<1>3. a * d \in Int /\ a * q \in Int
  OBVIOUS
<1>4. Mod(a * c) = Mod(a * d)
  BY <1>2, <1>3, ModShift
<1>5. c * a = a * c /\ d * a = a * d
  OBVIOUS
<1> QED
  BY <1>4, <1>5

\* So may a term of a sum or difference.
LEMMA ModPlus ==
  ASSUME NEW a \in Int, NEW c \in Int, NEW d \in Int, Mod(c) = Mod(d)
  PROVE  /\ Mod(a + c) = Mod(a + d) /\ Mod(c + a) = Mod(d + a)
         /\ Mod(a - c) = Mod(a - d) /\ Mod(c - a) = Mod(d - a)
<1>1. PICK q \in Int : c = d + q * Order
  BY CongruentBy
<1>2. /\ a + c = (a + d) + q * Order /\ c + a = (d + a) + q * Order
      /\ a - c = (a - d) + (-q) * Order /\ c - a = (d - a) + q * Order
  BY <1>1, OrderFacts
<1>3. a + d \in Int /\ d + a \in Int /\ a - d \in Int /\ d - a \in Int /\ -q \in Int
  OBVIOUS
<1> QED
  BY <1>2, <1>3, ModShift

\* A number may be reduced at any time.
LEMMA ModInside ==
  ASSUME NEW a \in Int, NEW b \in Int
  PROVE  /\ Mod(Mod(a) + b) = Mod(a + b) /\ Mod(b + Mod(a)) = Mod(b + a)
         /\ Mod(Mod(a) * b) = Mod(a * b) /\ Mod(b * Mod(a)) = Mod(b * a)
<1>1. Mod(a) \in Int /\ Mod(Mod(a)) = Mod(a) /\ Mod(b) = Mod(b)
  BY ModType, ModMod
<1>2. Mod(Mod(a) + b) = Mod(a + b) /\ Mod(b + Mod(a)) = Mod(b + a)
  BY <1>1, ModPlus
<1> QED
  BY <1>1, <1>2, ModTimes

\* Both operands may be reduced first.
LEMMA ModBoth ==
  ASSUME NEW a \in Int, NEW b \in Int
  PROVE  Mod(Mod(a) + Mod(b)) = Mod(a + b) /\ Mod(Mod(a) * Mod(b)) = Mod(a * b)
<1>1. PICK c \in Int : c = Mod(b)
  BY ModType
<1>2. Mod(Mod(a) + c) = Mod(a + c) /\ Mod(Mod(a) * c) = Mod(a * c)
  BY ModInside
<1>3. Mod(a + c) = Mod(a + b) /\ Mod(a * c) = Mod(a * b)
  BY <1>1, ModInside
<1> QED
  BY <1>1, <1>2, <1>3

\* ModTimes and ModPlus, in the forms the provers can instantiate.
LEMMA TimesSame ==
  ASSUME NEW a \in Int, NEW c \in Int, NEW d \in Int, Mod(c) = Mod(d)
  PROVE  Mod(a * c) = Mod(a * d)
BY ModTimes

\* The same of a sum.
LEMMA PlusSame ==
  ASSUME NEW a \in Int, NEW c \in Int, NEW d \in Int, Mod(c) = Mod(d)
  PROVE  Mod(a + c) = Mod(a + d)
BY ModPlus

SamePlus(a, c, d) == Mod(a + c) = Mod(a + d)

\* The same, by name.
LEMMA PlusBoth ==
  ASSUME NEW a \in Int, NEW c \in Int, NEW d \in Int, Mod(c) = Mod(d)
  PROVE  SamePlus(a, c, d)
BY ModPlus DEF SamePlus
\* Order has no factor: what is left of it after a smaller number is not zero.
LEMMA NoFactor ==
  ASSUME NEW m \in NonZero, m # 1
  PROVE  \E q \in Int, r \in 1 .. m - 1 : Order = q * m + r
<1>1. m \in 2 .. Order - 1 /\ m \in Nat \ {0}
  BY OrderFacts DEF NonZero
<1>2. Order % m # 0
  BY <1>1, OrderAssumption
<1>3. Order \div m \in Int /\ Order % m \in 0 .. m - 1 /\ Order = (Order \div m) * m + (Order % m)
  BY <1>1, OrderFacts
<1>4. Order % m \in 1 .. m - 1
  BY <1>1, <1>2, <1>3
<1>5. PICK q \in Int : q = Order \div m
  BY <1>3
<1>6. PICK r \in 1 .. m - 1 : r = Order % m
  BY <1>4
<1> QED
  BY <1>3, <1>5, <1>6

\* Every scalar but zero has an inverse: of the multiples of a the least that is not zero
\* divides Order, so it is one.
LEMMA InverseExists ==
  ASSUME NEW a \in Int, Mod(a) # 0
  PROVE  \E b \in Scalar : Mod(a * b) = 1
<1> DEFINE T == {k \in NonZero : \E x \in Int : Mod(a * x) = k}
<1>1. Mod(a) \in T
  <2>1. Mod(a) \in NonZero
    BY ModType, OrderFacts DEF Scalar, NonZero
  <2>2. a * 1 = a /\ 1 \in Int
    OBVIOUS
  <2> QED
    BY <2>1, <2>2
<1>2. T \subseteq Nat
  BY OrderFacts DEF NonZero
<1>3. PICK m \in T : \A k \in T : m <= k
  <2> HIDE DEF T
  <2> QED
    BY <1>1, <1>2, Least
<1>4. PICK x \in Int : Mod(a * x) = m
  BY <1>3
<1>5. m = 1
  <2>1. SUFFICES ASSUME m # 1 PROVE FALSE
    OBVIOUS
  <2>2. m \in NonZero /\ m \in Int
    BY <1>3, ScalarIsInt
  <2>3. PICK q \in Int, r \in 1 .. m - 1 : Order = q * m + r
    BY <2>1, <2>2, NoFactor
  <2>4. r \in NonZero /\ r \in Scalar /\ r \in Int /\ ~(m <= r)
    BY <2>2, <2>3, OrderFacts DEF NonZero, Scalar
  <2>5. Mod(m) = m
    BY <2>2, ScalarIsInt, ModOfScalar
  <2>6. Mod((a * x) * (-q)) = Mod(m * (-q))
    <3>1. a * x \in Int /\ -q \in Int
      OBVIOUS
    <3> QED
      BY <3>1, <2>2, <2>5, <1>4, ModTimes
  <2>7. m * (-q) = r + (-1) * Order
    BY <2>2, <2>3, <2>4, OrderFacts
  <2>8. Mod(m * (-q)) = r
    BY <2>4, <2>7, ModShift, ModOfScalar
  <2>9. (a * x) * (-q) = a * (x * (-q)) /\ x * (-q) \in Int
    OBVIOUS
  <2>10. r \in T
    BY <2>4, <2>6, <2>8, <2>9
  <2> QED
    BY <2>4, <2>10, <1>3
<1>6. Mod(a * Mod(x)) = Mod(a * x)
  BY ModType, ModMod, ModMul
<1> QED
  BY <1>4, <1>5, <1>6, ModType

\* The inverse, whichever way it is computed.
Inv(a) == CHOOSE b \in Scalar : Mod(a * b) = 1

\* The inverse is a scalar and an inverse.
LEMMA InvType ==
  ASSUME NEW a \in Int, Mod(a) # 0
  PROVE  Inv(a) \in Scalar /\ Inv(a) \in Int /\ Mod(a * Inv(a)) = 1
  BY InverseExists, ScalarIsInt DEF Inv

\* A factor that is not zero cancels.
LEMMA Cancel ==
  ASSUME NEW a \in Int, NEW b \in Int, NEW c \in Int, Mod(a) # 0, Mod(a * b) = Mod(a * c)
  PROVE  Mod(b) = Mod(c)
<1> DEFINE i == Inv(a)
<1>1. i \in Int /\ Mod(a * i) = Mod(1)
  BY InvType, ScalarIsInt, ModOfScalar
<1> HIDE DEF i
<1>2. ASSUME NEW d \in Int PROVE Mod(i * (a * d)) = Mod(d)
  <2>1. Mod((a * i) * d) = Mod(1 * d)
    <3>1. a * i \in Int
      BY <1>1
    <3> QED
      BY <3>1, <1>1, ModMul
  <2>2. (a * i) * d = i * (a * d) /\ 1 * d = d
    BY <1>1
  <2> QED
    BY <2>1, <2>2
<1>3. Mod(i * (a * b)) = Mod(i * (a * c))
  <2>1. a * b \in Int /\ a * c \in Int
    OBVIOUS
  <2> QED
    BY <2>1, <1>1, ModTimes
<1> QED
  BY <1>2, <1>3

\* Order has no zero divisors.
LEMMA ProductNotZero ==
  ASSUME NEW a \in Int, NEW b \in Int, Mod(a) # 0, Mod(b) # 0
  PROVE  Mod(a * b) # 0
<1>1. SUFFICES ASSUME Mod(a * b) = Mod(a * 0) PROVE FALSE
  <2>1. a * 0 = 0 /\ Mod(0) = 0
    BY ScalarIsInt, ModOfScalar
  <2> QED
    BY <2>1
<1>2. Mod(b) = Mod(0)
  BY <1>1, Cancel
<1> QED
  BY <1>2, ScalarIsInt, ModOfScalar

\* There is one inverse only.
LEMMA InvUnique ==
  ASSUME NEW a \in Int, NEW b \in Scalar, Mod(a) # 0, Mod(a * b) = 1
  PROVE  b = Inv(a)
<1>1. Mod(b) = Mod(Inv(a))
  BY InvType, ScalarIsInt, Cancel
<1> QED
  BY <1>1, InvType, ModOfScalar

\* Different scalars differ modulo Order, too.
LEMMA DifferenceNotZero ==
  ASSUME NEW a \in Scalar, NEW b \in Scalar, a # b
  PROVE  Mod(a - b) # 0
<1>1. SUFFICES ASSUME Mod(a - b) = Mod(0) PROVE FALSE
  BY ScalarIsInt, ModOfScalar
<1>2. Mod((a - b) + b) = Mod(0 + b)
  <2>1. a - b \in Int /\ b \in Int /\ 0 \in Int
    BY ScalarIsInt
  <2> QED
    BY <2>1, <1>1, ModAdd
<1>3. (a - b) + b = a /\ 0 + b = b
  BY ScalarIsInt
<1> QED
  BY <1>2, <1>3, ModOfScalar

-------------------------------------------------------------------------------
(***************************************************************************)
(* Sums and products of sequences, one element at a time.                  *)
(***************************************************************************)

\* A function on the first n numbers has length n.
LEMMA LengthOf ==
  ASSUME NEW n \in Nat, NEW f, DOMAIN f = 1 .. n, f = [k \in 1 .. n |-> f[k]]
  PROVE  Len(f) = n
<1>1. f \in Seq({f[k] : k \in 1 .. n})
  OBVIOUS
<1> QED
  BY <1>1

PartialSums(s, f, N) ==
  /\ s \in [0 .. N -> Scalar]
  /\ s[0] = 0
  /\ \A k \in 1 .. N : s[k] = Mod(s[k - 1] + f[k])

\* The sums that SumOf goes through.
LEMMA SumRecursion ==
  ASSUME NEW N \in Nat, NEW f \in [1 .. N -> Int]
  PROVE  \E s : PartialSums(s, f, N) /\ SumOf(f) = s[N]
<1> DEFINE Def(s) == [k \in 0 .. N |-> IF k = 0 THEN 0 ELSE Mod(s[k - 1] + f[k])]
<1>1. \A k \in 1 .. N, v \in Scalar : Mod(v + f[k]) \in Scalar
  <2>1. \A k \in 1 .. N, v \in Scalar : v + f[k] \in Int
    BY ScalarIsInt
  <2> QED
    BY <2>1, ModType
<1>2. PICK step : \A k \in 1 .. N, v \in Scalar : step[<<k, v>>] = Mod(v + f[k])
  <2> DEFINE step == [p \in (1 .. N) \X Scalar |-> Mod(p[2] + f[p[1]])]
  <2>1. \A k \in 1 .. N, v \in Scalar : step[<<k, v>>] = Mod(v + f[k])
    OBVIOUS
  <2> QED
    BY <2>1
<1>3. PICK t : Iterates(t, N, Scalar, 0, step)
  <2>1. 0 \in Scalar
    BY ScalarIsInt
  <2>2. \A k \in 1 .. N, v \in Scalar : step[<<k, v>>] \in Scalar
    BY <1>1, <1>2
  <2> QED
    BY <2>1, <2>2, Recursion
<1>4. \A k \in 1 .. N : t[k] = Mod(t[k - 1] + f[k])
  <2>1. \A k \in 1 .. N : t[k - 1] \in Scalar
    BY <1>3 DEF Iterates
  <2> QED
    BY <2>1, <1>2, <1>3 DEF Iterates
<1>5. t = Def(t)
  <2>1. \A k \in 0 .. N : t[k] = IF k = 0 THEN 0 ELSE Mod(t[k - 1] + f[k])
    BY <1>3, <1>4 DEF Iterates
  <2> QED
    BY <2>1, <1>3 DEF Iterates
<1>6. PICK s : s = Def(s) /\ SumOf(f) = s[N]
  <2> DEFINE s == CHOOSE g : g = Def(g)
  <2>1. s = Def(s)
    BY <1>5
  <2>2. Len(f) = N
    BY LengthOf
  <2> QED
    BY <2>1, <2>2 DEF SumOf
<1>7. s[0] = 0 /\ (\A k \in 1 .. N : s[k] = Mod(s[k - 1] + f[k])) /\ s = [k \in 0 .. N |-> s[k]]
  BY <1>6
<1> DEFINE S == {n \in Nat : n <= N => s[n] \in Scalar}
<1>8. 0 \in S
  BY <1>7, ScalarIsInt
<1>9. ASSUME NEW n \in Nat, n \in S PROVE n + 1 \in S
  <2>1. SUFFICES ASSUME n + 1 <= N PROVE s[n + 1] \in Scalar
    OBVIOUS
  <2>2. n + 1 \in 1 .. N /\ (n + 1) - 1 = n /\ s[n] \in Scalar
    BY <1>9, <2>1
  <2>3. s[n + 1] = Mod(s[n] + f[n + 1])
    BY <1>7, <2>2
  <2> QED
    BY <1>1, <2>2, <2>3
<1>10. Nat \subseteq S
  <2> HIDE DEF S
  <2> QED
    BY <1>8, <1>9, Induction
<1>11. s \in [0 .. N -> Scalar]
  <2>1. \A k \in 0 .. N : s[k] \in Scalar
    BY <1>10
  <2> QED
    BY <2>1, <1>7
<1> QED
  BY <1>6, <1>7, <1>11 DEF PartialSums

\* They are determined by what is summed.
LEMMA SumUnique ==
  ASSUME NEW N \in Nat, NEW n \in 0 .. N, NEW f, NEW g, NEW s, NEW t,
         PartialSums(s, f, N), PartialSums(t, g, n), \A k \in 1 .. n : f[k] = g[k]
  PROVE  s[n] = t[n]
<1> DEFINE S == {k \in Nat : k <= n => s[k] = t[k]}
<1>1. 0 \in S
  BY DEF PartialSums
<1>2. ASSUME NEW k \in Nat, k \in S PROVE k + 1 \in S
  <2>1. SUFFICES ASSUME k + 1 <= n PROVE s[k + 1] = t[k + 1]
    OBVIOUS
  <2>2. k + 1 \in 1 .. n /\ k + 1 \in 1 .. N /\ (k + 1) - 1 = k /\ s[k] = t[k]
    BY <1>2, <2>1
  <2>3. s[k + 1] = Mod(s[k] + f[k + 1]) /\ t[k + 1] = Mod(t[k] + g[k + 1])
    BY <2>2 DEF PartialSums
  <2> QED
    BY <2>2, <2>3
<1>3. Nat \subseteq S
  <2> HIDE DEF S
  <2> QED
    BY <1>1, <1>2, Induction
<1> QED
  BY <1>3

\* The sum of the first n.
Sum(f, n) == SumOf([k \in 1 .. n |-> f[k]])

\* How sums start and go on.
LEMMA SumSteps ==
  ASSUME NEW N \in Nat, NEW f \in [1 .. N -> Int]
  PROVE  /\ Sum(f, N) = SumOf(f) /\ Sum(f, 0) = 0
         /\ \A n \in 0 .. N : Sum(f, n) \in Scalar
         /\ \A n \in 1 .. N : Sum(f, n) = Mod(Sum(f, n - 1) + f[n])
<1>1. PICK s : PartialSums(s, f, N) /\ SumOf(f) = s[N]
  BY SumRecursion
<1>2. ASSUME NEW n \in 0 .. N PROVE Sum(f, n) = s[n]
  <2>1. PICK g : g = [k \in 1 .. n |-> f[k]]
    OBVIOUS
  <2>2. g \in [1 .. n -> Int] /\ n \in Nat /\ \A k \in 1 .. n : f[k] = g[k]
    BY <2>1
  <2>3. PICK t : PartialSums(t, g, n) /\ SumOf(g) = t[n]
    BY <2>2, SumRecursion
  <2>4. s[n] = t[n]
    BY <1>1, <2>2, <2>3, SumUnique
  <2> QED
    BY <2>1, <2>3, <2>4 DEF Sum
<1>3. \A n \in 1 .. N : n - 1 \in 0 .. N /\ n \in 0 .. N
  OBVIOUS
<1> QED
  BY <1>1, <1>2, <1>3 DEF PartialSums

PartialProducts(s, f, N) ==
  /\ s \in [0 .. N -> Scalar]
  /\ s[0] = 1
  /\ \A k \in 1 .. N : s[k] = Mod(s[k - 1] * f[k])

\* The products that ProductOf goes through.
LEMMA ProductRecursion ==
  ASSUME NEW N \in Nat, NEW f \in [1 .. N -> Int]
  PROVE  \E s : PartialProducts(s, f, N) /\ ProductOf(f) = s[N]
<1> DEFINE Def(s) == [k \in 0 .. N |-> IF k = 0 THEN 1 ELSE Mod(s[k - 1] * f[k])]
<1>1. \A k \in 1 .. N, v \in Scalar : Mod(v * f[k]) \in Scalar
  <2>1. \A k \in 1 .. N, v \in Scalar : v * f[k] \in Int
    BY ScalarIsInt
  <2> QED
    BY <2>1, ModType
<1>2. PICK step : \A k \in 1 .. N, v \in Scalar : step[<<k, v>>] = Mod(v * f[k])
  <2> DEFINE step == [p \in (1 .. N) \X Scalar |-> Mod(p[2] * f[p[1]])]
  <2>1. \A k \in 1 .. N, v \in Scalar : step[<<k, v>>] = Mod(v * f[k])
    OBVIOUS
  <2> QED
    BY <2>1
<1>3. PICK t : Iterates(t, N, Scalar, 1, step)
  <2>1. 1 \in Scalar
    BY ScalarIsInt
  <2>2. \A k \in 1 .. N, v \in Scalar : step[<<k, v>>] \in Scalar
    BY <1>1, <1>2
  <2> QED
    BY <2>1, <2>2, Recursion
<1>4. \A k \in 1 .. N : t[k] = Mod(t[k - 1] * f[k])
  <2>1. \A k \in 1 .. N : t[k - 1] \in Scalar
    BY <1>3 DEF Iterates
  <2> QED
    BY <2>1, <1>2, <1>3 DEF Iterates
<1>5. t = Def(t)
  <2>1. \A k \in 0 .. N : t[k] = IF k = 0 THEN 1 ELSE Mod(t[k - 1] * f[k])
    BY <1>3, <1>4 DEF Iterates
  <2> QED
    BY <2>1, <1>3 DEF Iterates
<1>6. PICK s : s = Def(s) /\ ProductOf(f) = s[N]
  <2> DEFINE s == CHOOSE g : g = Def(g)
  <2>1. s = Def(s)
    BY <1>5
  <2>2. Len(f) = N
    BY LengthOf
  <2> QED
    BY <2>1, <2>2 DEF ProductOf
<1>7. s[0] = 1 /\ (\A k \in 1 .. N : s[k] = Mod(s[k - 1] * f[k])) /\ s = [k \in 0 .. N |-> s[k]]
  BY <1>6
<1> DEFINE S == {n \in Nat : n <= N => s[n] \in Scalar}
<1>8. 0 \in S
  BY <1>7, ScalarIsInt
<1>9. ASSUME NEW n \in Nat, n \in S PROVE n + 1 \in S
  <2>1. SUFFICES ASSUME n + 1 <= N PROVE s[n + 1] \in Scalar
    OBVIOUS
  <2>2. n + 1 \in 1 .. N /\ (n + 1) - 1 = n /\ s[n] \in Scalar
    BY <1>9, <2>1
  <2>3. s[n + 1] = Mod(s[n] * f[n + 1])
    BY <1>7, <2>2
  <2> QED
    BY <1>1, <2>2, <2>3
<1>10. Nat \subseteq S
  <2> HIDE DEF S
  <2> QED
    BY <1>8, <1>9, Induction
<1>11. s \in [0 .. N -> Scalar]
  <2>1. \A k \in 0 .. N : s[k] \in Scalar
    BY <1>10
  <2> QED
    BY <2>1, <1>7
<1> QED
  BY <1>6, <1>7, <1>11 DEF PartialProducts

\* They are determined by the factors.
LEMMA ProductUnique ==
  ASSUME NEW N \in Nat, NEW n \in 0 .. N, NEW f, NEW g, NEW s, NEW t,
         PartialProducts(s, f, N), PartialProducts(t, g, n), \A k \in 1 .. n : f[k] = g[k]
  PROVE  s[n] = t[n]
<1> DEFINE S == {k \in Nat : k <= n => s[k] = t[k]}
<1>1. 0 \in S
  BY DEF PartialProducts
<1>2. ASSUME NEW k \in Nat, k \in S PROVE k + 1 \in S
  <2>1. SUFFICES ASSUME k + 1 <= n PROVE s[k + 1] = t[k + 1]
    OBVIOUS
  <2>2. k + 1 \in 1 .. n /\ k + 1 \in 1 .. N /\ (k + 1) - 1 = k /\ s[k] = t[k]
    BY <1>2, <2>1
  <2>3. s[k + 1] = Mod(s[k] * f[k + 1]) /\ t[k + 1] = Mod(t[k] * g[k + 1])
    BY <2>2 DEF PartialProducts
  <2> QED
    BY <2>2, <2>3
<1>3. Nat \subseteq S
  <2> HIDE DEF S
  <2> QED
    BY <1>1, <1>2, Induction
<1> QED
  BY <1>3

\* The product of the first n.
Product(f, n) == ProductOf([k \in 1 .. n |-> f[k]])

\* How products start and go on.
LEMMA ProductSteps ==
  ASSUME NEW N \in Nat, NEW f \in [1 .. N -> Int]
  PROVE  /\ Product(f, N) = ProductOf(f) /\ Product(f, 0) = 1
         /\ \A n \in 0 .. N : Product(f, n) \in Scalar
         /\ \A n \in 1 .. N : Product(f, n) = Mod(Product(f, n - 1) * f[n])
<1>1. PICK s : PartialProducts(s, f, N) /\ ProductOf(f) = s[N]
  BY ProductRecursion
<1>2. ASSUME NEW n \in 0 .. N PROVE Product(f, n) = s[n]
  <2>1. PICK g : g = [k \in 1 .. n |-> f[k]]
    OBVIOUS
  <2>2. g \in [1 .. n -> Int] /\ n \in Nat /\ \A k \in 1 .. n : f[k] = g[k]
    BY <2>1
  <2>3. PICK t : PartialProducts(t, g, n) /\ ProductOf(g) = t[n]
    BY <2>2, ProductRecursion
  <2>4. s[n] = t[n]
    BY <1>1, <2>2, <2>3, ProductUnique
  <2> QED
    BY <2>1, <2>3, <2>4 DEF Product
<1>3. \A n \in 1 .. N : n - 1 \in 0 .. N /\ n \in 0 .. N
  OBVIOUS
<1> QED
  BY <1>1, <1>2, <1>3 DEF PartialProducts

\* Sums and products depend on their elements only.
LEMMA SumSame ==
  ASSUME NEW N \in Nat, NEW n \in 0 .. N, NEW f, NEW g, \A k \in 1 .. n : f[k] = g[k]
  PROVE  Sum(f, n) = Sum(g, n) /\ Product(f, n) = Product(g, n)
<1>1. [k \in 1 .. n |-> f[k]] = [k \in 1 .. n |-> g[k]]
  OBVIOUS
<1> QED
  BY <1>1 DEF Sum, Product

Combines(h, a, b, c, d) == Mod(h) = Mod(c * (a + d * b))

\* One more element on each side of a linear combination.
LEMMA LinearStep ==
  ASSUME NEW a \in Int, NEW b \in Int, NEW h \in Int, NEW x \in Int, NEW y \in Int, NEW z \in Int,
         NEW c \in Int, NEW d \in Int, Combines(h, a, b, c, d), Combines(z, x, y, c, d)
  PROVE  Combines(h + z, Mod(a + x), Mod(b + y), c, d)
<1>1. c * (a + d * b) \in Int /\ c * (x + d * y) \in Int
  OBVIOUS
<1>2. Mod(h + z) = Mod(c * (a + d * b) + c * (x + d * y))
  BY <1>1, ModAdd DEF Combines
<1>3. PICK p \in Int, s \in Scalar : s = Mod(a + x) /\ a + x = p * Order + s
  BY ModSplits
<1>4. PICK q \in Int, t \in Scalar : t = Mod(b + y) /\ b + y = q * Order + t
  BY ModSplits
<1>5. s \in Int /\ t \in Int /\ c * (s + d * t) \in Int /\ c * (p + d * q) \in Int
  BY ScalarIsInt
<1>6. c * (a + d * b) + c * (x + d * y) = c * (s + d * t) + (c * (p + d * q)) * Order
  <2>1. c * (a + d * b) + c * (x + d * y) = c * ((a + x) + d * (b + y))
    OBVIOUS
  <2>2. c * ((p * Order + s) + d * (q * Order + t)) = c * (s + d * t) + (c * (p + d * q)) * Order
    BY <1>5, OrderFacts
  <2> QED
    BY <2>1, <2>2, <1>3, <1>4
<1> QED
  BY <1>2, <1>3, <1>4, <1>5, <1>6, ModShift DEF Combines

LinearUpTo(h, f, g, c, d, n) == \A k \in 1 .. n : Mod(h[k]) = Mod(c * (f[k] + d * g[k]))

SumsLinearly(h, f, g, c, d, n) == Sum(h, n) = Mod(c * (Sum(f, n) + d * Sum(g, n)))

\* The sum of a linear combination, element by element up to Order.
LEMMA SumLinear ==
  ASSUME NEW N \in Nat, NEW f \in [1 .. N -> Int], NEW g \in [1 .. N -> Int],
         NEW h \in [1 .. N -> Int], NEW c \in Int, NEW d \in Int, NEW n \in 0 .. N,
         LinearUpTo(h, f, g, c, d, n)
  PROVE  SumsLinearly(h, f, g, c, d, n)
<1>0. \A k \in 1 .. n : Mod(h[k]) = Mod(c * (f[k] + d * g[k]))
  BY DEF LinearUpTo
<1> DEFINE S == {j \in Nat : j <= n => Sum(h, j) = Mod(c * (Sum(f, j) + d * Sum(g, j)))}
<1>1. 0 \in S
  <2>1. c * (0 + d * 0) = 0 /\ Mod(0) = 0
    BY ScalarIsInt, ModOfScalar
  <2> QED
    BY <2>1, SumSteps
<1>2. ASSUME NEW j \in Nat, j \in S PROVE j + 1 \in S
  <2>1. SUFFICES ASSUME j + 1 <= n
                 PROVE Sum(h, j + 1) = Mod(c * (Sum(f, j + 1) + d * Sum(g, j + 1)))
    OBVIOUS
  <2>2. /\ j \in 0 .. N /\ j + 1 \in 1 .. N /\ j + 1 \in 1 .. n /\ (j + 1) - 1 = j
        /\ Sum(h, j) = Mod(c * (Sum(f, j) + d * Sum(g, j)))
    BY <1>2, <2>1
  <2>3. /\ Sum(f, j) \in Scalar /\ Sum(f, j + 1) = Mod(Sum(f, j) + f[j + 1])
        /\ Sum(g, j) \in Scalar /\ Sum(g, j + 1) = Mod(Sum(g, j) + g[j + 1])
        /\ Sum(h, j) \in Scalar /\ Sum(h, j + 1) = Mod(Sum(h, j) + h[j + 1])
    BY <2>2, SumSteps
  <2>4. f[j + 1] \in Int /\ g[j + 1] \in Int /\ h[j + 1] \in Int
    BY <2>2
  <2>5. Mod(Sum(h, j)) = Mod(c * (Sum(f, j) + d * Sum(g, j)))
    BY <2>2, <2>3, ModOfScalar
  <2>6. PICK a \in Int, b \in Int, e \in Int :
          a = Sum(f, j) /\ b = Sum(g, j) /\ e = Sum(h, j)
    BY <2>3, ScalarIsInt
  <2>7. PICK x \in Int, y \in Int, z \in Int : x = f[j + 1] /\ y = g[j + 1] /\ z = h[j + 1]
    BY <2>4
  <2>8. Mod(e + z) = Mod(c * (Mod(a + x) + d * Mod(b + y)))
    <3>1. Combines(e, a, b, c, d) /\ Combines(z, x, y, c, d)
      BY <1>0, <2>2, <2>5, <2>6, <2>7 DEF Combines
    <3>2. Combines(e + z, Mod(a + x), Mod(b + y), c, d)
      BY <3>1, LinearStep
    <3> QED
      BY <3>2 DEF Combines
  <2> QED
    BY <2>3, <2>6, <2>7, <2>8
<1>3. Nat \subseteq S
  <2> HIDE DEF S
  <2> QED
    BY <1>1, <1>2, Induction
<1> QED
  BY <1>3 DEF SumsLinearly

Multiplies(h, a, b) == Mod(h) = Mod(a * b)

\* One more factor on each side.
LEMMA ProductStep ==
  ASSUME NEW a \in Int, NEW b \in Int, NEW h \in Int, NEW x \in Int, NEW y \in Int, NEW z \in Int,
         Multiplies(h, a, b), Multiplies(z, x, y)
  PROVE  Multiplies(h * z, Mod(a * x), Mod(b * y))
<1>1. a * b \in Int /\ x * y \in Int /\ a * x \in Int /\ b * y \in Int
  OBVIOUS
<1>2. Mod(h * z) = Mod((a * b) * (x * y))
  BY <1>1, ModMul DEF Multiplies
<1>3. (a * b) * (x * y) = (a * x) * (b * y)
  OBVIOUS
<1>4. Mod((a * x) * (b * y)) = Mod(Mod(a * x) * Mod(b * y))
  BY <1>1, ModBoth
<1> QED
  BY <1>2, <1>3, <1>4 DEF Multiplies

\* The product of products, element by element up to Order.
LEMMA ProductPointwise ==
  ASSUME NEW N \in Nat, NEW f \in [1 .. N -> Int], NEW g \in [1 .. N -> Int],
         NEW h \in [1 .. N -> Int], NEW n \in 0 .. N,
         \A k \in 1 .. n : Mod(h[k]) = Mod(f[k] * g[k])
  PROVE  Product(h, n) = Mod(Product(f, n) * Product(g, n))
<1> DEFINE S == {j \in Nat : j <= n => Product(h, j) = Mod(Product(f, j) * Product(g, j))}
<1>1. 0 \in S
  <2>1. 1 * 1 = 1 /\ Mod(1) = 1
    BY ScalarIsInt, ModOfScalar
  <2> QED
    BY <2>1, ProductSteps
<1>2. ASSUME NEW j \in Nat, j \in S PROVE j + 1 \in S
  <2>1. SUFFICES ASSUME j + 1 <= n
                 PROVE Product(h, j + 1) = Mod(Product(f, j + 1) * Product(g, j + 1))
    OBVIOUS
  <2>2. /\ j \in 0 .. N /\ j + 1 \in 1 .. N /\ j + 1 \in 1 .. n /\ (j + 1) - 1 = j
        /\ Product(h, j) = Mod(Product(f, j) * Product(g, j))
    BY <1>2, <2>1
  <2>3. /\ Product(f, j) \in Scalar /\ Product(f, j + 1) = Mod(Product(f, j) * f[j + 1])
        /\ Product(g, j) \in Scalar /\ Product(g, j + 1) = Mod(Product(g, j) * g[j + 1])
        /\ Product(h, j) \in Scalar /\ Product(h, j + 1) = Mod(Product(h, j) * h[j + 1])
    BY <2>2, ProductSteps
  <2>4. f[j + 1] \in Int /\ g[j + 1] \in Int /\ h[j + 1] \in Int
    BY <2>2
  <2>5. Mod(Product(h, j)) = Mod(Product(f, j) * Product(g, j))
    BY <2>2, <2>3, ModOfScalar
  <2>6. PICK a \in Int, b \in Int, e \in Int :
          a = Product(f, j) /\ b = Product(g, j) /\ e = Product(h, j)
    BY <2>3, ScalarIsInt
  <2>7. PICK x \in Int, y \in Int, z \in Int : x = f[j + 1] /\ y = g[j + 1] /\ z = h[j + 1]
    BY <2>4
  <2>8. Mod(e * z) = Mod(Mod(a * x) * Mod(b * y))
    <3>1. Multiplies(e, a, b) /\ Multiplies(z, x, y)
      BY <2>2, <2>5, <2>6, <2>7 DEF Multiplies
    <3>2. Multiplies(e * z, Mod(a * x), Mod(b * y))
      BY <3>1, ProductStep
    <3> QED
      BY <3>2 DEF Multiplies
  <2> QED
    BY <2>3, <2>6, <2>7, <2>8
<1>3. Nat \subseteq S
  <2> HIDE DEF S
  <2> QED
    BY <1>1, <1>2, Induction
<1> QED
  BY <1>3

\* A product of numbers that are not zero is not zero.
LEMMA NonZeroProduct ==
  ASSUME NEW N \in Nat, NEW f \in [1 .. N -> Int], NEW n \in 0 .. N,
         \A k \in 1 .. n : Mod(f[k]) # 0
  PROVE  Mod(Product(f, n)) # 0
<1> DEFINE S == {j \in Nat : j <= n => Mod(Product(f, j)) # 0}
<1>1. 0 \in S
  <2>1. Product(f, 0) = 1 /\ Mod(1) = 1
    BY ScalarIsInt, ModOfScalar, ProductSteps
  <2> QED
    BY <2>1
<1>2. ASSUME NEW j \in Nat, j \in S PROVE j + 1 \in S
  <2>1. SUFFICES ASSUME j + 1 <= n PROVE Mod(Product(f, j + 1)) # 0
    OBVIOUS
  <2>2. /\ j \in 0 .. N /\ j + 1 \in 1 .. N /\ j + 1 \in 1 .. n /\ (j + 1) - 1 = j
        /\ Mod(Product(f, j)) # 0
    BY <1>2, <2>1
  <2>3. Product(f, j) \in Scalar /\ Product(f, j + 1) = Mod(Product(f, j) * f[j + 1])
    BY <2>2, ProductSteps
  <2>4. Product(f, j) \in Int /\ f[j + 1] \in Int /\ Mod(f[j + 1]) # 0
    BY <2>2, <2>3, ScalarIsInt
  <2>5. PICK a \in Int, x \in Int : a = Product(f, j) /\ x = f[j + 1]
    BY <2>4
  <2>6. Mod(a * x) # 0 /\ a * x \in Int
    <3>1. Mod(a) # 0 /\ Mod(x) # 0
      BY <2>2, <2>4, <2>5
    <3> QED
      BY <3>1, ProductNotZero
  <2> QED
    BY <2>3, <2>5, <2>6, ModMod
<1>3. Nat \subseteq S
  <2> HIDE DEF S
  <2> QED
    BY <1>1, <1>2, Induction
<1> QED
  BY <1>3

-------------------------------------------------------------------------------
(***************************************************************************)
(* A product does not depend on the order of its factors.                  *)
(***************************************************************************)

\* The last two factors may change places.
LEMMA ModSwap ==
  ASSUME NEW a \in Int, NEW b \in Int, NEW c \in Int
  PROVE  Mod(Mod(a * b) * c) = Mod(Mod(a * c) * b)
<1>1. a * b \in Int /\ a * c \in Int
  OBVIOUS
<1>2. Mod(Mod(a * b) * c) = Mod((a * b) * c) /\ Mod(Mod(a * c) * b) = Mod((a * c) * b)
  BY <1>1, ModInside
<1>3. (a * b) * c = (a * c) * b
  OBVIOUS
<1> QED
  BY <1>2, <1>3

\* Another factor in one place changes the product by that factor.
LEMMA ProductPut ==
  ASSUME NEW N \in Nat, NEW f \in [1 .. N -> Int], NEW g \in [1 .. N -> Int], NEW p \in 1 .. N,
         \A k \in 1 .. N : k # p => f[k] = g[k]
  PROVE  Mod(Product(f, N) * g[p]) = Mod(Product(g, N) * f[p])
<1> DEFINE S == {j \in Nat : j <= N =>
                   IF j < p THEN Product(f, j) = Product(g, j)
                   ELSE Mod(Product(f, j) * g[p]) = Mod(Product(g, j) * f[p])}
<1>1. 0 \in S
  BY ProductSteps
<1>2. ASSUME NEW j \in Nat, j \in S PROVE j + 1 \in S
  <2>1. SUFFICES ASSUME j + 1 <= N
                 PROVE IF j + 1 < p THEN Product(f, j + 1) = Product(g, j + 1)
                       ELSE Mod(Product(f, j + 1) * g[p]) = Mod(Product(g, j + 1) * f[p])
    OBVIOUS
  <2>2. /\ j \in 0 .. N /\ j + 1 \in 1 .. N /\ (j + 1) - 1 = j
        /\ IF j < p THEN Product(f, j) = Product(g, j)
           ELSE Mod(Product(f, j) * g[p]) = Mod(Product(g, j) * f[p])
    BY <1>2, <2>1
  <2>3. /\ Product(f, j) \in Scalar /\ Product(f, j + 1) = Mod(Product(f, j) * f[j + 1])
        /\ Product(g, j) \in Scalar /\ Product(g, j + 1) = Mod(Product(g, j) * g[j + 1])
    BY <2>2, ProductSteps
  <2>4. PICK a \in Int, b \in Int, x \in Int, y \in Int, s \in Int, t \in Int :
          /\ a = Product(f, j) /\ b = Product(g, j) /\ x = f[j + 1] /\ y = g[j + 1]
          /\ s = f[p] /\ t = g[p]
    <3>1. Product(f, j) \in Int /\ Product(g, j) \in Int
      BY <2>3, ScalarIsInt
    <3>2. f[j + 1] \in Int /\ g[j + 1] \in Int /\ f[p] \in Int /\ g[p] \in Int
      BY <2>2
    <3> QED
      BY <3>1, <3>2
  <2>5. PICK u \in Int, v \in Int :
           /\ u = Mod(a * x) /\ v = Mod(b * y)
           /\ u = Product(f, j + 1) /\ v = Product(g, j + 1)
    <3>1. Mod(a * x) \in Int /\ Mod(b * y) \in Int
      BY ModType
    <3> QED
      BY <3>1, <2>3, <2>4
  <2>6. ASSUME Mod(u * t) = Mod(v * s)
         PROVE  Mod(Product(f, j + 1) * g[p]) = Mod(Product(g, j + 1) * f[p])
    BY <2>5, <2>6, <2>4
  <2> HIDE DEF S
  <2>7. CASE j + 1 < p
    <3>1. a = b /\ x = y
      BY <2>2, <2>4, <2>7
    <3> QED
      BY <3>1, <2>3, <2>4, <2>7
  <2>8. CASE j + 1 = p
    <3>1. a = b /\ x = s /\ y = t
      BY <2>2, <2>4, <2>8
    <3>2. Mod(Mod(a * s) * t) = Mod(Mod(a * t) * s)
      BY ModSwap
    <3>3. Mod(u * t) = Mod(v * s)
      BY <3>1, <3>2, <2>5
    <3> QED
      BY <3>3, <2>6, <2>8
  <2>9. CASE j + 1 > p
    <3>1. Mod(a * t) = Mod(b * s) /\ x = y
      BY <2>2, <2>4, <2>9
    <3>2. Mod(Mod(a * x) * t) = Mod(Mod(a * t) * x)
      BY ModSwap
    <3>3. Mod(Mod(b * x) * s) = Mod(Mod(b * s) * x)
      BY ModSwap
    <3>4. Mod(u * t) = Mod(v * s)
      BY <3>1, <3>2, <3>3, <2>5
    <3> QED
      BY <3>4, <2>6, <2>9
  <2> QED
    BY <2>7, <2>8, <2>9
<1>3. Nat \subseteq S
  <2> HIDE DEF S
  <2> QED
    BY <1>1, <1>2, Induction
<1>4. Product(f, N) = Product(f, N) /\ ~(N < p)
  OBVIOUS
<1> QED
  BY <1>3, <1>4

\* Two factors change places.
LEMMA ProductSwap ==
  ASSUME NEW N \in Nat, NEW f \in [1 .. N + 1 -> Int], NEW g \in [1 .. N + 1 -> Int],
         NEW p \in 1 .. N + 1, g[p] = f[N + 1], g[N + 1] = f[p],
         \A k \in 1 .. N : k # p => f[k] = g[k]
  PROVE  Product(f, N + 1) = Product(g, N + 1)
<1>1. CASE p = N + 1
  <2>1. \A k \in 1 .. N + 1 : f[k] = g[k]
    BY <1>1
  <2>2. N + 1 \in Nat /\ N + 1 \in 0 .. N + 1
    OBVIOUS
  <2> QED
    BY <2>1, <2>2, SumSame
<1>2. CASE p \in 1 .. N
  <2>1. PICK e \in [1 .. N -> Int], h \in [1 .. N -> Int] :
          (\A k \in 1 .. N : e[k] = f[k]) /\ (\A k \in 1 .. N : h[k] = g[k])
    <3>1. [k \in 1 .. N |-> f[k]] \in [1 .. N -> Int] /\ [k \in 1 .. N |-> g[k]] \in [1 .. N -> Int]
      OBVIOUS
    <3> QED
      BY <3>1
  <2>2. N \in 0 .. N /\ N \in 0 .. N + 1 /\ N + 1 \in 1 .. N + 1 /\ (N + 1) - 1 = N /\ N + 1 \in Nat
    OBVIOUS
  <2>3. Product(e, N) = Product(f, N) /\ Product(h, N) = Product(g, N)
    BY <2>1, <2>2, SumSame
  <2>4. Mod(Product(e, N) * h[p]) = Mod(Product(h, N) * e[p])
    <3>1. \A k \in 1 .. N : k # p => e[k] = h[k]
      BY <2>1
    <3> QED
      BY <3>1, <1>2, ProductPut
  <2>5. /\ Product(f, N + 1) = Mod(Product(f, N) * f[N + 1])
        /\ Product(g, N + 1) = Mod(Product(g, N) * g[N + 1])
    BY <2>2, ProductSteps
  <2>6. h[p] = f[N + 1] /\ e[p] = g[N + 1]
    BY <1>2, <2>1
  <2> QED
    BY <2>3, <2>4, <2>5, <2>6
<1> QED
  BY <1>1, <1>2

\* An injection of 1 .. n into itself reaches every number.
LEMMA Pigeonhole ==
  ASSUME NEW n \in Nat, NEW s \in [1 .. n -> 1 .. n],
         \A k \in 1 .. n, l \in 1 .. n : s[k] = s[l] => k = l
  PROVE  \A m \in 1 .. n : \E k \in 1 .. n : s[k] = m
<1>1. IsFiniteSet(1 .. n)
  BY FS_Interval
<1>2. s \in Injection(1 .. n, 1 .. n)
  BY DEF Injection, IsInjective
<1>3. s \in Surjection(1 .. n, 1 .. n)
  BY <1>1, <1>2, FS_Injection
<1> QED
  BY <1>3 DEF Surjection

Reorders(s, n) ==
  s \in [1 .. n -> 1 .. n] /\ \A k \in 1 .. n, l \in 1 .. n : s[k] = s[l] => k = l

\* If n factors may be reordered, n + 1 may: the last is put back in its place.
LEMMA ReorderStep ==
  ASSUME NEW N \in Nat,
         \A e \in [1 .. N -> Int] : \A r : Reorders(r, N) =>
           Product([k \in 1 .. N |-> e[r[k]]], N) = Product(e, N),
         NEW f \in [1 .. N + 1 -> Int], NEW s, Reorders(s, N + 1)
  PROVE  Product([k \in 1 .. N + 1 |-> f[s[k]]], N + 1) = Product(f, N + 1)
<1>1. /\ s \in [1 .. N + 1 -> 1 .. N + 1]
      /\ \A k \in 1 .. N + 1, l \in 1 .. N + 1 : s[k] = s[l] => k = l
  BY DEF Reorders
<1>2. N + 1 \in Nat /\ N + 1 \in 1 .. N + 1 /\ N \in 0 .. N /\ N \in 0 .. N + 1 /\ (N + 1) - 1 = N
  OBVIOUS
<1>3. PICK p \in 1 .. N + 1 : s[p] = N + 1
  BY <1>1, <1>2, Pigeonhole
\* r is s with p and N + 1 changing places, so that N + 1 stays.
<1>4. PICK r : /\ r \in [1 .. N -> 1 .. N + 1]
               /\ \A k \in 1 .. N : r[k] = IF k = p THEN s[N + 1] ELSE s[k]
  <2> DEFINE r == [k \in 1 .. N |-> IF k = p THEN s[N + 1] ELSE s[k]]
  <2>1. r \in [1 .. N -> 1 .. N + 1]
    BY <1>1, <1>2
  <2>2. \A k \in 1 .. N : r[k] = IF k = p THEN s[N + 1] ELSE s[k]
    OBVIOUS
  <2> HIDE DEF r
  <2> QED
    BY <2>1, <2>2
<1>5. Reorders(r, N)
  <2>1. ASSUME NEW k \in 1 .. N PROVE r[k] \in 1 .. N
    <3>1. r[k] # N + 1
      <4>1. CASE k = p
        BY <4>1, <1>1, <1>2, <1>3, <1>4
      <4>2. CASE k # p
        BY <4>2, <1>1, <1>3, <1>4
      <4> QED
        BY <4>1, <4>2
    <3>2. r[k] \in 1 .. N + 1
      BY <1>4
    <3> QED
      BY <3>1, <3>2
  <2>2. ASSUME NEW k \in 1 .. N, NEW l \in 1 .. N, r[k] = r[l] PROVE k = l
    <3>1. k \in 1 .. N + 1 /\ l \in 1 .. N + 1 /\ k # N + 1 /\ l # N + 1
      OBVIOUS
    <3> QED
      BY <2>2, <3>1, <1>1, <1>2, <1>4
  <2> QED
    BY <2>1, <2>2, <1>4 DEF Reorders
<1>6. PICK g : g = [k \in 1 .. N + 1 |-> f[s[k]]]
  OBVIOUS
<1>7. PICK h : h = [k \in 1 .. N + 1 |-> IF k <= N THEN f[r[k]] ELSE f[N + 1]]
  OBVIOUS
<1>8. g \in [1 .. N + 1 -> Int] /\ \A k \in 1 .. N + 1 : g[k] = f[s[k]]
  BY <1>1, <1>6
<1>9. /\ h \in [1 .. N + 1 -> Int] /\ h[N + 1] = f[N + 1]
      /\ \A k \in 1 .. N : h[k] = f[r[k]]
  BY <1>2, <1>4, <1>7
<1>10. Product(g, N + 1) = Product(h, N + 1)
  <2>1. h[N + 1] = g[p]
    BY <1>3, <1>8, <1>9
  <2>2. h[p] = g[N + 1]
    <3>1. CASE p = N + 1
      BY <3>1, <2>1
    <3>2. CASE p \in 1 .. N
      BY <3>2, <1>2, <1>4, <1>8, <1>9
    <3> QED
      BY <3>1, <3>2
  <2>3. \A k \in 1 .. N : k # p => g[k] = h[k]
    <3>1. \A k \in 1 .. N : k \in 1 .. N + 1
      OBVIOUS
    <3> QED
      BY <3>1, <1>4, <1>8, <1>9
  <2> QED
    BY <2>1, <2>2, <2>3, <1>8, <1>9, ProductSwap
<1>11. Product(h, N) = Product(f, N)
  <2>1. PICK e \in [1 .. N -> Int] : \A k \in 1 .. N : e[k] = f[k]
    <3>1. [k \in 1 .. N |-> f[k]] \in [1 .. N -> Int]
      OBVIOUS
    <3> QED
      BY <3>1
  <2>2. PICK d : d = [k \in 1 .. N |-> e[r[k]]]
    OBVIOUS
  <2>3. Product(d, N) = Product(e, N)
    BY <2>2, <1>5
  <2>4. \A k \in 1 .. N : d[k] = h[k]
    BY <2>1, <2>2, <1>5, <1>9 DEF Reorders
  <2> QED
    BY <2>1, <2>3, <2>4, <1>2, SumSame
<1>12. /\ Product(h, N + 1) = Mod(Product(h, N) * h[N + 1])
       /\ Product(f, N + 1) = Mod(Product(f, N) * f[N + 1])
  BY <1>2, <1>9, ProductSteps
<1> QED
  BY <1>6, <1>9, <1>10, <1>11, <1>12

\* A product is the same in every order.
LEMMA ProductReorder ==
  ASSUME NEW N \in Nat, NEW f \in [1 .. N -> Int], NEW s, Reorders(s, N)
  PROVE  Product([k \in 1 .. N |-> f[s[k]]], N) = Product(f, N)
<1> DEFINE S == {n \in Nat : \A e \in [1 .. n -> Int] : \A r : Reorders(r, n) =>
                   Product([k \in 1 .. n |-> e[r[k]]], n) = Product(e, n)}
<1>1. 0 \in S
  <2>1. SUFFICES ASSUME NEW e \in [1 .. 0 -> Int], NEW r
                 PROVE  Product([k \in 1 .. 0 |-> e[r[k]]], 0) = Product(e, 0)
    OBVIOUS
  <2>2. \A k \in 1 .. 0 : [l \in 1 .. 0 |-> e[r[l]]][k] = e[k]
    OBVIOUS
  <2>3. 0 \in Nat /\ 0 \in 0 .. 0
    OBVIOUS
  <2> QED
    BY <2>2, <2>3, SumSame
<1>2. ASSUME NEW n \in Nat, n \in S PROVE n + 1 \in S
  <2>1. SUFFICES ASSUME NEW e \in [1 .. n + 1 -> Int], NEW r, Reorders(r, n + 1)
                 PROVE  Product([k \in 1 .. n + 1 |-> e[r[k]]], n + 1) = Product(e, n + 1)
    OBVIOUS
  <2> QED
    BY <1>2, <2>1, ReorderStep
<1>3. Nat \subseteq S
  <2> HIDE DEF S
  <2> QED
    BY <1>1, <1>2, Induction
<1> QED
  BY <1>3

-------------------------------------------------------------------------------
(***************************************************************************)
(* The two inverses of the code.                                           *)
(***************************************************************************)

Pow(x, n) == ProductOf([k \in 1 .. n |-> x])

\* How powers start and go on.
LEMMA PowSteps ==
  ASSUME NEW x \in Int
  PROVE  /\ Pow(x, 0) = 1
         /\ \A n \in Nat : Pow(x, n) \in Scalar /\ Pow(x, n) \in Int
         /\ \A n \in Nat : Pow(x, n + 1) = Mod(Pow(x, n) * x)
<1>1. ASSUME NEW n \in Nat
      PROVE  /\ Pow(x, 0) = 1 /\ Pow(x, n) \in Scalar
             /\ Pow(x, n + 1) = Mod(Pow(x, n) * x)
  <2>1. PICK f \in [1 .. n + 1 -> Int] : \A k \in 1 .. n + 1 : f[k] = x
    <3>1. [k \in 1 .. n + 1 |-> x] \in [1 .. n + 1 -> Int]
      OBVIOUS
    <3> QED
      BY <3>1
  <2>2. \A m \in 0 .. n + 1 : Product(f, m) = Pow(x, m)
    <3>1. ASSUME NEW m \in 0 .. n + 1 PROVE [k \in 1 .. m |-> f[k]] = [k \in 1 .. m |-> x]
      BY <2>1
    <3> QED
      BY <3>1 DEF Product, Pow
  <2>3. n + 1 \in Nat /\ n + 1 \in 1 .. n + 1 /\ n \in 0 .. n + 1 /\ 0 \in 0 .. n + 1 /\ (n + 1) - 1 = n
    OBVIOUS
  <2>4. /\ Product(f, 0) = 1 /\ Product(f, n) \in Scalar
        /\ Product(f, n + 1) = Mod(Product(f, n) * f[n + 1])
    BY <2>3, ProductSteps
  <2> QED
    BY <2>1, <2>2, <2>3, <2>4
<1> QED
  BY <1>1, ScalarIsInt

\* Powers of what is not zero are not zero.
LEMMA PowNotZero ==
  ASSUME NEW x \in Int, Mod(x) # 0, NEW n \in Nat
  PROVE  Mod(Pow(x, n)) # 0
<1> DEFINE S == {m \in Nat : Mod(Pow(x, m)) # 0}
<1>1. 0 \in S
  BY PowSteps, ScalarIsInt, ModOfScalar
<1>2. ASSUME NEW m \in Nat, m \in S PROVE m + 1 \in S
  <2>1. PICK a \in Int : a = Pow(x, m) /\ Mod(a) # 0 /\ Pow(x, m + 1) = Mod(a * x)
    BY <1>2, PowSteps
  <2>2. Mod(a * x) # 0 /\ a * x \in Int
    BY <2>1, ProductNotZero
  <2> QED
    BY <2>1, <2>2, ModMod
<1>3. Nat \subseteq S
  <2> HIDE DEF S
  <2> QED
    BY <1>1, <1>2, Induction
<1> QED
  BY <1>3

\* The multiples of a up to Order - 1 are those numbers in another order.
LEMMA Fermat ==
  ASSUME NEW a \in Int, Mod(a) # 0
  PROVE  Pow(a, Order - 1) = 1
<1>1. PICK N \in Nat : N = Order - 1
  BY OrderFacts
<1>2. PICK f \in [1 .. N -> Int] : \A k \in 1 .. N : f[k] = k
  <2>1. [k \in 1 .. N |-> k] \in [1 .. N -> Int]
    OBVIOUS
  <2> QED
    BY <2>1
<1>3. PICK c \in [1 .. N -> Int] : \A k \in 1 .. N : c[k] = a
  <2>1. [k \in 1 .. N |-> a] \in [1 .. N -> Int]
    OBVIOUS
  <2> QED
    BY <2>1
<1>4. \A k \in 1 .. N : k \in Scalar /\ k \in Int /\ k # 0 /\ Mod(k) = k
  BY <1>1, OrderFacts, ModOfScalar DEF Scalar
<1>5. ASSUME NEW k \in 1 .. N PROVE Mod(a * k) \in 1 .. N
  <2>1. k \in Int /\ Mod(k) # 0 /\ a * k \in Int
    BY <1>4
  <2>2. Mod(a * k) # 0
    BY <2>1, ProductNotZero
  <2>3. Mod(a * k) \in Scalar
    BY <2>1, ModType
  <2> QED
    BY <2>2, <2>3, <1>1, OrderFacts DEF Scalar
<1>6. PICK s : s = [k \in 1 .. N |-> Mod(a * k)]
  OBVIOUS
<1>7. Reorders(s, N)
  <2>1. \A k \in 1 .. N : s[k] = Mod(a * k)
    BY <1>6
  <2>2. s \in [1 .. N -> 1 .. N]
    BY <1>5, <1>6
  <2>3. ASSUME NEW k \in 1 .. N, NEW l \in 1 .. N, s[k] = s[l] PROVE k = l
    <3>1. Mod(a * k) = Mod(a * l) /\ k \in Int /\ l \in Int
      BY <2>1, <2>3
    <3>2. Mod(k) = Mod(l)
      BY <3>1, Cancel
    <3> QED
      BY <3>2, <1>4
  <2> QED
    BY <2>2, <2>3 DEF Reorders
<1>8. PICK g : g = [k \in 1 .. N |-> f[s[k]]]
  OBVIOUS
<1>9. Product(g, N) = Product(f, N)
  BY <1>7, <1>8, ProductReorder
<1>10. g \in [1 .. N -> Int] /\ \A k \in 1 .. N : Mod(g[k]) = Mod(c[k] * f[k])
  <2>1. ASSUME NEW k \in 1 .. N PROVE g[k] = Mod(a * k)
    <3>1. s[k] = Mod(a * k) /\ s[k] \in 1 .. N
      BY <1>5, <1>6
    <3> QED
      BY <3>1, <1>2, <1>8
  <2>2. ASSUME NEW k \in 1 .. N PROVE g[k] \in Int /\ Mod(g[k]) = Mod(c[k] * f[k])
    <3>1. a * k \in Int /\ g[k] = Mod(a * k) /\ c[k] = a /\ f[k] = k
      BY <2>1, <1>2, <1>3
    <3> QED
      BY <3>1, ModMod, ModType
  <2> QED
    BY <2>2, <1>8
<1>11. N \in 0 .. N
  OBVIOUS
<1>12. Product(g, N) = Mod(Product(c, N) * Product(f, N))
  BY <1>10, <1>11, ProductPointwise
<1>13. Product(c, N) = Pow(a, N)
  <2>1. [k \in 1 .. N |-> c[k]] = [k \in 1 .. N |-> a]
    BY <1>3
  <2> QED
    BY <2>1 DEF Product, Pow
<1>14. Mod(Product(f, N)) # 0
  <2>1. \A k \in 1 .. N : Mod(f[k]) # 0
    BY <1>2, <1>4
  <2> QED
    BY <2>1, <1>11, NonZeroProduct
<1>15. PICK x \in Int, y \in Int : x = Product(f, N) /\ y = Pow(a, N) /\ y \in Scalar /\ x \in Scalar
  BY <1>11, PowSteps, ProductSteps, ScalarIsInt
<1>16. Mod(x * y) = Mod(x * 1)
  <2>1. y * x = x * y /\ x * 1 = x
    OBVIOUS
  <2>2. Mod(y * x) = Mod(x)
    BY <1>9, <1>12, <1>13, <1>15, ModOfScalar
  <2> QED
    BY <2>1, <2>2
<1>17. Mod(y) = Mod(1)
  BY <1>14, <1>15, <1>16, Cancel
<1> QED
  BY <1>1, <1>15, <1>17, ModOfScalar, ScalarIsInt

\* A square-and-multiply step on the power that remains.
LEMMA PowDouble ==
  ASSUME NEW b \in Int, NEW q \in Nat
  PROVE  Pow(b, 2 * q) = Pow(Mod(b * b), q)
<1>1. PICK c \in Int : c = Mod(b * b)
  BY ModType
<1> DEFINE S == {n \in Nat : Pow(b, 2 * n) = Pow(c, n)}
<1>2. 0 \in S
  <2>1. 2 * 0 = 0
    OBVIOUS
  <2> QED
    BY <2>1, PowSteps
<1>3. ASSUME NEW n \in Nat, n \in S PROVE n + 1 \in S
  <2>1. PICK m \in Nat : m = 2 * n /\ 2 * (n + 1) = (m + 1) + 1
    OBVIOUS
  <2>2. PICK y \in Int : y = Pow(b, m) /\ y = Pow(c, n)
    BY <1>3, <2>1, PowSteps
  <2>3. Pow(b, m + 1) = Mod(y * b) /\ Pow(b, (m + 1) + 1) = Mod(Pow(b, m + 1) * b)
    <3>1. m + 1 \in Nat
      OBVIOUS
    <3> QED
      BY <3>1, <2>2, PowSteps
  <2>4. Pow(c, n + 1) = Mod(y * c)
    BY <2>2, PowSteps
  <2>5. Mod(Mod(y * b) * b) = Mod(y * c)
    <3>1. y * b \in Int /\ b * b \in Int
      OBVIOUS
    <3>2. Mod(Mod(y * b) * b) = Mod((y * b) * b)
      BY <3>1, ModInside
    <3>3. Mod(y * Mod(b * b)) = Mod(y * (b * b))
      BY <3>1, ModInside
    <3>4. (y * b) * b = y * (b * b)
      OBVIOUS
    <3> QED
      BY <3>2, <3>3, <3>4, <1>1
  <2> QED
    BY <2>1, <2>3, <2>4, <2>5
<1>4. Nat \subseteq S
  <2> HIDE DEF S
  <2> QED
    BY <1>2, <1>3, Induction
<1> QED
  BY <1>1, <1>4

\* What a turn of modPow does to the exponent.
LEMMA Halves ==
  ASSUME NEW e \in Nat
  PROVE  /\ e \div 2 \in Nat /\ (e # 0 => e \div 2 < e) /\ e % 2 \in {0, 1}
         /\ e = 2 * (e \div 2) + (e % 2)
  OBVIOUS

ModPowStep(t) ==
  [res |-> IF t.e % 2 = 1 THEN Mod(t.res * t.b) ELSE t.res,
   b |-> Mod(t.b * t.b), e |-> t.e \div 2]

ModPowState == [res : Scalar, b : Int, e : Nat]

\* A turn of modPow keeps the types of its variables.
LEMMA ModPowStepType ==
  ASSUME NEW t \in ModPowState
  PROVE  ModPowStep(t) \in ModPowState
<1>1. t.res \in Scalar /\ t.res \in Int /\ t.b \in Int /\ t.e \in Nat
  BY ScalarIsInt DEF ModPowState
<1>2. t.res * t.b \in Int /\ t.b * t.b \in Int
  BY <1>1
<1>3. Mod(t.res * t.b) \in Scalar /\ Mod(t.b * t.b) \in Int
  BY <1>2, ModType
<1>4. t.e \div 2 \in Nat
  BY <1>1, Halves
<1> QED
  BY <1>1, <1>3, <1>4 DEF ModPowStep, ModPowState

\* A turn keeps res * b ^ e.
LEMMA ModPowStepKeeps ==
  ASSUME NEW t \in ModPowState
  PROVE  LET u == ModPowStep(t)
         IN /\ Mod(u.res * Pow(u.b, u.e)) = Mod(t.res * Pow(t.b, t.e))
            /\ u.e < t.e \/ u.e = 0
<1>1. PICK r \in Int, b \in Int, e \in Nat : r = t.res /\ b = t.b /\ e = t.e
  BY ScalarIsInt DEF ModPowState
<1>2. PICK q \in Nat : q = e \div 2
  BY Halves
<1>3. PICK y \in Int : y = Pow(Mod(b * b), q) /\ y = Pow(b, 2 * q)
  <2>1. 2 * q \in Nat
    OBVIOUS
  <2>2. Pow(b, 2 * q) \in Int
    BY <2>1, PowSteps
  <2> QED
    BY <2>2, PowDouble
<1>4. CASE e % 2 = 1
  <2>1. e = 2 * q + 1 /\ 2 * q \in Nat
    BY <1>2, <1>4, Halves
  <2>2. Pow(b, e) = Mod(y * b)
    BY <1>3, <2>1, PowSteps
  <2>3. Mod(Mod(r * b) * y) = Mod(r * Mod(y * b))
    <3>1. r * b \in Int /\ y * b \in Int
      OBVIOUS
    <3>2. Mod(Mod(r * b) * y) = Mod((r * b) * y)
      BY <3>1, ModInside
    <3>3. Mod(r * Mod(y * b)) = Mod(r * (y * b))
      BY <3>1, ModInside
    <3>4. (r * b) * y = r * (y * b)
      OBVIOUS
    <3> QED
      BY <3>2, <3>3, <3>4
  <2>4. q < e \/ q = 0
    BY <2>1
  <2> QED
    BY <1>1, <1>2, <1>3, <1>4, <2>2, <2>3, <2>4 DEF ModPowStep
<1>5. CASE e % 2 # 1
  <2>1. e = 2 * q
    BY <1>2, <1>5, Halves
  <2>2. q < e \/ q = 0
    BY <2>1
  <2> QED
    BY <1>1, <1>2, <1>3, <1>5, <2>1, <2>2 DEF ModPowStep
<1> QED
  BY <1>4, <1>5

\* Square and multiply is the power.
LEMMA ModPowIsPow ==
  ASSUME NEW base \in Int, NEW exp \in Nat
  PROVE  ModPow(base, exp) = Pow(Mod(base), exp)
<1>1. PICK start \in ModPowState : start = [res |-> 1, b |-> Mod(base), e |-> exp]
  BY ModType, ScalarIsInt DEF ModPowState
<1> DEFINE Def(t) == [k \in 0 .. exp |->
             IF k = 0 THEN [res |-> 1, b |-> Mod(base), e |-> exp] ELSE ModPowStep(t[k - 1])]
<1>2. PICK step : \A k \in 1 .. exp, v \in ModPowState : step[<<k, v>>] = ModPowStep(v)
  <2> DEFINE step == [p \in (1 .. exp) \X ModPowState |-> ModPowStep(p[2])]
  <2>1. \A k \in 1 .. exp, v \in ModPowState : step[<<k, v>>] = ModPowStep(v)
    OBVIOUS
  <2> QED
    BY <2>1
<1>3. PICK t : Iterates(t, exp, ModPowState, start, step)
  <2>1. \A k \in 1 .. exp, v \in ModPowState : step[<<k, v>>] \in ModPowState
    BY <1>2, ModPowStepType
  <2> QED
    BY <2>1, Recursion
<1>4. t = Def(t)
  <2>1. \A k \in 1 .. exp : t[k - 1] \in ModPowState /\ t[k] = step[<<k, t[k - 1]>>]
    BY <1>3 DEF Iterates
  <2>2. \A k \in 0 .. exp :
          t[k] = IF k = 0 THEN [res |-> 1, b |-> Mod(base), e |-> exp] ELSE ModPowStep(t[k - 1])
    <3>1. \A k \in 1 .. exp : t[k] = ModPowStep(t[k - 1])
      BY <2>1, <1>2
    <3>2. t[0] = start
      BY <1>3 DEF Iterates
    <3>3. \A k \in 0 .. exp : k = 0 \/ k \in 1 .. exp
      OBVIOUS
    <3> QED
      BY <3>1, <3>2, <3>3, <1>1
  <2> QED
    BY <2>2, <1>3 DEF Iterates
<1>5. PICK s : s = Def(s) /\ ModPow(base, exp) = s[exp].res
  <2> DEFINE s == CHOOSE g : g = Def(g)
  <2>1. s = Def(s)
    BY <1>4
  <2> QED
    BY <2>1 DEF ModPow, ModPowStep
<1>6. s[0] = start /\ \A k \in 1 .. exp : s[k] = ModPowStep(s[k - 1])
  BY <1>1, <1>5
<1>7. PICK goal \in Scalar : goal = Pow(Mod(base), exp)
  BY ModType, PowSteps
<1> DEFINE S == {k \in Nat : k <= exp =>
             /\ s[k] \in ModPowState
             /\ Mod(s[k].res * Pow(s[k].b, s[k].e)) = goal
             /\ s[k].e <= exp - k \/ s[k].e = 0}
<1>8. 0 \in S
  <2>1. s[0].res = 1 /\ s[0].b = Mod(base) /\ s[0].e = exp
    BY <1>1, <1>6
  <2>2. goal \in Int /\ 1 * goal = goal /\ Mod(goal) = goal
    BY ScalarIsInt, ModOfScalar
  <2> QED
    BY <2>1, <2>2, <1>1, <1>6, <1>7
<1>9. ASSUME NEW k \in Nat, k \in S PROVE k + 1 \in S
  <2>1. SUFFICES ASSUME k + 1 <= exp
                 PROVE /\ s[k + 1] \in ModPowState
                       /\ Mod(s[k + 1].res * Pow(s[k + 1].b, s[k + 1].e)) = goal
                       /\ s[k + 1].e <= exp - (k + 1) \/ s[k + 1].e = 0
    OBVIOUS
  <2>2. k + 1 \in 1 .. exp /\ (k + 1) - 1 = k /\ k <= exp
    BY <2>1
  <2>3. s[k + 1] = ModPowStep(s[k])
    BY <2>2, <1>6
  <2>4. PICK t0 \in ModPowState : /\ t0 = s[k] /\ Mod(t0.res * Pow(t0.b, t0.e)) = goal
                                  /\ t0.e <= exp - k \/ t0.e = 0
    BY <1>9, <2>2
  <2>5. PICK u \in ModPowState : u = ModPowStep(t0)
    BY ModPowStepType
  <2>6. /\ Mod(u.res * Pow(u.b, u.e)) = Mod(t0.res * Pow(t0.b, t0.e))
        /\ u.e < t0.e \/ u.e = 0
    BY <2>5, ModPowStepKeeps
  <2>7. u.e \in Nat /\ t0.e \in Nat
    BY DEF ModPowState
  <2> HIDE DEF S
  <2> QED
    BY <2>3, <2>4, <2>5, <2>6, <2>7
<1>10. Nat \subseteq S
  <2> HIDE DEF S
  <2> QED
    BY <1>8, <1>9, Induction
<1>11. PICK last \in ModPowState : /\ last = s[exp] /\ last.e = 0
                                   /\ Mod(last.res * Pow(last.b, last.e)) = goal
  <2>1. exp \in S
    BY <1>10
  <2>2. s[exp] \in ModPowState /\ (s[exp].e <= 0 \/ s[exp].e = 0)
    BY <2>1
  <2>3. s[exp].e = 0
    BY <2>2 DEF ModPowState
  <2> QED
    BY <2>1, <2>2, <2>3
<1>12. PICK r \in Int : r = last.res /\ r \in Scalar
  BY ScalarIsInt DEF ModPowState
<1>13. Pow(last.b, 0) = 1
  BY PowSteps DEF ModPowState
<1>14. r * 1 = r
  OBVIOUS
<1> QED
  BY <1>5, <1>7, <1>11, <1>12, <1>13, <1>14, ModOfScalar

\* shamir.ts: Fermat's inverse is the inverse.
LEMMA InvertIsInv ==
  ASSUME NEW a \in Int, Mod(a) # 0
  PROVE  Invert(a) = Inv(a)
<1>1. PICK b \in Int : b = Mod(a) /\ Mod(b) = Mod(a)
  BY ModType, ModMod
<1>2. PICK n \in Nat : n = Order - 2 /\ n + 1 = Order - 1
  BY OrderFacts
<1>3. PICK c \in Int : c = Mod(b) /\ Mod(c) # 0
  BY <1>1, ModType, ModMod
<1>4. Invert(a) = Pow(c, n)
  BY <1>1, <1>2, <1>3, ModPowIsPow DEF Invert
<1>5. PICK p \in Scalar : p = Pow(c, n) /\ p \in Int
  BY PowSteps
<1>6. Mod(p * c) = 1
  BY <1>2, <1>3, <1>5, Fermat, PowSteps
<1>7. Mod(a * p) = Mod(p * c)
  <2>1. Mod(p * a) = Mod(p * c)
    <3>1. Mod(p * Mod(a)) = Mod(p * a)
      BY <1>5, ModInside
    <3> QED
      BY <3>1, <1>1, <1>3
  <2>2. p * a = a * p
    BY <1>5
  <2> QED
    BY <2>1, <2>2
<1> QED
  BY <1>4, <1>5, <1>6, <1>7, InvUnique

\* One turn of the extended Euclid.
ModInverseStep(t) ==
  LET q == t.old_r \div t.r
  IN IF t.r = 0 THEN t
     ELSE [old_r |-> t.r, r |-> t.old_r - q * t.r, old_s |-> t.s, s |-> t.old_s - q * t.s]

ModInverseState == [old_r : Nat, r : Nat, old_s : Int, s : Int]

\* The remainders are those of a times the cofactors, and have no common divisor.
Euclidean(t, a) ==
  /\ Mod(t.old_s * a) = Mod(t.old_r) /\ Mod(t.s * a) = Mod(t.r)
  /\ \E u \in Int, v \in Int : u * t.old_r + v * t.r = 1

\* The quotient and remainder of a turn of modInverse.
LEMMA Division ==
  ASSUME NEW x \in Nat, NEW y \in Nat, y # 0
  PROVE  \E q \in Int, r \in Nat : q = x \div y /\ x - q * y = r /\ r < y
<1>1. y \in Nat \ {0}
  OBVIOUS
<1>2. x \div y \in Int /\ x % y \in 0 .. y - 1 /\ x = (x \div y) * y + (x % y)
  BY <1>1
<1>3. PICK q \in Int : q = x \div y
  BY <1>2
<1>4. PICK r \in 0 .. y - 1 : r = x % y
  BY <1>2
<1>5. x - q * y = r
  BY <1>2, <1>3, <1>4
<1>6. r \in Nat /\ r < y
  OBVIOUS
<1> QED
  BY <1>3, <1>5, <1>6

\* A turn keeps the cofactors right and makes the remainder smaller.
LEMMA ModInverseStepKeeps ==
  ASSUME NEW a \in Int, NEW t \in ModInverseState, Euclidean(t, a)
  PROVE  LET n == ModInverseStep(t)
         IN n \in ModInverseState /\ Euclidean(n, a) /\ (n.r < t.r \/ n.r = 0)
<1>1. CASE t.r = 0
  BY <1>1 DEF ModInverseStep
<1>2. CASE t.r # 0
  <2>1. PICK x \in Nat, y \in Nat, c \in Int, d \in Int :
          x = t.old_r /\ y = t.r /\ c = t.old_s /\ d = t.s
    BY DEF ModInverseState
  <2>2. PICK q \in Int, r \in Nat : q = x \div y /\ x - q * y = r /\ r < y
    BY <1>2, <2>1, Division
  <2>3. PICK e \in Int : e = c - q * d
    OBVIOUS
  <2>4. ModInverseStep(t) = [old_r |-> y, r |-> r, old_s |-> d, s |-> e]
    BY <1>2, <2>1, <2>2, <2>3 DEF ModInverseStep
  <2>5. Mod(c * a) = Mod(x) /\ Mod(d * a) = Mod(y)
    BY <2>1 DEF Euclidean
  <2>6. Mod(e * a) = Mod(r)
    <3>1. c * a \in Int /\ d * a \in Int /\ q * (d * a) \in Int /\ q * y \in Int
      OBVIOUS
    <3>2. Mod(q * (d * a)) = Mod(q * y)
      <4>1. PICK z \in Int, w \in Int : z = d * a /\ w = y
        BY <3>1
      <4>2. Mod(z) = Mod(w)
        BY <4>1, <2>5
      <4>3. Mod(q * z) = Mod(q * w)
        BY <4>2, ModTimes
      <4> QED
        BY <4>1, <4>3
    <3>3. PICK g \in Int, h \in Int, k \in Int : g = c * a /\ h = q * (d * a) /\ k = q * y
      BY <3>1
    <3>4. Mod(g - h) = Mod(x - k)
      <4>1. Mod(g) = Mod(x) /\ Mod(h) = Mod(k)
        BY <3>2, <3>3, <2>5
      <4> QED
        BY <4>1, ModAdd
    <3>5. g - h = e * a
      <4>1. (c - q * d) * a = c * a - q * (d * a)
        OBVIOUS
      <4> QED
        BY <4>1, <3>3, <2>3
    <3> QED
      BY <3>3, <3>4, <3>5, <2>2
  <2>7. \E u \in Int, v \in Int : u * y + v * r = 1
    <3>1. PICK u \in Int, v \in Int : u * x + v * y = 1
      BY <2>1 DEF Euclidean
    <3>2. x = q * y + r
      BY <2>2
    <3>3. (u * q + v) * y + u * r = u * (q * y + r) + v * y
      OBVIOUS
    <3>4. (u * q + v) * y + u * r = 1 /\ u * q + v \in Int
      BY <3>1, <3>2, <3>3
    <3> QED
      BY <3>4
  <2>8. ModInverseStep(t) \in ModInverseState
    BY <2>4 DEF ModInverseState
  <2>9. Euclidean(ModInverseStep(t), a)
    <3>1. PICK n : n = ModInverseStep(t) /\ n.old_r = y /\ n.r = r /\ n.old_s = d /\ n.s = e
      BY <2>4
    <3>2. Mod(n.old_s * a) = Mod(n.old_r) /\ Mod(n.s * a) = Mod(n.r)
      BY <3>1, <2>5, <2>6
    <3>3. \E u \in Int, v \in Int : u * n.old_r + v * n.r = 1
      BY <3>1, <2>7
    <3> QED
      BY <3>1, <3>2, <3>3 DEF Euclidean
  <2> QED
    BY <2>1, <2>2, <2>4, <2>8, <2>9
<1> QED
  BY <1>1, <1>2

\* frost.ts: the extended Euclid finds the inverse.
LEMMA ModInverseIsInv ==
  ASSUME NEW a \in Int, Mod(a) # 0
  PROVE  ModInverse(a) = Inv(a)
<1>1. PICK start \in ModInverseState :
        start = [old_r |-> Mod(a), r |-> Order, old_s |-> 1, s |-> 0]
  <2>1. Mod(a) \in Nat
    BY ModType, OrderFacts DEF Scalar
  <2>2. [old_r |-> Mod(a), r |-> Order, old_s |-> 1, s |-> 0] \in ModInverseState
    BY <2>1, OrderFacts DEF ModInverseState
  <2> QED
    BY <2>2
<1>2. Euclidean(start, a)
  <2>1. PICK b \in Int : b = Mod(a) /\ Mod(b) = Mod(a)
    BY ModType, ModMod
  <2>2. 1 * a = a /\ 0 * a = 0 /\ 1 * Order + 0 = Order
    BY OrderFacts
  <2>3. Mod(0) = Mod(Order)
    <3>1. 0 + 1 * Order = Order
      BY OrderFacts
    <3> QED
      BY <3>1, ModShift
  <2>4. \E u \in Int, v \in Int : u * b + v * Order = 1
    <3>1. PICK u \in Int : Mod(b * u) = 1 /\ b * u \in Int
      BY <2>1, InvType
    <3>2. PICK p \in Int : b * u = p * Order + 1
      BY <3>1, ModSplits
    <3>3. u * b + (-p) * Order = 1 /\ -p \in Int
      BY <3>2, OrderFacts
    <3> QED
      BY <3>3
  <2> QED
    BY <1>1, <2>1, <2>2, <2>3, <2>4 DEF Euclidean
<1> DEFINE Def(t) == [k \in 0 .. Order |->
             IF k = 0 THEN [old_r |-> Mod(a), r |-> Order, old_s |-> 1, s |-> 0]
             ELSE ModInverseStep(t[k - 1])]
           Good == {v \in ModInverseState : Euclidean(v, a)}
<1>3. PICK step : \A k \in 1 .. Order, v \in Good : step[<<k, v>>] = ModInverseStep(v)
  <2> DEFINE step == [p \in (1 .. Order) \X Good |-> ModInverseStep(p[2])]
  <2>1. \A k \in 1 .. Order, v \in Good : step[<<k, v>>] = ModInverseStep(v)
    <3> HIDE DEF Good
    <3> QED
      OBVIOUS
  <2> QED
    BY <2>1
<1>4. PICK t : Iterates(t, Order, Good, start, step)
  <2>1. \A v \in Good : ModInverseStep(v) \in Good
    BY ModInverseStepKeeps
  <2>2. start \in Good
    BY <1>2
  <2>3. \A k \in 1 .. Order, v \in Good : step[<<k, v>>] \in Good
    BY <2>1, <1>3
  <2> HIDE DEF Good
  <2> QED
    BY <2>2, <2>3, OrderFacts, Recursion
<1>5. t = Def(t)
  <2> HIDE DEF Good
  <2>1. \A k \in 1 .. Order : t[k] = ModInverseStep(t[k - 1])
    <3>1. \A k \in 1 .. Order : t[k - 1] \in Good /\ t[k] = step[<<k, t[k - 1]>>]
      BY <1>4, OrderFacts DEF Iterates
    <3> QED
      BY <3>1, <1>3
  <2>2. t[0] = start
    BY <1>4 DEF Iterates
  <2>3. \A k \in 0 .. Order : k = 0 \/ k \in 1 .. Order
    BY OrderFacts
  <2>4. \A k \in 0 .. Order : t[k] = IF k = 0
          THEN [old_r |-> Mod(a), r |-> Order, old_s |-> 1, s |-> 0] ELSE ModInverseStep(t[k - 1])
    BY <2>1, <2>2, <2>3, <1>1
  <2> QED
    BY <2>4, <1>4 DEF Iterates
<1>6. PICK s : s = Def(s) /\ ModInverse(a) = Mod(s[Order].old_s)
  <2> DEFINE s == CHOOSE g : g = Def(g)
  <2>1. s = Def(s)
    BY <1>5
  <2> QED
    BY <2>1 DEF ModInverse, ModInverseStep
<1>7. s[0] = start /\ \A k \in 1 .. Order : s[k] = ModInverseStep(s[k - 1])
  BY <1>1, <1>6, OrderFacts
<1> DEFINE S == {k \in Nat : k <= Order =>
             s[k] \in Good /\ (s[k].r <= Order - k \/ s[k].r = 0)}
<1>8. 0 \in S
  BY <1>1, <1>2, <1>7, OrderFacts
<1>9. ASSUME NEW k \in Nat, k \in S PROVE k + 1 \in S
  <2>1. SUFFICES ASSUME k + 1 <= Order
                 PROVE s[k + 1] \in Good /\ (s[k + 1].r <= Order - (k + 1) \/ s[k + 1].r = 0)
    OBVIOUS
  <2>2. k + 1 \in 1 .. Order /\ (k + 1) - 1 = k /\ k <= Order
    BY <2>1, OrderFacts
  <2>3. PICK u \in ModInverseState :
          u = s[k] /\ Euclidean(u, a) /\ (u.r <= Order - k \/ u.r = 0)
    BY <1>9, <2>2
  <2>4. PICK n : n = ModInverseStep(u)
    OBVIOUS
  <2>5. n \in ModInverseState /\ Euclidean(n, a) /\ (n.r < u.r \/ n.r = 0)
    BY <2>3, <2>4, ModInverseStepKeeps
  <2>6. s[k + 1] = n
    BY <1>7, <2>2, <2>3, <2>4
  <2>7. n.r \in Nat /\ u.r \in Nat
    BY <2>5 DEF ModInverseState
  <2> HIDE DEF S
  <2> QED
    BY <2>3, <2>5, <2>6, <2>7, OrderFacts
<1>10. Nat \subseteq S
  <2> HIDE DEF S
  <2> QED
    BY <1>8, <1>9, Induction
<1>11. PICK last \in ModInverseState : last = s[Order] /\ Euclidean(last, a) /\ last.r = 0
  <2>1. Order \in S
    BY <1>10, OrderFacts
  <2>2. s[Order] \in ModInverseState /\ Euclidean(s[Order], a) /\ (s[Order].r <= 0 \/ s[Order].r = 0)
    BY <2>1, OrderFacts
  <2>3. s[Order].r = 0
    BY <2>2 DEF ModInverseState
  <2> QED
    BY <2>2, <2>3
<1>12. PICK x \in Nat, c \in Int : x = last.old_r /\ c = last.old_s
  BY DEF ModInverseState
<1>13. x = 1
  <2>1. PICK u \in Int, v \in Int : u * x + v * 0 = 1
    BY <1>11, <1>12 DEF Euclidean
  <2>2. u * x = 1
    BY <2>1
  <2>3. ~(x >= 2)
    <3>1. SUFFICES ASSUME x >= 2 PROVE FALSE
      OBVIOUS
    <3>2. CASE u <= 0
      <4>1. u * x <= 0
        BY <3>2
      <4> QED
        BY <4>1, <2>2
    <3>3. CASE u >= 1
      <4>1. u * x >= x
        BY <3>3
      <4> QED
        BY <4>1, <3>1, <2>2
    <3> QED
      BY <3>2, <3>3
  <2>4. x # 0
    BY <2>2
  <2> QED
    BY <2>3, <2>4
<1>14. Mod(c * a) = 1
  BY <1>11, <1>12, <1>13, ScalarIsInt, ModOfScalar DEF Euclidean
<1>15. Mod(a * Mod(c)) = 1
  <2>1. Mod(a * Mod(c)) = Mod(a * c) /\ a * c = c * a
    BY ModInside
  <2> QED
    BY <2>1, <1>14
<1>16. Mod(c) \in Scalar /\ ModInverse(a) = Mod(c)
  BY <1>6, <1>11, <1>12, ModType
<1> QED
  BY <1>15, <1>16, InvUnique

-------------------------------------------------------------------------------
(***************************************************************************)
(* Lagrange interpolation at zero.                                         *)
(***************************************************************************)

Distinct(ids, N) ==
  ids \in [1 .. N -> NonZero] /\ \A k \in 1 .. N, l \in 1 .. N : ids[k] = ids[l] => k = l

Recip(y, x) == IF y = x THEN 0 ELSE Inv(y - x)

\* Ids are scalars other than zero, and different.
LEMMA IdFacts ==
  ASSUME NEW N, NEW ids, Distinct(ids, N)
  PROVE  /\ DOMAIN ids = 1 .. N
         /\ \A k \in 1 .. N : ids[k] \in Scalar /\ ids[k] \in Int /\ ids[k] # 0
         /\ \A k \in 1 .. N, l \in 1 .. N : ids[k] = ids[l] => k = l
<1>1. \A v \in NonZero : v \in Scalar /\ v \in Int /\ v # 0
  BY ScalarIsInt DEF NonZero
<1> QED
  BY <1>1 DEF Distinct

IsRecip(u, d) == Mod(u * d) = 1

\* Recip is the reciprocal of the difference of two scalars that differ.
LEMMA RecipFacts ==
  ASSUME NEW x \in Scalar, NEW y \in Scalar
  PROVE  Recip(y, x) \in Int /\ (y # x => IsRecip(Recip(y, x), y - x))
<1>1. CASE y = x
  BY <1>1 DEF Recip
<1>2. CASE y # x
  <2>1. PICK d \in Int : d = y - x /\ Mod(d) # 0
    BY <1>2, ScalarIsInt, DifferenceNotZero
  <2>2. PICK i \in Int : i = Inv(d) /\ Mod(d * i) = 1
    BY <2>1, InvType
  <2>3. d * i = i * d
    OBVIOUS
  <2> QED
    BY <1>2, <2>1, <2>2, <2>3 DEF Recip, IsRecip
<1> QED
  BY <1>1, <1>2

\* What the other ids contribute to the coefficient of x.
Factors(ids, x) ==
  [j \in DOMAIN ids |-> IF ids[j] = x THEN 1 ELSE ids[j] * Recip(ids[j], x)]

\* The Lagrange coefficient of x among the first n ids.
Lambda(ids, x, n) == Product(Factors(ids, x), n)

\* How coefficients start and go on, an id at a time.
LEMMA LambdaSteps ==
  ASSUME NEW N \in Nat, NEW ids, Distinct(ids, N), NEW x \in Scalar
  PROVE  /\ Lambda(ids, x, 0) = 1
         /\ \A n \in 0 .. N : Lambda(ids, x, n) \in Scalar /\ Lambda(ids, x, n) \in Int
         /\ \A n \in 1 .. N :
              Lambda(ids, x, n) = IF ids[n] = x THEN Lambda(ids, x, n - 1)
                ELSE Mod(Lambda(ids, x, n - 1) * (ids[n] * Recip(ids[n], x)))
<1>1. PICK f : f = Factors(ids, x)
  OBVIOUS
<1>2. \A j \in 1 .. N : ids[j] \in Int /\ ids[j] \in Scalar
  BY ScalarIsInt DEF Distinct
<1>3. \A j \in 1 .. N : f[j] = IF ids[j] = x THEN 1 ELSE ids[j] * Recip(ids[j], x)
  BY <1>1 DEF Factors, Distinct
<1>4. f \in [1 .. N -> Int]
  <2>1. ASSUME NEW j \in 1 .. N PROVE f[j] \in Int
    <3>1. PICK a \in Int, b \in Int : a = ids[j] /\ b = Recip(ids[j], x)
      BY <1>2, RecipFacts
    <3>2. a * b \in Int
      OBVIOUS
    <3> QED
      BY <3>1, <3>2, <1>3
  <2> QED
    BY <2>1, <1>1 DEF Factors, Distinct
<1>5. \A n \in 0 .. N : Product(f, n) = Lambda(ids, x, n)
  BY <1>1 DEF Lambda
<1>6. ASSUME NEW n \in 1 .. N
      PROVE  Product(f, n) = IF ids[n] = x THEN Product(f, n - 1)
               ELSE Mod(Product(f, n - 1) * (ids[n] * Recip(ids[n], x)))
  <2>1. Product(f, n) = Mod(Product(f, n - 1) * f[n]) /\ Product(f, n - 1) \in Scalar
    <3>1. n - 1 \in 0 .. N
      OBVIOUS
    <3> QED
      BY <3>1, <1>4, ProductSteps
  <2>2. PICK p \in Int : p = Product(f, n - 1) /\ Mod(p) = p /\ p * 1 = p
    <3>1. PICK r \in Scalar : r = Product(f, n - 1) /\ r \in Int
      BY <2>1, ScalarIsInt
    <3>2. Mod(r) = r /\ r * 1 = r
      BY <3>1, ModOfScalar
    <3> QED
      BY <3>1, <3>2
  <2> QED
    BY <2>1, <2>2, <1>3
<1>7. \A n \in 1 .. N : n - 1 \in 0 .. N /\ n \in 0 .. N
  OBVIOUS
<1>8. Lambda(ids, x, 0) = 1 /\ \A n \in 0 .. N : Lambda(ids, x, n) \in Scalar
  <2>1. Product(f, 0) = 1 /\ \A n \in 0 .. N : Product(f, n) \in Scalar
    BY <1>4, ProductSteps
  <2> QED
    BY <2>1, <1>5
<1> QED
  BY <1>5, <1>6, <1>7, <1>8, ScalarIsInt

\* 1 / (m - i) times 1 / (i - x) as a difference of fractions over m - x.
Splits(U, V, W, Z) == Mod(U * V) = Mod(W * (U - Z))

\* Partial fractions, once.
LEMMA PartialFraction ==
  ASSUME NEW U \in Int, NEW V \in Int, NEW W \in Int, NEW Z \in Int, NEW p \in Int, NEW q \in Int,
         IsRecip(U, p), IsRecip(V, q), IsRecip(W, p + q), IsRecip(Z, -q)
  PROVE  Splits(U, V, W, Z)
<1>0. /\ U * p \in Int /\ V * q \in Int /\ W * (p + q) \in Int /\ Z * (-q) \in Int
  OBVIOUS
<1>1. PICK a \in Int : U * p = a * Order + 1
  BY <1>0, ModSplits DEF IsRecip
<1>2. PICK b \in Int : V * q = b * Order + 1
  BY <1>0, ModSplits DEF IsRecip
<1>3. PICK c \in Int : W * (p + q) = c * Order + 1
  BY <1>0, ModSplits DEF IsRecip
<1>4. PICK d \in Int : Z * (-q) = d * Order + 1
  BY <1>0, ModSplits DEF IsRecip
<1>5. Order \in Int
  BY OrderFacts
<1>6. (U * V) * (W * (p + q)) = W * (V * (U * p) + U * (V * q))
  OBVIOUS
<1>7. (U * V) * (c * Order + 1) = W * (V * (a * Order + 1) + U * (b * Order + 1))
  BY <1>1, <1>2, <1>3, <1>6
<1>8. V * (Z * (-q)) = (-Z) * (V * q)
  OBVIOUS
<1>9. V * (d * Order + 1) = (-Z) * (b * Order + 1)
  BY <1>2, <1>4, <1>8
<1>10. V = -Z + (-(Z * b) - V * d) * Order
  <2>1. V * (d * Order + 1) = V + (V * d) * Order
    BY <1>5
  <2>2. (-Z) * (b * Order + 1) = -Z + (-(Z * b)) * Order
    BY <1>5
  <2>3. (-(Z * b) - V * d) * Order = (-(Z * b)) * Order - (V * d) * Order
    BY <1>5
  <2>4. (V * d) * Order \in Int /\ (-(Z * b)) * Order \in Int
    BY <1>5
  <2> QED
    BY <1>9, <2>1, <2>2, <2>3, <2>4
<1>11. U * V = W * (U + V) + (W * (V * a + U * b) - (U * V) * c) * Order
  <2>1. (U * V) * (c * Order + 1) = U * V + ((U * V) * c) * Order
    BY <1>5
  <2>2. W * (V * (a * Order + 1) + U * (b * Order + 1)) = W * (U + V) + (W * (V * a + U * b)) * Order
    BY <1>5
  <2>3. (W * (V * a + U * b) - (U * V) * c) * Order
          = (W * (V * a + U * b)) * Order - ((U * V) * c) * Order
    BY <1>5
  <2>4. ((U * V) * c) * Order \in Int /\ (W * (V * a + U * b)) * Order \in Int /\ W * (U + V) \in Int
    BY <1>5
  <2> QED
    BY <1>7, <2>1, <2>2, <2>3, <2>4
<1>12. Mod(U * V) = Mod(W * (U + V))
  <2>1. W * (U + V) \in Int /\ W * (V * a + U * b) - (U * V) * c \in Int
    OBVIOUS
  <2> QED
    BY <2>1, <1>11, ModShift
<1>13. Mod(V) = Mod(-Z)
  <2>1. -Z \in Int /\ -(Z * b) - V * d \in Int
    OBVIOUS
  <2> QED
    BY <2>1, <1>10, ModShift
<1>14. Mod(W * (U + V)) = Mod(W * (U - Z))
  <2>1. PICK e \in Int : e = -Z
    OBVIOUS
  <2>2. Mod(U + V) = Mod(U + e) /\ U + e = U - Z
    <3>1. Mod(V) = Mod(e)
      BY <2>1, <1>13
    <3>2. Mod(U + V) = Mod(U + e)
      BY <3>1, PlusSame, Zenon
    <3>3. U + e = U - Z
      BY <2>1
    <3> QED
      BY <3>2, <3>3
  <2>3. PICK g \in Int, h \in Int : g = U + V /\ h = U - Z /\ Mod(g) = Mod(h)
    BY <2>2
  <2>4. Mod(W * g) = Mod(W * h)
    <3>1. PICK w \in Int : w = W
      OBVIOUS
    <3>2. Mod(g) = Mod(h)
      BY <2>3
    <3>3. Mod(w * g) = Mod(w * h)
      BY <3>2, TimesSame, Zenon
    <3> QED
      BY <3>1, <3>3
  <2> QED
    BY <2>3, <2>4
<1> QED
  BY <1>12, <1>14 DEF Splits

\* The step of a coefficient, from n to n + 1.
LEMMA LambdaNext ==
  ASSUME NEW N \in Nat, NEW ids, Distinct(ids, N), NEW x \in Scalar, NEW n \in Nat, n + 1 <= N
  PROVE  Lambda(ids, x, n + 1) = IF ids[n + 1] = x THEN Lambda(ids, x, n)
           ELSE Mod(Lambda(ids, x, n) * (ids[n + 1] * Recip(ids[n + 1], x)))
<1>1. PICK j \in 1 .. N : j = n + 1 /\ j - 1 = n
  OBVIOUS
<1>2. Lambda(ids, x, j) = IF ids[j] = x THEN Lambda(ids, x, j - 1)
        ELSE Mod(Lambda(ids, x, j - 1) * (ids[j] * Recip(ids[j], x)))
  BY LambdaSteps
<1> QED
  BY <1>1, <1>2

\* The fractions that the product of ids[j] / (ids[j] - x) falls into.
Fractions(ids, x, n) ==
  [k \in DOMAIN ids |-> Lambda(ids, ids[k], n) * (ids[k] * Recip(ids[k], x))]

\* The fractions are numbers.
LEMMA FractionsType ==
  ASSUME NEW N \in Nat, NEW ids, Distinct(ids, N), NEW x \in Scalar, NEW n \in 0 .. N
  PROVE  /\ Fractions(ids, x, n) \in [1 .. N -> Int]
         /\ \A k \in 1 .. N :
              Fractions(ids, x, n)[k] = Lambda(ids, ids[k], n) * (ids[k] * Recip(ids[k], x))
<1>1. ASSUME NEW k \in 1 .. N PROVE Lambda(ids, ids[k], n) * (ids[k] * Recip(ids[k], x)) \in Int
  <2>1. ids[k] \in Scalar /\ ids[k] \in Int
    BY ScalarIsInt DEF Distinct
  <2>2. PICK a \in Int, b \in Int, c \in Int :
          a = Lambda(ids, ids[k], n) /\ b = ids[k] /\ c = Recip(ids[k], x)
    BY <2>1, LambdaSteps, RecipFacts
  <2>3. a * (b * c) \in Int
    OBVIOUS
  <2> QED
    BY <2>2, <2>3
<1> QED
  BY <1>1 DEF Fractions, Distinct

Splitting(A, i, m, U, V, W, Z) ==
  Mod(Mod(A * (m * V)) * (i * U)) = Mod((m * W) * (A * (i * U) + (-1) * (A * (i * Z))))

\* The arithmetic of one term: A is the coefficient of i, m the id that joins.
LEMMA FractionTerm ==
  ASSUME NEW A \in Int, NEW i \in Int, NEW m \in Int, NEW U \in Int, NEW V \in Int, NEW W \in Int,
         NEW Z \in Int, Splits(U, V, W, Z)
  PROVE  Splitting(A, i, m, U, V, W, Z)
<1>1. PICK v \in Int, u \in Int : v = A * (m * V) /\ u = i * U
  OBVIOUS
<1>2. Mod(Mod(v) * u) = Mod(v * u)
  BY ModInside
<1>3. PICK c \in Int, s \in Int, t \in Int : c = (A * i) * m /\ s = U * V /\ t = W * (U - Z)
  OBVIOUS
<1>4. Mod(c * s) = Mod(c * t)
  <2>1. Mod(s) = Mod(t)
    BY <1>3 DEF Splits
  <2> QED
    BY <2>1, TimesSame, Zenon
<1>5. v * u = c * s
  <2>1. (A * (m * V)) * (i * U) = ((A * i) * m) * (U * V)
    OBVIOUS
  <2> QED
    BY <2>1, <1>1, <1>3
<1>6. (m * W) * (A * (i * U) + (-1) * (A * (i * Z))) = c * t
  <2>1. (m * W) * (A * (i * U) + (-1) * (A * (i * Z))) = ((A * i) * m) * (W * (U - Z))
    OBVIOUS
  <2> QED
    BY <2>1, <1>3
<1> QED
  BY <1>1, <1>2, <1>4, <1>5, <1>6 DEF Splitting

\* The last term joins the others.
LEMMA FractionSum ==
  ASSUME NEW P \in Int, NEW Q \in Int, NEW c \in Int
  PROVE  Mod(Mod(c * (P + (-1) * Q)) + Q * c) = Mod(P * c)
<1>1. PICK u \in Int, v \in Int : u = c * (P + (-1) * Q) /\ v = Q * c
  OBVIOUS
<1>2. Mod(Mod(u) + v) = Mod(u + v)
  BY ModInside
<1>3. c * (P + (-1) * Q) + Q * c = P * c
  OBVIOUS
<1> QED
  BY <1>1, <1>2, <1>3

Expands(ids, x, n) == Lambda(ids, x, n) = Sum(Fractions(ids, x, n), n)

\* With one more id, each fraction splits in two.
LEMMA ExpandsStep ==
  ASSUME NEW N \in Nat, NEW ids, Distinct(ids, N), NEW n \in 1 .. N, n + 1 \in 1 .. N,
         \A x \in Scalar : (\A k \in 1 .. n : ids[k] # x) => Expands(ids, x, n),
         NEW x \in Scalar, \A k \in 1 .. n + 1 : ids[k] # x
  PROVE  Expands(ids, x, n + 1)
<1>1. PICK m \in Int : m = ids[n + 1] /\ m \in Scalar
  BY IdFacts
<1>2. n \in 0 .. N /\ n + 1 \in 0 .. N /\ (n + 1) - 1 = n /\ x \in Int /\ n \in Nat
  BY ScalarIsInt
<1>3. \A k \in 1 .. n : k \in 1 .. N /\ k \in 1 .. n + 1 /\ ids[k] # m /\ ids[k] # x
  BY <1>1 DEF Distinct
<1>4. m # x
  BY <1>1
<1>5. PICK W \in Int : W = Recip(m, x) /\ IsRecip(W, m - x)
  BY <1>1, <1>4, RecipFacts
<1>6. PICK f \in [1 .. N -> Int] : f = Fractions(ids, x, n)
  BY <1>2, FractionsType
<1>7. PICK g \in [1 .. N -> Int] : g = Fractions(ids, m, n)
  BY <1>1, <1>2, FractionsType
<1>8. PICK h \in [1 .. N -> Int] : h = Fractions(ids, x, n + 1)
  BY <1>2, FractionsType
<1>9. PICK c \in Int : c = m * W
  OBVIOUS
<1>10. ASSUME NEW k \in 1 .. n PROVE Mod(h[k]) = Mod(c * (f[k] + (-1) * g[k]))
  <2>1. PICK i \in Int : i = ids[k] /\ i \in Scalar /\ i # m /\ i # x
    BY <1>3, IdFacts
  <2>2. PICK U \in Int : U = Recip(i, x) /\ IsRecip(U, i - x)
    BY <2>1, RecipFacts
  <2>3. PICK V \in Int : V = Recip(m, i) /\ IsRecip(V, m - i)
    BY <1>1, <2>1, RecipFacts
  <2>4. PICK Z \in Int : Z = Recip(i, m) /\ IsRecip(Z, i - m)
    BY <1>1, <2>1, RecipFacts
  <2>5. PICK A \in Int : A = Lambda(ids, i, n)
    BY <1>2, <2>1, LambdaSteps
  <2>6. Splits(U, V, W, Z)
    <3>1. PICK p \in Int, q \in Int : p = i - x /\ q = m - i
      BY <1>2
    <3>2. p + q = m - x /\ -q = i - m
      BY <3>1, <1>2
    <3>3. IsRecip(U, p) /\ IsRecip(V, q) /\ IsRecip(W, p + q) /\ IsRecip(Z, -q)
      BY <3>1, <3>2, <1>5, <2>2, <2>3, <2>4
    <3> QED
      BY <3>3, PartialFraction
  <2>7. Lambda(ids, i, n + 1) = Mod(A * (m * V))
    <3>1. Lambda(ids, i, n + 1) = Mod(Lambda(ids, i, n) * (ids[n + 1] * Recip(ids[n + 1], i)))
      BY <1>1, <1>2, <2>1, LambdaNext
    <3> QED
      BY <3>1, <1>1, <2>3, <2>5
  <2>8. h[k] = Mod(A * (m * V)) * (i * U)
    <3>1. h[k] = Lambda(ids, ids[k], n + 1) * (ids[k] * Recip(ids[k], x))
      BY <1>2, <1>3, <1>8, FractionsType
    <3> QED
      BY <3>1, <2>1, <2>2, <2>7
  <2>9. f[k] = A * (i * U)
    <3>1. f[k] = Lambda(ids, ids[k], n) * (ids[k] * Recip(ids[k], x))
      BY <1>2, <1>3, <1>6, FractionsType
    <3> QED
      BY <3>1, <2>1, <2>2, <2>5
  <2>10. g[k] = A * (i * Z)
    <3>1. g[k] = Lambda(ids, ids[k], n) * (ids[k] * Recip(ids[k], m))
      <4>1. m \in Scalar /\ n \in 0 .. N /\ k \in 1 .. N
        BY <1>1, <1>2, <1>3
      <4> QED
        BY <4>1, <1>7, FractionsType
    <3> QED
      BY <3>1, <2>1, <2>4, <2>5
  <2>11. Splitting(A, i, m, U, V, W, Z)
    BY <2>6, FractionTerm
  <2> QED
    BY <1>9, <2>8, <2>9, <2>10, <2>11 DEF Splitting
<1>11. Sum(h, n) = Mod(c * (Sum(f, n) + (-1) * Sum(g, n)))
  <2>1. PICK d \in Int : d = -1
    OBVIOUS
  <2>2. LinearUpTo(h, f, g, c, d, n)
    BY <2>1, <1>10 DEF LinearUpTo
  <2>3. SumsLinearly(h, f, g, c, d, n)
    BY <2>2, <1>2, SumLinear
  <2> QED
    BY <2>1, <2>3 DEF SumsLinearly
<1>12. PICK P \in Int : P = Lambda(ids, x, n) /\ P = Sum(f, n)
  BY <1>2, <1>3, <1>6, LambdaSteps DEF Expands
<1>13. PICK Q \in Int : Q = Lambda(ids, m, n) /\ Q = Sum(g, n)
  BY <1>1, <1>2, <1>3, <1>7, LambdaSteps DEF Expands
<1>14. h[n + 1] = Q * c
  <2>1. Lambda(ids, m, n + 1) = Q
    <3>1. Lambda(ids, m, n + 1) = Lambda(ids, m, n)
      BY <1>1, <1>2, LambdaNext
    <3> QED
      BY <3>1, <1>13
  <2>2. h[n + 1] = Lambda(ids, ids[n + 1], n + 1) * (ids[n + 1] * Recip(ids[n + 1], x))
    BY <1>2, <1>8, FractionsType
  <2> QED
    BY <2>1, <2>2, <1>1, <1>5, <1>9
<1>15. Sum(h, n + 1) = Mod(Mod(c * (P + (-1) * Q)) + Q * c)
  <2>1. Sum(h, n + 1) = Mod(Sum(h, n) + h[n + 1])
    BY <1>2, SumSteps
  <2> QED
    BY <2>1, <1>11, <1>12, <1>13, <1>14
<1>16. Lambda(ids, x, n + 1) = Mod(P * c)
  <2>1. Lambda(ids, x, n + 1) = Mod(Lambda(ids, x, n) * (ids[n + 1] * Recip(ids[n + 1], x)))
    BY <1>1, <1>2, <1>4, LambdaNext
  <2> QED
    BY <2>1, <1>1, <1>5, <1>9, <1>12
<1>17. Mod(Mod(c * (P + (-1) * Q)) + Q * c) = Mod(P * c)
  BY FractionSum, Zenon
<1> QED
  BY <1>8, <1>15, <1>16, <1>17 DEF Expands

\* The product is the sum of the fractions, wherever it is taken but at the ids.
LEMMA ExpandsAlways ==
  ASSUME NEW N \in Nat, NEW ids, Distinct(ids, N), NEW n \in 1 .. N, NEW x \in Scalar,
         \A k \in 1 .. n : ids[k] # x
  PROVE  Expands(ids, x, n)
<1> DEFINE S == {j \in Nat : j + 1 <= N => \A y \in Scalar :
                   (\A k \in 1 .. j + 1 : ids[k] # y) => Expands(ids, y, j + 1)}
<1>1. 0 \in S
  <2>1. SUFFICES ASSUME 1 <= N, NEW y \in Scalar, ids[1] # y PROVE Expands(ids, y, 1)
    BY DEF Expands
  <2>2. PICK i \in Int : i = ids[1] /\ i \in Scalar
    BY <2>1, IdFacts
  <2>3. PICK r \in Int : r = Recip(i, y)
    BY <2>2, RecipFacts
  <2>4. 0 \in Nat /\ 0 + 1 <= N /\ 0 + 1 = 1 /\ 1 \in 1 .. N /\ 1 \in 0 .. N /\ 1 - 1 = 0
    BY <2>1
  <2>5. PICK c \in Int : c = i * r /\ 1 * c = c /\ 0 + c = c
    OBVIOUS
  <2>6. Lambda(ids, y, 1) = Mod(c)
    <3>1. Lambda(ids, y, 0 + 1) = Mod(Lambda(ids, y, 0) * (ids[0 + 1] * Recip(ids[0 + 1], y)))
      BY <2>1, <2>4, LambdaNext
    <3>2. Lambda(ids, y, 0) = 1
      BY LambdaSteps
    <3> QED
      BY <3>1, <3>2, <2>2, <2>3, <2>4, <2>5
  <2>7. Lambda(ids, i, 1) = 1
    <3>1. Lambda(ids, i, 0 + 1) = Lambda(ids, i, 0)
      BY <2>2, <2>4, LambdaNext
    <3>2. Lambda(ids, i, 0) = 1
      BY <2>2, LambdaSteps
    <3> QED
      BY <3>1, <3>2, <2>4
  <2>8. PICK f \in [1 .. N -> Int] : f = Fractions(ids, y, 1) /\ f[1] = c
    <3>1. /\ Fractions(ids, y, 1) \in [1 .. N -> Int]
          /\ Fractions(ids, y, 1)[1] = Lambda(ids, ids[1], 1) * (ids[1] * Recip(ids[1], y))
      BY <2>4, FractionsType
    <3> QED
      BY <3>1, <2>2, <2>3, <2>5, <2>7
  <2>9. Sum(f, 1) = Mod(c)
    <3>1. Sum(f, 1) = Mod(Sum(f, 0) + f[1]) /\ Sum(f, 0) = 0
      BY <2>4, SumSteps
    <3> QED
      BY <3>1, <2>5, <2>8
  <2> QED
    BY <2>6, <2>8, <2>9 DEF Expands
<1>2. ASSUME NEW j \in Nat, j \in S PROVE j + 1 \in S
  <2>1. SUFFICES ASSUME (j + 1) + 1 <= N, NEW y \in Scalar, \A k \in 1 .. (j + 1) + 1 : ids[k] # y
                 PROVE  Expands(ids, y, (j + 1) + 1)
    OBVIOUS
  <2>2. PICK i \in 1 .. N : i = j + 1 /\ i + 1 \in 1 .. N
    BY <2>1
  <2>3. \A z \in Scalar : (\A k \in 1 .. i : ids[k] # z) => Expands(ids, z, i)
    BY <1>2, <2>1, <2>2
  <2>4. \A k \in 1 .. i + 1 : ids[k] # y
    BY <2>1, <2>2
  <2>5. Expands(ids, y, i + 1)
    BY <2>2, <2>3, <2>4, ExpandsStep
  <2> QED
    BY <2>2, <2>5
<1>3. Nat \subseteq S
  <2> HIDE DEF S
  <2> QED
    BY <1>1, <1>2, Induction
<1>4. PICK j \in Nat : n = j + 1 /\ j + 1 <= N
  <2>1. n - 1 \in Nat /\ n = (n - 1) + 1
    OBVIOUS
  <2> QED
    BY <2>1
<1>5. j \in S
  BY <1>3
<1> QED
  BY <1>4, <1>5

\* A product of ones is one.
LEMMA ProductOfOnes ==
  ASSUME NEW N \in Nat, NEW f \in [1 .. N -> Int], NEW n \in 0 .. N, \A k \in 1 .. n : Mod(f[k]) = 1
  PROVE  Product(f, n) = 1
<1> DEFINE S == {j \in Nat : j <= n => Product(f, j) = 1}
<1>1. 0 \in S
  BY ProductSteps
<1>2. ASSUME NEW j \in Nat, j \in S PROVE j + 1 \in S
  <2>1. SUFFICES ASSUME j + 1 <= n PROVE Product(f, j + 1) = 1
    OBVIOUS
  <2>2. j + 1 \in 1 .. n /\ j + 1 \in 1 .. N /\ (j + 1) - 1 = j /\ Product(f, j) = 1
    BY <1>2, <2>1
  <2>3. PICK v \in Int : v = f[j + 1] /\ Mod(v) = 1 /\ 1 * v = v
    BY <2>2
  <2>4. Product(f, j + 1) = Mod(Product(f, j) * f[j + 1])
    BY <2>2, ProductSteps
  <2> QED
    BY <2>2, <2>3, <2>4
<1>3. Nat \subseteq S
  <2> HIDE DEF S
  <2> QED
    BY <1>1, <1>2, Induction
<1> QED
  BY <1>3

Coefficients(ids, n) == [k \in DOMAIN ids |-> Lambda(ids, ids[k], n)]

\* The coefficients are numbers.
LEMMA CoefficientsType ==
  ASSUME NEW N \in Nat, NEW ids, Distinct(ids, N), NEW n \in 0 .. N
  PROVE  /\ Coefficients(ids, n) \in [1 .. N -> Int]
         /\ \A k \in 1 .. N : Coefficients(ids, n)[k] = Lambda(ids, ids[k], n)
<1>1. \A k \in 1 .. N : Lambda(ids, ids[k], n) \in Int
  BY IdFacts, LambdaSteps
<1> QED
  BY <1>1, IdFacts DEF Coefficients

\* The coefficients add up to one: the expansion at zero.
LEMMA CoefficientsSum ==
  ASSUME NEW N \in Nat, NEW ids, Distinct(ids, N), NEW n \in 1 .. N
  PROVE  Sum(Coefficients(ids, n), n) = 1
<1>1. n \in 0 .. N /\ 0 \in Scalar /\ (\A k \in 1 .. n : k \in 1 .. N /\ ids[k] # 0)
  BY IdFacts, ScalarIsInt
<1>2. PICK f \in [1 .. N -> Int] : f = Coefficients(ids, n)
  BY <1>1, CoefficientsType
<1>3. PICK h \in [1 .. N -> Int] : h = Fractions(ids, 0, n)
  BY <1>1, FractionsType
<1>4. Expands(ids, 0, n)
  BY <1>1, ExpandsAlways
<1>5. ASSUME NEW k \in 1 .. n
      PROVE  \E i \in Int, r \in Int : i = ids[k] /\ r = Recip(i, 0) /\ Mod(i * r) = 1 /\ i # 0
  <2>1. PICK i \in Int : i = ids[k] /\ i \in Scalar /\ i # 0
    BY <1>1, IdFacts
  <2>2. PICK r \in Int : r = Recip(i, 0) /\ IsRecip(r, i - 0)
    BY <2>1, <1>1, RecipFacts
  <2>3. r * (i - 0) = i * r
    OBVIOUS
  <2> QED
    BY <2>1, <2>2, <2>3 DEF IsRecip
<1>6. Lambda(ids, 0, n) = 1
  <2>1. PICK e : e = Factors(ids, 0)
    OBVIOUS
  <2>2. \A k \in 1 .. N : e[k] = IF ids[k] = 0 THEN 1 ELSE ids[k] * Recip(ids[k], 0)
    BY <2>1, IdFacts DEF Factors
  <2>3. e \in [1 .. N -> Int]
    <3>1. ASSUME NEW k \in 1 .. N PROVE e[k] \in Int
      <4>1. PICK i \in Int, r \in Int : i = ids[k] /\ r = Recip(ids[k], 0) /\ i # 0
        <5>1. ids[k] \in Scalar /\ ids[k] \in Int /\ ids[k] # 0
          BY IdFacts
        <5> QED
          BY <5>1, <1>1, RecipFacts
      <4>2. i * r \in Int
        OBVIOUS
      <4> QED
        BY <4>1, <4>2, <2>2
    <3> QED
      BY <3>1, <2>1, IdFacts DEF Factors
  <2>4. \A k \in 1 .. n : Mod(e[k]) = 1
    BY <1>1, <1>5, <2>2
  <2> QED
    BY <1>1, <2>1, <2>3, <2>4, ProductOfOnes DEF Lambda
<1>7. ASSUME NEW k \in 1 .. n PROVE Mod(h[k]) = Mod(1 * (f[k] + 0 * f[k]))
  <2>1. PICK i \in Int, r \in Int : i = ids[k] /\ r = Recip(i, 0) /\ Mod(i * r) = 1
    BY <1>5
  <2>2. PICK a \in Int : a = f[k]
    BY <1>1
  <2>3. f[k] = Lambda(ids, i, n)
    BY <1>1, <1>2, <2>1, CoefficientsType
  <2>4. h[k] = a * (i * r)
    <3>1. h[k] = Lambda(ids, ids[k], n) * (ids[k] * Recip(ids[k], 0))
      BY <1>1, <1>3, FractionsType
    <3> QED
      BY <3>1, <2>1, <2>2, <2>3
  <2>5. Mod(a * (i * r)) = Mod(a * 1)
    <3>1. PICK p \in Int, q \in Int : p = i * r /\ q = 1 /\ Mod(p) = Mod(q)
      BY <2>1, ScalarIsInt, ModOfScalar
    <3>2. Mod(p) = Mod(q)
      BY <3>1
    <3>3. Mod(a * p) = Mod(a * q)
      BY <3>2, TimesSame, Zenon
    <3> QED
      BY <3>1, <3>3
  <2>6. 1 * (a + 0 * a) = a * 1
    OBVIOUS
  <2> QED
    BY <2>2, <2>4, <2>5, <2>6
<1>8. Sum(h, n) = Mod(1 * (Sum(f, n) + 0 * Sum(f, n)))
  <2>1. LinearUpTo(h, f, f, 1, 0, n)
    BY <1>7 DEF LinearUpTo
  <2>2. SumsLinearly(h, f, f, 1, 0, n)
    BY <1>1, <2>1, SumLinear
  <2> QED
    BY <2>2 DEF SumsLinearly
<1>9. PICK s \in Scalar : s = Sum(f, n) /\ s \in Int
  BY <1>1, SumSteps, ScalarIsInt
<1>10. 1 * (s + 0 * s) = s /\ Mod(s) = s
  BY <1>9, ModOfScalar
<1> QED
  BY <1>2, <1>3, <1>4, <1>6, <1>8, <1>9, <1>10 DEF Expands

Powers(ids, n, e) == [k \in DOMAIN ids |-> Lambda(ids, ids[k], n) * Pow(ids[k], e)]

\* What the coefficients of the first n ids make of the power e.
Moment(ids, n, e) == Sum(Powers(ids, n, e), n)

\* The weighted powers are numbers.
LEMMA PowersType ==
  ASSUME NEW N \in Nat, NEW ids, Distinct(ids, N), NEW n \in 0 .. N, NEW e \in Nat
  PROVE  /\ Powers(ids, n, e) \in [1 .. N -> Int]
         /\ \A k \in 1 .. N : Powers(ids, n, e)[k] = Lambda(ids, ids[k], n) * Pow(ids[k], e)
<1>1. ASSUME NEW k \in 1 .. N PROVE Lambda(ids, ids[k], n) * Pow(ids[k], e) \in Int
  <2>1. ids[k] \in Scalar /\ ids[k] \in Int
    BY IdFacts
  <2>2. PICK a \in Int, b \in Int : a = Lambda(ids, ids[k], n) /\ b = Pow(ids[k], e)
    BY <2>1, LambdaSteps, PowSteps
  <2>3. a * b \in Int
    OBVIOUS
  <2> QED
    BY <2>2, <2>3
<1> QED
  BY <1>1, IdFacts DEF Powers

\* The arithmetic of one term: b becomes its product with m / (m - i), p is a power of i.
Lowers(b, m, v, p, i) ==
  Mod(Mod(b * (m * v)) * Mod(p * i)) = Mod(m * (Mod(b * (m * v)) * p + (-1) * (b * p)))

\* A weighted power e + 1 as powers e with and without one more id.
LEMMA PowerTerm ==
  ASSUME NEW b \in Int, NEW m \in Int, NEW v \in Int, NEW p \in Int, NEW i \in Int,
         IsRecip(v, m - i)
  PROVE  Lowers(b, m, v, p, i)
<1>1. PICK w \in Int : w = b * (m * v)
  OBVIOUS
<1>2. PICK d \in Int : d = Mod(w)
  BY ModType
<1>3. PICK q \in Int : w = d + q * Order
  <2>1. Mod(w) = Mod(d)
    BY <1>2, ModMod
  <2> QED
    BY <2>1, CongruentBy
<1>4. PICK z \in Int : z = v * (m - i)
  OBVIOUS
<1>5. PICK r \in Int : z = 1 + r * Order
  <2>1. Mod(z) = Mod(1)
    BY <1>4, ScalarIsInt, ModOfScalar DEF IsRecip
  <2> QED
    BY <2>1, CongruentBy
<1>6. Order \in Int
  BY OrderFacts
\* d * (m - i) is b * m.
<1>7. d * (m - i) = b * m + ((b * m) * r - q * (m - i)) * Order
  <2>1. w * (m - i) = (b * m) * z
    <3>1. (b * (m * v)) * (m - i) = (b * m) * (v * (m - i))
      OBVIOUS
    <3> QED
      BY <3>1, <1>1, <1>4
  <2>2. (d + q * Order) * (m - i) = (b * m) * (1 + r * Order)
    BY <2>1, <1>3, <1>5
  <2>3. (d + q * Order) * (m - i) = d * (m - i) + (q * (m - i)) * Order
    BY <1>6
  <2>4. (b * m) * (1 + r * Order) = b * m + ((b * m) * r) * Order
    BY <1>6
  <2>5. ((b * m) * r - q * (m - i)) * Order = ((b * m) * r) * Order - (q * (m - i)) * Order
    BY <1>6
  <2>6. /\ d * (m - i) \in Int /\ (q * (m - i)) * Order \in Int /\ b * m \in Int
        /\ ((b * m) * r) * Order \in Int
    BY <1>6
  <2> QED
    BY <2>2, <2>3, <2>4, <2>5, <2>6
<1>8. PICK s \in Int : s = (b * m) * r - q * (m - i)
  OBVIOUS
<1>9. d * (p * i) = m * (d * p + (-1) * (b * p)) + (-(s * p)) * Order
  <2>1. p * (d * (m - i)) = p * (b * m + s * Order)
    BY <1>7, <1>8
  <2>2. p * (d * (m - i)) = m * (d * p) - d * (p * i)
    OBVIOUS
  <2>3. p * (b * m + s * Order) = m * (b * p) + (s * p) * Order
    BY <1>6
  <2>4. m * (d * p + (-1) * (b * p)) = m * (d * p) - m * (b * p)
    OBVIOUS
  <2>5. (-(s * p)) * Order = -((s * p) * Order)
    BY <1>6
  <2>6. PICK w1 \in Int, w2 \in Int, w3 \in Int, w4 \in Int :
          w1 = m * (d * p) /\ w2 = d * (p * i) /\ w3 = m * (b * p) /\ w4 = (s * p) * Order
    BY <1>6
  <2>7. w1 - w2 = w3 + w4
    BY <2>1, <2>2, <2>3, <2>6
  <2>8. w2 = (w1 - w3) + (-w4)
    BY <2>7
  <2> QED
    BY <2>4, <2>5, <2>6, <2>8
<1>10. Mod(d * Mod(p * i)) = Mod(d * (p * i))
  <2>1. PICK u \in Int : u = p * i
    OBVIOUS
  <2>2. Mod(d * Mod(u)) = Mod(d * u)
    BY ModInside
  <2> QED
    BY <2>1, <2>2
<1>11. Mod(d * (p * i)) = Mod(m * (d * p + (-1) * (b * p)))
  <2>1. m * (d * p + (-1) * (b * p)) \in Int /\ -(s * p) \in Int
    OBVIOUS
  <2> QED
    BY <2>1, <1>9, ModShift
<1> QED
  BY <1>1, <1>2, <1>10, <1>11 DEF Lowers

\* The moment of e + 1 from those of e.
LEMMA MomentStep ==
  ASSUME NEW N \in Nat, NEW ids, Distinct(ids, N), NEW n \in Nat, n + 1 <= N, NEW e \in Nat
  PROVE  Moment(ids, n + 1, e + 1)
           = Mod(ids[n + 1] * (Moment(ids, n + 1, e) + (-1) * Moment(ids, n, e)))
<1>1. /\ n \in 0 .. N /\ n + 1 \in 0 .. N /\ n + 1 \in 1 .. N /\ (n + 1) - 1 = n
      /\ e + 1 \in Nat
  OBVIOUS
<1>2. PICK m \in Int : m = ids[n + 1] /\ m \in Scalar
  BY <1>1, IdFacts
<1>3. PICK h \in [1 .. N -> Int] :
        /\ h = Powers(ids, n + 1, e + 1)
        /\ \A k \in 1 .. N : h[k] = Lambda(ids, ids[k], n + 1) * Pow(ids[k], e + 1)
  BY <1>1, PowersType
<1>4. PICK f \in [1 .. N -> Int] :
        /\ f = Powers(ids, n + 1, e)
        /\ \A k \in 1 .. N : f[k] = Lambda(ids, ids[k], n + 1) * Pow(ids[k], e)
  BY <1>1, PowersType
<1>5. PICK o \in [1 .. N -> Int] :
        /\ o = Powers(ids, n, e)
        /\ \A k \in 1 .. N : o[k] = Lambda(ids, ids[k], n) * Pow(ids[k], e)
  BY <1>1, PowersType
<1>6. PICK g \in [1 .. N -> Int] : \A k \in 1 .. N : g[k] = IF k <= n THEN o[k] ELSE 0
  <2> DEFINE g == [k \in 1 .. N |-> IF k <= n THEN o[k] ELSE 0]
  <2>1. g \in [1 .. N -> Int] /\ \A k \in 1 .. N : g[k] = IF k <= n THEN o[k] ELSE 0
    OBVIOUS
  <2> HIDE DEF g
  <2> QED
    BY <2>1
<1>7. Sum(g, n + 1) = Sum(o, n)
  <2>1. Sum(g, n) = Sum(o, n)
    <3>1. \A k \in 1 .. n : g[k] = o[k]
      BY <1>1, <1>6
    <3> QED
      BY <3>1, <1>1, SumSame
  <2>2. Sum(g, n + 1) = Mod(Sum(g, n) + g[n + 1]) /\ Sum(g, n) \in Scalar
    BY <1>1, SumSteps
  <2>3. g[n + 1] = 0
    BY <1>1, <1>6
  <2>4. PICK s \in Scalar : s = Sum(g, n) /\ s \in Int
    BY <2>2, ScalarIsInt
  <2>5. Mod(s) = s /\ s + 0 = s
    BY <2>4, ModOfScalar
  <2> QED
    BY <2>1, <2>2, <2>3, <2>4, <2>5
<1>8. ASSUME NEW k \in 1 .. n + 1 PROVE Mod(h[k]) = Mod(m * (f[k] + (-1) * g[k]))
  <2>0. k \in 1 .. N
    BY <1>1
  <2>1. PICK i \in Int : i = ids[k] /\ i \in Scalar
    BY <2>0, IdFacts
  <2>2. PICK p \in Int : p = Pow(i, e)
    BY <2>1, PowSteps
  <2>3. PICK d \in Int : d = Lambda(ids, i, n + 1)
    BY <1>1, <2>1, LambdaSteps
  <2>4. h[k] = d * Mod(p * i)
    <3>1. h[k] = Lambda(ids, ids[k], n + 1) * Pow(ids[k], e + 1)
      BY <1>3, <2>0
    <3>2. Pow(i, e + 1) = Mod(p * i)
      BY <2>1, <2>2, PowSteps
    <3> QED
      BY <3>1, <3>2, <2>1, <2>3
  <2>5. f[k] = d * p
    <3>1. f[k] = Lambda(ids, ids[k], n + 1) * Pow(ids[k], e)
      BY <1>4, <2>0
    <3> QED
      BY <3>1, <2>1, <2>2, <2>3
  <2>6. CASE k = n + 1
    <3>1. g[k] = 0 /\ i = m
      BY <2>1, <2>6, <1>2, <1>6
    <3>2. PICK u \in Int : u = p * i
      OBVIOUS
    <3>3. Mod(d * Mod(u)) = Mod(d * u)
      BY ModInside
    <3>4. m * (d * p + (-1) * 0) = d * (p * m)
      OBVIOUS
    <3> QED
      BY <3>1, <3>2, <3>3, <3>4, <2>4, <2>5
  <2>7. CASE k # n + 1
    <3>1. k \in 1 .. n /\ i # m
      <4>1. k \in 1 .. n
        BY <2>7
      <4>2. i # m
        BY <2>0, <2>1, <2>7, <1>1, <1>2, IdFacts
      <4> QED
        BY <4>1, <4>2
    <3>2. PICK b \in Int : b = Lambda(ids, i, n)
      BY <1>1, <2>1, LambdaSteps
    <3>3. g[k] = b * p
      <4>1. o[k] = Lambda(ids, ids[k], n) * Pow(ids[k], e)
        BY <1>5, <2>0
      <4> QED
        BY <4>1, <3>1, <3>2, <1>6, <2>0, <2>1, <2>2
    <3>4. PICK v \in Int : v = Recip(m, i) /\ IsRecip(v, m - i)
      BY <3>1, <2>1, <1>2, RecipFacts
    <3>5. d = Mod(b * (m * v))
      <4>1. Lambda(ids, i, n + 1) = Mod(Lambda(ids, i, n) * (ids[n + 1] * Recip(ids[n + 1], i)))
        BY <3>1, <1>2, <2>1, LambdaNext
      <4> QED
        BY <4>1, <3>2, <3>4, <1>2, <2>3
    <3>6. Lowers(b, m, v, p, i)
      BY <3>4, PowerTerm
    <3> QED
      BY <3>3, <3>5, <3>6, <2>4, <2>5 DEF Lowers
  <2> QED
    BY <2>6, <2>7
<1>9. Sum(h, n + 1) = Mod(m * (Sum(f, n + 1) + (-1) * Sum(g, n + 1)))
  <2>1. PICK d \in Int : d = -1
    OBVIOUS
  <2>2. PICK j \in 0 .. N : j = n + 1
    BY <1>1
  <2>3. LinearUpTo(h, f, g, m, d, j)
    BY <2>1, <2>2, <1>8 DEF LinearUpTo
  <2>4. SumsLinearly(h, f, g, m, d, j)
    BY <2>3, SumLinear
  <2> QED
    BY <2>1, <2>2, <2>4 DEF SumsLinearly
<1> QED
  BY <1>2, <1>3, <1>4, <1>5, <1>7, <1>9 DEF Moment

\* The coefficients of n ids take a power to its value at zero, below the power n.
LEMMA Moments ==
  ASSUME NEW N \in Nat, NEW ids, Distinct(ids, N), NEW n \in 1 .. N, NEW e \in 0 .. n - 1
  PROVE  Moment(ids, n, e) = IF e = 0 THEN 1 ELSE 0
<1>1. ASSUME NEW j \in 1 .. N PROVE Moment(ids, j, 0) = 1
  <2>1. j \in 0 .. N /\ 0 \in Nat
    OBVIOUS
  <2>2. \A k \in 1 .. N : Powers(ids, j, 0)[k] = Coefficients(ids, j)[k]
    <3>1. ASSUME NEW k \in 1 .. N PROVE Powers(ids, j, 0)[k] = Coefficients(ids, j)[k]
      <4>1. ids[k] \in Int /\ ids[k] \in Scalar
        BY IdFacts
      <4>2. PICK a \in Int : a = Lambda(ids, ids[k], j) /\ a * 1 = a
        BY <2>1, <4>1, LambdaSteps
      <4>3. Pow(ids[k], 0) = 1
        BY <4>1, PowSteps
      <4>4. Powers(ids, j, 0)[k] = Lambda(ids, ids[k], j) * Pow(ids[k], 0)
        BY <2>1, PowersType
      <4>5. Coefficients(ids, j)[k] = Lambda(ids, ids[k], j)
        BY <2>1, CoefficientsType
      <4> QED
        BY <4>2, <4>3, <4>4, <4>5
    <3> QED
      BY <3>1
  <2>3. \A k \in 1 .. j : k \in 1 .. N
    OBVIOUS
  <2>4. Sum(Powers(ids, j, 0), j) = Sum(Coefficients(ids, j), j)
    BY <2>1, <2>2, <2>3, SumSame
  <2> QED
    BY <2>4, CoefficientsSum DEF Moment
<1> DEFINE Right(j, x) == Moment(ids, j, x) = IF x = 0 THEN 1 ELSE 0
           S == {j \in Nat : j + 1 <= N => \A x \in 0 .. j : Right(j + 1, x)}
<1>2. 0 \in S
  <2>1. SUFFICES ASSUME 1 <= N PROVE Right(1, 0)
    OBVIOUS
  <2>2. 1 \in 1 .. N
    BY <2>1
  <2> QED
    BY <2>2, <1>1
<1>3. ASSUME NEW j \in Nat, j \in S PROVE j + 1 \in S
  <2>1. SUFFICES ASSUME (j + 1) + 1 <= N PROVE \A x \in 0 .. j + 1 : Right((j + 1) + 1, x)
    OBVIOUS
  <2>2. PICK i \in 1 .. N : i = j + 1 /\ i + 1 \in 1 .. N /\ i \in Nat /\ i + 1 <= N
    BY <2>1
  <2>3. \A x \in 0 .. j : Right(i, x)
    BY <1>3, <2>1, <2>2
  <2> HIDE DEF S
  <2> DEFINE R == {x \in Nat : x <= i => Right(i + 1, x)}
  <2>4. 0 \in R
    BY <2>2, <1>1
  <2>5. ASSUME NEW x \in Nat, x \in R PROVE x + 1 \in R
    <3>1. SUFFICES ASSUME x + 1 <= i PROVE Right(i + 1, x + 1)
      OBVIOUS
    <3>2. Right(i + 1, x) /\ Right(i, x)
      <4>1. x <= i /\ x \in 0 .. j
        BY <3>1, <2>2
      <4> QED
        BY <4>1, <2>3, <2>5
    <3>3. Moment(ids, i + 1, x) = Moment(ids, i, x)
      BY <3>2
    <3>4. PICK y \in Int : y = Moment(ids, i, x)
      BY <3>2
    <3>5. PICK m \in Int : m = ids[i + 1]
      BY <2>2, IdFacts
    <3>6. Moment(ids, i + 1, x + 1)
            = Mod(ids[i + 1] * (Moment(ids, i + 1, x) + (-1) * Moment(ids, i, x)))
      BY <2>2, MomentStep
    <3>7. m * (y + (-1) * y) = 0
      OBVIOUS
    <3>8. Mod(0) = 0
      BY ScalarIsInt, ModOfScalar
    <3> QED
      BY <3>3, <3>4, <3>5, <3>6, <3>7, <3>8
  <2>6. Nat \subseteq R
    <3> HIDE DEF R
    <3> QED
      BY <2>4, <2>5, Induction
  <2>7. ASSUME NEW x \in 0 .. j + 1 PROVE Right((j + 1) + 1, x)
    <3>1. x \in R /\ x <= i
      BY <2>2, <2>6
    <3> QED
      BY <3>1, <2>2
  <2> QED
    BY <2>7
<1>4. Nat \subseteq S
  <2> HIDE DEF S
  <2> QED
    BY <1>2, <1>3, Induction
<1>5. PICK j \in Nat : n = j + 1 /\ j + 1 <= N /\ e \in 0 .. j
  <2>1. n - 1 \in Nat /\ n = (n - 1) + 1
    OBVIOUS
  <2> QED
    BY <2>1
<1>6. j \in S
  BY <1>4
<1> QED
  BY <1>5, <1>6

-------------------------------------------------------------------------------
(***************************************************************************)
(* The polynomials of the code.                                            *)
(***************************************************************************)

Terms(coeffs, x) == [j \in DOMAIN coeffs |-> coeffs[j] * Pow(x, j - 1)]

\* The polynomial of the first n coefficients at x.
Value(coeffs, x, n) == Sum(Terms(coeffs, x), n)

\* How the value of a polynomial starts and goes on.
LEMMA ValueSteps ==
  ASSUME NEW K \in Nat, NEW coeffs \in [1 .. K -> Int], NEW x \in Int
  PROVE  /\ Value(coeffs, x, 0) = 0
         /\ \A n \in 0 .. K : Value(coeffs, x, n) \in Scalar /\ Value(coeffs, x, n) \in Int
         /\ \A n \in Nat : n + 1 <= K =>
              Value(coeffs, x, n + 1) = Mod(Value(coeffs, x, n) + coeffs[n + 1] * Pow(x, n))
<1>1. PICK f : f = Terms(coeffs, x)
  OBVIOUS
<1>2. \A j \in 1 .. K : f[j] = coeffs[j] * Pow(x, j - 1)
  BY <1>1 DEF Terms
<1>3. f \in [1 .. K -> Int]
  <2>1. ASSUME NEW j \in 1 .. K PROVE f[j] \in Int
    <3>1. j - 1 \in Nat
      OBVIOUS
    <3>2. PICK a \in Int, b \in Int : a = coeffs[j] /\ b = Pow(x, j - 1)
      BY <3>1, PowSteps
    <3>3. a * b \in Int
      OBVIOUS
    <3> QED
      BY <3>2, <3>3, <1>2
  <2> QED
    BY <2>1, <1>1 DEF Terms
<1>4. /\ Sum(f, 0) = 0 /\ \A n \in 0 .. K : Sum(f, n) \in Scalar
  BY <1>3, SumSteps
<1>5. ASSUME NEW n \in Nat, n + 1 <= K
      PROVE  Sum(f, n + 1) = Mod(Sum(f, n) + coeffs[n + 1] * Pow(x, n))
  <2>1. PICK j \in 1 .. K : j = n + 1 /\ j - 1 = n
    BY <1>5
  <2>2. Sum(f, j) = Mod(Sum(f, j - 1) + f[j])
    BY <1>3, SumSteps
  <2> QED
    BY <2>1, <2>2, <1>2
<1>6. \A n \in Nat : Value(coeffs, x, n) = Sum(f, n)
  BY <1>1 DEF Value
<1>7. Value(coeffs, x, 0) = 0
  BY <1>4, <1>6
<1>8. \A n \in 0 .. K : Value(coeffs, x, n) \in Scalar /\ Value(coeffs, x, n) \in Int
  <2>1. ASSUME NEW n \in 0 .. K PROVE Value(coeffs, x, n) \in Scalar
    BY <1>4, <1>6
  <2> QED
    BY <2>1, ScalarIsInt
<1>9. ASSUME NEW n \in Nat, n + 1 <= K
      PROVE  Value(coeffs, x, n + 1) = Mod(Value(coeffs, x, n) + coeffs[n + 1] * Pow(x, n))
  <2>1. n + 1 \in Nat
    OBVIOUS
  <2> QED
    BY <2>1, <1>5, <1>6, <1>9
<1> QED
  BY <1>7, <1>8, <1>9

\* frost.ts: the share is the value.
LEMMA ShareAtIsValue ==
  ASSUME NEW K \in Nat, NEW coeffs \in [1 .. K -> Int], NEW x \in Int
  PROVE  ShareAt(coeffs, x) = Value(coeffs, x, K)
<1> DEFINE Def(t) == [k \in 0 .. K |->
             IF k = 0 THEN [y |-> 0, xPow |-> 1]
             ELSE [y |-> Mod(t[k - 1].y + coeffs[k] * t[k - 1].xPow),
                   xPow |-> Mod(t[k - 1].xPow * x)]]
<1>1. PICK t : t = [k \in 0 .. K |-> [y |-> Value(coeffs, x, k), xPow |-> Pow(x, k)]]
  OBVIOUS
<1>2. t[0] = [y |-> 0, xPow |-> 1]
  <2>1. Value(coeffs, x, 0) = 0 /\ Pow(x, 0) = 1
    BY ValueSteps, PowSteps
  <2> QED
    BY <2>1, <1>1
<1>3. ASSUME NEW k \in 1 .. K
      PROVE  t[k] = [y |-> Mod(t[k - 1].y + coeffs[k] * t[k - 1].xPow),
                     xPow |-> Mod(t[k - 1].xPow * x)]
  <2>1. PICK n \in Nat : n = k - 1 /\ n + 1 = k /\ n + 1 <= K
    OBVIOUS
  <2>2. Value(coeffs, x, k) = Mod(Value(coeffs, x, n) + coeffs[k] * Pow(x, n))
    BY <2>1, ValueSteps
  <2>3. Pow(x, k) = Mod(Pow(x, n) * x)
    BY <2>1, PowSteps
  <2>4. t[k - 1] = [y |-> Value(coeffs, x, n), xPow |-> Pow(x, n)]
    BY <2>1, <1>1
  <2>5. t[k] = [y |-> Value(coeffs, x, k), xPow |-> Pow(x, k)]
    BY <1>1
  <2> QED
    BY <2>2, <2>3, <2>4, <2>5
<1>4. t = Def(t)
  <2>1. \A k \in 0 .. K : k = 0 \/ k \in 1 .. K
    OBVIOUS
  <2>2. \A k \in 0 .. K : t[k] = Def(t)[k]
    BY <2>1, <1>2, <1>3
  <2> QED
    BY <2>2, <1>1
<1>5. PICK s : s = Def(s) /\ ShareAt(coeffs, x) = s[K].y
  <2> DEFINE s == CHOOSE g : g = Def(g)
  <2>1. s = Def(s)
    BY <1>4
  <2>2. Len(coeffs) = K
    BY LengthOf
  <2> QED
    BY <2>1, <2>2 DEF ShareAt
<1>6. s[0] = [y |-> 0, xPow |-> 1]
  BY <1>5
<1>7. \A k \in 1 .. K : s[k] = [y |-> Mod(s[k - 1].y + coeffs[k] * s[k - 1].xPow),
                                xPow |-> Mod(s[k - 1].xPow * x)]
  BY <1>5
<1> DEFINE S == {k \in Nat : k <= K => s[k] = t[k]}
<1>8. 0 \in S
  BY <1>2, <1>6
<1>9. ASSUME NEW k \in Nat, k \in S PROVE k + 1 \in S
  <2>1. SUFFICES ASSUME k + 1 <= K PROVE s[k + 1] = t[k + 1]
    OBVIOUS
  <2>2. PICK j \in 1 .. K : j = k + 1 /\ j - 1 = k
    BY <2>1
  <2>3. s[j - 1] = t[j - 1]
    BY <1>9, <2>1, <2>2
  <2>4. s[j] = t[j]
    BY <2>3, <1>3, <1>7
  <2> QED
    BY <2>2, <2>4
<1>10. Nat \subseteq S
  <2> HIDE DEF S
  <2> QED
    BY <1>8, <1>9, Induction
<1>11. s[K] = t[K]
  BY <1>10
<1> QED
  BY <1>1, <1>5, <1>11

Turns(v, p, c, x, a) ==
  Mod(Mod(v + c * p) + Mod(p * x) * a) = Mod(v + p * Mod(Mod(a * x) + c))

\* What is left of the polynomial above Horner's accumulator is the same at every turn.
LEMMA HornerTurn ==
  ASSUME NEW v \in Int, NEW p \in Int, NEW c \in Int, NEW x \in Int, NEW a \in Int
  PROVE  Turns(v, p, c, x, a)
<1>1. PICK s \in Int, t \in Int, u \in Int : s = v + c * p /\ t = p * x /\ u = a * x
  OBVIOUS
<1>2. Mod(Mod(s) + Mod(t) * a) = Mod(s + t * a)
  <2>1. PICK d \in Int, e \in Int, f \in Int : d = Mod(t) * a /\ e = t * a /\ f = Mod(s)
    BY ModType
  <2>2. Mod(d) = Mod(e)
    BY <2>1, ModInside
  <2>3. Mod(s + d) = Mod(s + e)
    BY <2>2, PlusSame, Zenon
  <2>4. Mod(f + d) = Mod(s + d)
    BY <2>1, ModInside
  <2> QED
    BY <2>1, <2>3, <2>4
<1>3. Mod(v + p * Mod(Mod(u) + c)) = Mod(v + p * (u + c))
  <2>1. PICK w \in Int, z \in Int, y \in Int : w = Mod(u) + c /\ z = u + c /\ y = Mod(w)
    BY ModType
  <2>2. Mod(w) = Mod(z) /\ Mod(y) = Mod(w)
    BY <2>1, ModInside, ModMod
  <2>3. Mod(y) = Mod(z)
    BY <2>2
  <2>4. Mod(p * y) = Mod(p * z)
    BY <2>3, TimesSame, Zenon
  <2>5. PICK d \in Int, e \in Int : d = p * y /\ e = p * z
    OBVIOUS
  <2>6. Mod(d) = Mod(e)
    BY <2>4, <2>5
  <2>7. SamePlus(v, d, e)
    BY <2>6, PlusBoth
  <2> QED
    BY <2>1, <2>5, <2>7 DEF SamePlus
<1>4. s + t * a = v + p * (u + c)
  <2>1. (v + c * p) + (p * x) * a = v + p * (a * x + c)
    OBVIOUS
  <2> QED
    BY <2>1, <1>1
<1> QED
  BY <1>1, <1>2, <1>3, <1>4 DEF Turns

\* shamir.ts: Horner's method finds the same value.
LEMMA HornerIsValue ==
  ASSUME NEW K \in Nat, NEW coeffs \in [1 .. K -> Int], NEW x \in Int
  PROVE  Horner(coeffs, x) = Value(coeffs, x, K)
<1> DEFINE Def(t) == [k \in 0 .. K |->
             IF k = 0 THEN 0 ELSE Mod(Mod(t[k - 1] * x) + coeffs[K + 1 - k])]
<1>1. \A k \in 1 .. K, v \in Scalar : Mod(Mod(v * x) + coeffs[K + 1 - k]) \in Scalar
  <2>1. SUFFICES ASSUME NEW k \in 1 .. K, NEW v \in Scalar
                 PROVE  Mod(Mod(v * x) + coeffs[K + 1 - k]) \in Scalar
    OBVIOUS
  <2>2. PICK a \in Int : a = v * x
    BY ScalarIsInt
  <2>3. PICK b \in Int : b = Mod(a)
    BY ModType
  <2>4. K + 1 - k \in 1 .. K
    OBVIOUS
  <2>5. PICK c \in Int : c = coeffs[K + 1 - k]
    BY <2>4
  <2>6. b + c \in Int
    OBVIOUS
  <2> QED
    BY <2>2, <2>3, <2>5, <2>6, ModType
<1>2. PICK step : \A k \in 1 .. K, v \in Scalar : step[<<k, v>>] = Mod(Mod(v * x) + coeffs[K + 1 - k])
  <2> DEFINE step == [p \in (1 .. K) \X Scalar |-> Mod(Mod(p[2] * x) + coeffs[K + 1 - p[1]])]
  <2>1. \A k \in 1 .. K, v \in Scalar : step[<<k, v>>] = Mod(Mod(v * x) + coeffs[K + 1 - k])
    OBVIOUS
  <2> QED
    BY <2>1
<1>3. PICK t : Iterates(t, K, Scalar, 0, step)
  <2>1. \A k \in 1 .. K, v \in Scalar : step[<<k, v>>] \in Scalar
    BY <1>1, <1>2
  <2> QED
    BY <2>1, ScalarIsInt, Recursion
<1>4. t = Def(t)
  <2>1. \A k \in 1 .. K : t[k - 1] \in Scalar /\ t[k] = step[<<k, t[k - 1]>>]
    BY <1>3 DEF Iterates
  <2>2. \A k \in 1 .. K : t[k] = Mod(Mod(t[k - 1] * x) + coeffs[K + 1 - k])
    BY <2>1, <1>2
  <2>3. \A k \in 0 .. K : k = 0 \/ k \in 1 .. K
    OBVIOUS
  <2>4. \A k \in 0 .. K : t[k] = IF k = 0 THEN 0 ELSE Mod(Mod(t[k - 1] * x) + coeffs[K + 1 - k])
    BY <2>2, <2>3, <1>3 DEF Iterates
  <2> QED
    BY <2>4, <1>3 DEF Iterates
<1>5. PICK s : s = Def(s) /\ Horner(coeffs, x) = s[K]
  <2> DEFINE s == CHOOSE g : g = Def(g)
  <2>1. s = Def(s)
    BY <1>4
  <2>2. Len(coeffs) = K
    BY LengthOf
  <2> QED
    BY <2>1, <2>2 DEF Horner
<1>6. s[0] = 0 /\ \A k \in 1 .. K : s[k] = Mod(Mod(s[k - 1] * x) + coeffs[K + 1 - k])
  BY <1>5
<1>7. PICK goal \in Scalar : goal = Value(coeffs, x, K)
  <2>1. K \in 0 .. K
    OBVIOUS
  <2> QED
    BY <2>1, ValueSteps
<1> DEFINE S == {k \in Nat : k <= K =>
             /\ s[k] \in Scalar
             /\ Mod(Value(coeffs, x, K - k) + Pow(x, K - k) * s[k]) = goal}
<1>8. 0 \in S
  <2>1. PICK p \in Int : p = Pow(x, K)
    BY PowSteps
  <2>2. goal \in Int /\ goal + p * 0 = goal /\ Mod(goal) = goal /\ K - 0 = K
    BY ScalarIsInt, ModOfScalar
  <2> QED
    BY <2>1, <2>2, <1>6, <1>7, ScalarIsInt
<1>9. ASSUME NEW k \in Nat, k \in S PROVE k + 1 \in S
  <2>1. SUFFICES ASSUME k + 1 <= K
                 PROVE  /\ s[k + 1] \in Scalar
                        /\ Mod(Value(coeffs, x, K - (k + 1)) + Pow(x, K - (k + 1)) * s[k + 1]) = goal
    OBVIOUS
  <2>2. PICK j \in 1 .. K, n \in Nat :
          j = k + 1 /\ j - 1 = k /\ n = K - j /\ n + 1 = K - k /\ n + 1 = K + 1 - j /\ n + 1 <= K
    <3>1. k + 1 \in 1 .. K /\ K - (k + 1) \in Nat
      BY <2>1
    <3> QED
      BY <3>1
  <2>3. s[k] \in Scalar /\ Mod(Value(coeffs, x, n + 1) + Pow(x, n + 1) * s[k]) = goal
    BY <1>9, <2>1, <2>2
  <2> HIDE DEF S
  <2>4. PICK a \in Int : a = s[k]
    BY <2>3, ScalarIsInt
  <2>5. s[j] = Mod(Mod(a * x) + coeffs[n + 1])
    <3>1. s[j] = Mod(Mod(s[j - 1] * x) + coeffs[K + 1 - j])
      BY <1>6
    <3> QED
      BY <3>1, <2>2, <2>4
  <2>6. s[j] \in Scalar
    BY <2>2, <2>3, <2>4, <2>5, <1>1
  <2>7. PICK v \in Int : v = Value(coeffs, x, n)
    <3>1. n \in 0 .. K
      BY <2>2
    <3> QED
      BY <3>1, ValueSteps
  <2>8. PICK p \in Int : p = Pow(x, n)
    BY PowSteps
  <2>9. PICK c \in Int : c = coeffs[n + 1]
    <3>1. n + 1 \in 1 .. K
      BY <2>2
    <3> QED
      BY <3>1
  <2>10. Value(coeffs, x, n + 1) = Mod(v + c * p) /\ Pow(x, n + 1) = Mod(p * x)
    <3>1. Value(coeffs, x, n + 1) = Mod(Value(coeffs, x, n) + coeffs[n + 1] * Pow(x, n))
      BY <2>2, ValueSteps
    <3>2. Pow(x, n + 1) = Mod(Pow(x, n) * x)
      BY PowSteps
    <3> QED
      BY <3>1, <3>2, <2>7, <2>8, <2>9
  <2>11. Turns(v, p, c, x, a)
    BY HornerTurn
  <2>12. Mod(v + p * s[j]) = goal
    BY <2>3, <2>4, <2>5, <2>9, <2>10, <2>11 DEF Turns
  <2> QED
    BY <2>2, <2>6, <2>7, <2>8, <2>12
<1>10. Nat \subseteq S
  <2> HIDE DEF S
  <2> QED
    BY <1>8, <1>9, Induction
<1>11. s[K] \in Scalar /\ Mod(Value(coeffs, x, 0) + Pow(x, 0) * s[K]) = goal
  <2>1. K \in S /\ K - K = 0
    BY <1>10
  <2> QED
    BY <2>1
<1>12. PICK a \in Scalar : a = s[K] /\ a \in Int
  BY <1>11, ScalarIsInt
<1>13. 0 + 1 * a = a /\ Mod(a) = a
  BY <1>12, ModOfScalar
<1>14. Value(coeffs, x, 0) = 0 /\ Pow(x, 0) = 1
  BY ValueSteps, PowSteps
<1> QED
  BY <1>5, <1>7, <1>11, <1>12, <1>13, <1>14

-------------------------------------------------------------------------------

\* The shares of a polynomial as an interpolation weighs them, up to the coefficient n.
Weighted(ids, N, coeffs, n) ==
  [k \in DOMAIN ids |-> Lambda(ids, ids[k], N) * Value(coeffs, ids[k], n)]

\* The weighted values are numbers.
LEMMA WeightedType ==
  ASSUME NEW N \in Nat, NEW ids, Distinct(ids, N), NEW K \in Nat, NEW coeffs \in [1 .. K -> Int],
         NEW n \in 0 .. K
  PROVE  /\ Weighted(ids, N, coeffs, n) \in [1 .. N -> Int]
         /\ \A k \in 1 .. N :
              Weighted(ids, N, coeffs, n)[k] = Lambda(ids, ids[k], N) * Value(coeffs, ids[k], n)
<1>1. ASSUME NEW k \in 1 .. N PROVE Lambda(ids, ids[k], N) * Value(coeffs, ids[k], n) \in Int
  <2>1. ids[k] \in Scalar /\ ids[k] \in Int /\ N \in 0 .. N
    BY IdFacts
  <2>2. PICK a \in Int : a = Lambda(ids, ids[k], N)
    BY <2>1, LambdaSteps
  <2>3. PICK b \in Int : b = Value(coeffs, ids[k], n)
    BY <2>1, ValueSteps
  <2>4. a * b \in Int
    OBVIOUS
  <2> QED
    BY <2>2, <2>3, <2>4
<1> QED
  BY <1>1, IdFacts DEF Weighted

TermOf(lam, v, c, p) == Mod(lam * Mod(v + c * p)) = Mod(1 * (lam * v + c * (lam * p)))

\* One more coefficient in a weighted value.
LEMMA WeightedTerm ==
  ASSUME NEW lam \in Int, NEW v \in Int, NEW c \in Int, NEW p \in Int
  PROVE  TermOf(lam, v, c, p)
<1>1. PICK w \in Int : w = v + c * p
  OBVIOUS
<1>2. Mod(lam * Mod(w)) = Mod(lam * w)
  BY ModInside
<1>3. lam * (v + c * p) = 1 * (lam * v + c * (lam * p))
  OBVIOUS
<1> QED
  BY <1>1, <1>2, <1>3 DEF TermOf

\* Lagrange: as many shares as coefficients, or more, make the value at zero.
LEMMA Interpolation ==
  ASSUME NEW N \in Nat, NEW ids, Distinct(ids, N), NEW K \in 1 .. N, NEW coeffs \in [1 .. K -> Int]
  PROVE  Sum(Weighted(ids, N, coeffs, K), N) = Mod(coeffs[1])
<1>1. K \in Nat /\ N \in 0 .. N /\ N \in 1 .. N /\ 1 \in 1 .. K
  OBVIOUS
<1> DEFINE S == {n \in Nat : n <= K =>
             Sum(Weighted(ids, N, coeffs, n), N) = IF n = 0 THEN 0 ELSE Mod(coeffs[1])}
<1>2. 0 \in S
  <2>1. PICK h \in [1 .. N -> Int] :
          /\ h = Weighted(ids, N, coeffs, 0)
          /\ \A k \in 1 .. N : h[k] = Lambda(ids, ids[k], N) * Value(coeffs, ids[k], 0)
    <3>1. 0 \in 0 .. K
      OBVIOUS
    <3> QED
      BY <3>1, <1>1, WeightedType
  <2>2. ASSUME NEW k \in 1 .. N PROVE Mod(h[k]) = Mod(0 * (h[k] + 0 * h[k]))
    <3>1. ids[k] \in Int /\ ids[k] \in Scalar
      BY IdFacts
    <3>2. PICK a \in Int : a = Lambda(ids, ids[k], N) /\ a * 0 = 0
      BY <3>1, <1>1, LambdaSteps
    <3>3. Value(coeffs, ids[k], 0) = 0
      BY <3>1, <1>1, ValueSteps
    <3>4. h[k] = 0
      BY <3>2, <3>3, <2>1
    <3>5. 0 * (0 + 0 * 0) = 0
      OBVIOUS
    <3> QED
      BY <3>4, <3>5
  <2>3. SumsLinearly(h, h, h, 0, 0, N)
    <3>1. LinearUpTo(h, h, h, 0, 0, N)
      BY <2>2 DEF LinearUpTo
    <3> QED
      BY <3>1, <1>1, SumLinear
  <2>4. PICK s \in Int : s = Sum(h, N)
    BY <1>1, SumSteps, ScalarIsInt
  <2>5. 0 * (s + 0 * s) = 0 /\ Mod(0) = 0
    BY ScalarIsInt, ModOfScalar
  <2> QED
    BY <2>1, <2>3, <2>4, <2>5 DEF SumsLinearly
<1>3. ASSUME NEW n \in Nat, n \in S PROVE n + 1 \in S
  <2>1. SUFFICES ASSUME n + 1 <= K
                 PROVE  Sum(Weighted(ids, N, coeffs, n + 1), N) = Mod(coeffs[1])
    OBVIOUS
  <2>2. /\ n \in 0 .. K /\ n + 1 \in 0 .. K /\ n + 1 \in 1 .. K /\ n \in 0 .. N - 1
        /\ Sum(Weighted(ids, N, coeffs, n), N) = IF n = 0 THEN 0 ELSE Mod(coeffs[1])
    BY <1>3, <2>1
  <2> HIDE DEF S
  <2>3. PICK h \in [1 .. N -> Int] :
          /\ h = Weighted(ids, N, coeffs, n + 1)
          /\ \A k \in 1 .. N : h[k] = Lambda(ids, ids[k], N) * Value(coeffs, ids[k], n + 1)
    <3>1. n + 1 \in 0 .. K /\ K \in Nat
      BY <2>2
    <3>2. PICK n1 \in 0 .. K : n1 = n + 1
      BY <3>1
    <3>3. /\ Weighted(ids, N, coeffs, n1) \in [1 .. N -> Int]
          /\ \A k \in 1 .. N :
               Weighted(ids, N, coeffs, n1)[k] = Lambda(ids, ids[k], N) * Value(coeffs, ids[k], n1)
      BY <3>1, WeightedType
    <3> QED
      BY <3>2, <3>3
  <2>4. PICK f \in [1 .. N -> Int] :
          /\ f = Weighted(ids, N, coeffs, n)
          /\ \A k \in 1 .. N : f[k] = Lambda(ids, ids[k], N) * Value(coeffs, ids[k], n)
    <3>1. n \in 0 .. K /\ K \in Nat
      BY <2>2
    <3>2. /\ Weighted(ids, N, coeffs, n) \in [1 .. N -> Int]
          /\ \A k \in 1 .. N :
               Weighted(ids, N, coeffs, n)[k] = Lambda(ids, ids[k], N) * Value(coeffs, ids[k], n)
      BY <3>1, WeightedType
    <3> QED
      BY <3>2
  <2>5. PICK g \in [1 .. N -> Int] :
          /\ g = Powers(ids, N, n)
          /\ \A k \in 1 .. N : g[k] = Lambda(ids, ids[k], N) * Pow(ids[k], n)
    <3>1. N \in 0 .. N
      OBVIOUS
    <3>2. /\ Powers(ids, N, n) \in [1 .. N -> Int]
          /\ \A k \in 1 .. N : Powers(ids, N, n)[k] = Lambda(ids, ids[k], N) * Pow(ids[k], n)
      BY <3>1, PowersType
    <3> QED
      BY <3>2
  <2>6. PICK c \in Int : c = coeffs[n + 1]
    BY <2>2
  <2>7. ASSUME NEW k \in 1 .. N PROVE Mod(h[k]) = Mod(1 * (f[k] + c * g[k]))
    <3>1. ids[k] \in Int /\ ids[k] \in Scalar
      BY IdFacts
    <3>2. PICK lam \in Int : lam = Lambda(ids, ids[k], N)
      BY <3>1, <1>1, LambdaSteps
    <3>3. PICK v \in Int : v = Value(coeffs, ids[k], n)
      BY <3>1, <1>1, <2>2, ValueSteps
    <3>4. PICK p \in Int : p = Pow(ids[k], n)
      BY <3>1, PowSteps
    <3>5. Value(coeffs, ids[k], n + 1) = Mod(v + c * p)
      <4>1. Value(coeffs, ids[k], n + 1)
              = Mod(Value(coeffs, ids[k], n) + coeffs[n + 1] * Pow(ids[k], n))
        BY <3>1, <1>1, <2>1, ValueSteps
      <4> QED
        BY <4>1, <3>3, <3>4, <2>6
    <3>6. TermOf(lam, v, c, p)
      BY WeightedTerm
    <3> QED
      BY <3>2, <3>3, <3>4, <3>5, <3>6, <2>3, <2>4, <2>5 DEF TermOf
  <2>8. SumsLinearly(h, f, g, 1, c, N)
    <3>1. PICK o \in Int : o = 1
      OBVIOUS
    <3>2. LinearUpTo(h, f, g, o, c, N)
      BY <3>1, <2>7 DEF LinearUpTo
    <3>3. N \in 0 .. N
      OBVIOUS
    <3>4. SumsLinearly(h, f, g, o, c, N)
      BY <3>2, <3>3, SumLinear
    <3> QED
      BY <3>1, <3>4
  <2>9. Sum(g, N) = IF n = 0 THEN 1 ELSE 0
    <3>1. Moment(ids, N, n) = IF n = 0 THEN 1 ELSE 0
      BY <1>1, <2>2, Moments
    <3> QED
      BY <3>1, <2>5 DEF Moment
  <2>10. CASE n = 0
    <3>1. 1 * (0 + c * 1) = c /\ n + 1 = 1
      BY <2>10
    <3> QED
      BY <3>1, <2>2, <2>3, <2>4, <2>6, <2>8, <2>9, <2>10 DEF SumsLinearly
  <2>11. CASE n # 0
    <3>1. PICK d \in Int : d = coeffs[1]
      BY <1>1
    <3>2. PICK b \in Int : b = Mod(d) /\ Mod(b) = b
      BY ModType, ModMod
    <3>3. 1 * (b + c * 0) = b
      OBVIOUS
    <3> QED
      BY <3>1, <3>2, <3>3, <2>2, <2>3, <2>4, <2>8, <2>9, <2>11 DEF SumsLinearly
  <2> QED
    BY <2>10, <2>11
<1>4. Nat \subseteq S
  <2> HIDE DEF S
  <2> QED
    BY <1>2, <1>3, Induction
<1> QED
  BY <1>1, <1>4

-------------------------------------------------------------------------------
(***************************************************************************)
(* The coefficients of both libraries are those of the interpolation.      *)
(***************************************************************************)

\* Multiplying undoes dividing.
LEMMA Quotient ==
  ASSUME NEW q \in Scalar, NEW d \in Int, Mod(d) # 0
  PROVE  Mod(Mod(q * d) * Inv(d)) = q
<1>1. PICK i \in Int : i = Inv(d) /\ Mod(d * i) = 1
  BY InvType
<1>2. PICK r \in Int : r = q
  BY ScalarIsInt
<1>3. PICK u \in Int, v \in Int : u = r * d /\ v = d * i
  OBVIOUS
<1>4. Mod(Mod(u) * i) = Mod(u * i)
  BY ModInside
<1>5. u * i = r * v
  <2>1. (r * d) * i = r * (d * i)
    OBVIOUS
  <2> QED
    BY <2>1, <1>3
<1>6. Mod(r * Mod(v)) = Mod(r * v)
  BY ModInside
<1>7. r * 1 = r /\ Mod(r) = r
  BY <1>2, ModOfScalar
<1> QED
  BY <1>1, <1>2, <1>3, <1>4, <1>5, <1>6, <1>7

\* The factors are numbers.
LEMMA FactorsType ==
  ASSUME NEW N \in Nat, NEW ids, Distinct(ids, N), NEW x \in Scalar
  PROVE  /\ Factors(ids, x) \in [1 .. N -> Int]
         /\ \A k \in 1 .. N :
              Factors(ids, x)[k] = IF ids[k] = x THEN 1 ELSE ids[k] * Recip(ids[k], x)
<1>1. ASSUME NEW k \in 1 .. N PROVE ids[k] * Recip(ids[k], x) \in Int
  <2>1. ids[k] \in Scalar /\ ids[k] \in Int
    BY IdFacts
  <2>2. PICK a \in Int, b \in Int : a = ids[k] /\ b = Recip(ids[k], x)
    BY <2>1, RecipFacts
  <2>3. a * b \in Int
    OBVIOUS
  <2> QED
    BY <2>2, <2>3
<1> QED
  BY <1>1, IdFacts DEF Factors

\* A quotient of products, factor by factor, is the coefficient.
LEMMA LambdaIsQuotient ==
  ASSUME NEW N \in Nat, NEW ids, Distinct(ids, N), NEW x \in Scalar,
         NEW num \in [1 .. N -> Int], NEW den \in [1 .. N -> Int],
         \A k \in 1 .. N : Mod(den[k]) # 0 /\ Mod(num[k]) = Mod(Factors(ids, x)[k] * den[k])
  PROVE  /\ Mod(Product(den, N)) # 0 /\ Product(den, N) \in Int
         /\ Mod(Product(num, N) * Inv(Product(den, N))) = Lambda(ids, x, N)
<1>1. N \in 0 .. N
  OBVIOUS
<1>2. PICK quo \in [1 .. N -> Int] : quo = Factors(ids, x)
  BY FactorsType
<1>3. Product(num, N) = Mod(Product(quo, N) * Product(den, N))
  BY <1>1, <1>2, ProductPointwise
<1>4. Mod(Product(den, N)) # 0 /\ Product(den, N) \in Scalar
  BY <1>1, NonZeroProduct, ProductSteps
<1>5. PICK d \in Int : d = Product(den, N) /\ Mod(d) # 0
  BY <1>4, ScalarIsInt
<1>6. PICK q \in Scalar : q = Product(quo, N)
  BY <1>1, ProductSteps
<1>7. Mod(Mod(q * d) * Inv(d)) = q
  BY <1>5, Quotient
<1> QED
  BY <1>2, <1>3, <1>5, <1>6, <1>7 DEF Lambda

\* frost.ts: the coefficient is that of the interpolation.
LEMMA FrostCoefficient ==
  ASSUME NEW N \in Nat, NEW ids, Distinct(ids, N), NEW x \in Scalar
  PROVE  LagrangeCoefficient(x, ids) = Lambda(ids, x, N)
<1>1. PICK num : num = [k \in 1 .. N |-> IF ids[k] = x THEN 1 ELSE -ids[k]]
  OBVIOUS
<1>2. PICK den : den = [k \in 1 .. N |-> IF ids[k] = x THEN 1 ELSE x - ids[k]]
  OBVIOUS
<1>3. \A k \in 1 .. N : ids[k] \in Int /\ ids[k] \in Scalar /\ x \in Int
  BY IdFacts, ScalarIsInt
<1>4. num \in [1 .. N -> Int] /\ den \in [1 .. N -> Int]
  BY <1>1, <1>2, <1>3
<1>5. ASSUME NEW k \in 1 .. N
      PROVE  Mod(den[k]) # 0 /\ Mod(num[k]) = Mod(Factors(ids, x)[k] * den[k])
  <2>1. CASE ids[k] = x
    <3>1. num[k] = 1 /\ den[k] = 1 /\ Factors(ids, x)[k] = 1 /\ 1 * 1 = 1 /\ Mod(1) = 1
      BY <2>1, <1>1, <1>2, FactorsType, ScalarIsInt, ModOfScalar
    <3> QED
      BY <3>1
  <2>2. CASE ids[k] # x
    <3>1. PICK j \in Int, y \in Int : j = ids[k] /\ y = x /\ j \in Scalar
      BY <1>3
    <3>2. PICK r \in Int : r = Recip(j, x) /\ IsRecip(r, j - x)
      BY <2>2, <3>1, RecipFacts
    <3>3. num[k] = -j /\ den[k] = y - j /\ Factors(ids, x)[k] = j * r
      BY <2>2, <3>1, <3>2, <1>1, <1>2, FactorsType
    <3>4. Mod(y - j) # 0
      BY <2>2, <3>1, DifferenceNotZero
    <3>5. PICK z \in Int, m \in Int : z = r * (j - y) /\ m = -j /\ Mod(z) = 1
      BY <3>1, <3>2 DEF IsRecip
    <3>6. (j * r) * (y - j) = m * z
      <4>1. (j * r) * (y - j) = (-j) * (r * (j - y))
        OBVIOUS
      <4> QED
        BY <4>1, <3>5
    <3>7. Mod(m * Mod(z)) = Mod(m * z) /\ m * 1 = m
      BY ModInside
    <3> QED
      BY <3>3, <3>4, <3>5, <3>6, <3>7
  <2> QED
    BY <2>1, <2>2
<1>6. /\ Mod(Product(den, N)) # 0 /\ Product(den, N) \in Int
      /\ Mod(Product(num, N) * Inv(Product(den, N))) = Lambda(ids, x, N)
  BY <1>4, <1>5, LambdaIsQuotient
<1>7. LagrangeCoefficient(x, ids) = Mod(ProductOf(num) * ModInverse(ProductOf(den)))
  BY <1>1, <1>2, IdFacts DEF LagrangeCoefficient, ProductOfOthers
<1>8. ProductOf(num) = Product(num, N) /\ ProductOf(den) = Product(den, N)
  BY <1>4, ProductSteps
<1> QED
  BY <1>6, <1>7, <1>8, ModInverseIsInv

\* shamir.ts: so is this one, with both signs turned.
LEMMA ShamirCoefficient ==
  ASSUME NEW N \in Nat, NEW ids, Distinct(ids, N), NEW x \in Scalar
  PROVE  LagrangeCoeff(ids, x) = Lambda(ids, x, N)
<1>1. PICK num : num = [k \in 1 .. N |-> IF ids[k] = x THEN 1 ELSE ids[k]]
  OBVIOUS
<1>2. PICK den : den = [k \in 1 .. N |-> IF ids[k] = x THEN 1 ELSE ids[k] - x]
  OBVIOUS
<1>3. \A k \in 1 .. N : ids[k] \in Int /\ ids[k] \in Scalar /\ x \in Int
  BY IdFacts, ScalarIsInt
<1>4. num \in [1 .. N -> Int] /\ den \in [1 .. N -> Int]
  BY <1>1, <1>2, <1>3
<1>5. ASSUME NEW k \in 1 .. N
      PROVE  Mod(den[k]) # 0 /\ Mod(num[k]) = Mod(Factors(ids, x)[k] * den[k])
  <2>1. CASE ids[k] = x
    <3>1. num[k] = 1 /\ den[k] = 1 /\ Factors(ids, x)[k] = 1 /\ 1 * 1 = 1 /\ Mod(1) = 1
      BY <2>1, <1>1, <1>2, FactorsType, ScalarIsInt, ModOfScalar
    <3> QED
      BY <3>1
  <2>2. CASE ids[k] # x
    <3>1. PICK j \in Int, y \in Int : j = ids[k] /\ y = x /\ j \in Scalar
      BY <1>3
    <3>2. PICK r \in Int : r = Recip(j, x) /\ IsRecip(r, j - x)
      BY <2>2, <3>1, RecipFacts
    <3>3. num[k] = j /\ den[k] = j - y /\ Factors(ids, x)[k] = j * r
      BY <2>2, <3>1, <3>2, <1>1, <1>2, FactorsType
    <3>4. Mod(j - y) # 0
      BY <2>2, <3>1, DifferenceNotZero
    <3>5. PICK z \in Int : z = r * (j - y) /\ Mod(z) = 1
      BY <3>1, <3>2 DEF IsRecip
    <3>6. (j * r) * (j - y) = j * z
      <4>1. (j * r) * (j - y) = j * (r * (j - y))
        OBVIOUS
      <4> QED
        BY <4>1, <3>5
    <3>7. Mod(j * Mod(z)) = Mod(j * z) /\ j * 1 = j
      BY ModInside
    <3> QED
      BY <3>3, <3>4, <3>5, <3>6, <3>7
  <2> QED
    BY <2>1, <2>2
<1>6. /\ Mod(Product(den, N)) # 0 /\ Product(den, N) \in Int
      /\ Mod(Product(num, N) * Inv(Product(den, N))) = Lambda(ids, x, N)
  BY <1>4, <1>5, LambdaIsQuotient
<1>7. LagrangeCoeff(ids, x) = Mod(ProductOf(num) * Invert(ProductOf(den)))
  BY <1>1, <1>2, IdFacts DEF LagrangeCoeff, ProductOfOthers
<1>8. ProductOf(num) = Product(num, N) /\ ProductOf(den) = Product(den, N)
  BY <1>4, ProductSteps
<1> QED
  BY <1>6, <1>7, <1>8, InvertIsInv

-------------------------------------------------------------------------------
(***************************************************************************)
(* Fewer shares than coefficients leave the secret open: there is a        *)
(* polynomial that is one at zero and vanishes at their ids.               *)
(***************************************************************************)

\* The polynomial times 1 - r * x, as long as its highest coefficient is zero.
Times(c, r) == [j \in DOMAIN c |-> IF j = 1 THEN c[1] ELSE c[j] - r * c[j - 1]]

\* The product is a polynomial again.
LEMMA TimesType ==
  ASSUME NEW K \in Nat, NEW c \in [1 .. K -> Int], NEW r \in Int
  PROVE  /\ Times(c, r) \in [1 .. K -> Int]
         /\ \A j \in 1 .. K : Times(c, r)[j] = IF j = 1 THEN c[1] ELSE c[j] - r * c[j - 1]
<1>1. ASSUME NEW j \in 1 .. K, j # 1 PROVE c[j] - r * c[j - 1] \in Int
  <2>1. j \in 1 .. K /\ j - 1 \in 1 .. K
    BY <1>1
  <2>2. PICK a \in Int, b \in Int : a = c[j] /\ b = c[j - 1]
    BY <2>1
  <2>3. a - r * b \in Int
    OBVIOUS
  <2> QED
    BY <2>2, <2>3
<1> QED
  BY <1>1 DEF Times

TimesTurns(v, u, r, x, a, b, p) ==
  Mod(Mod(v + (-(r * x)) * u) + (a - r * b) * Mod(p * x))
    = Mod(Mod(v + a * Mod(p * x)) + (-(r * x)) * Mod(u + b * p))

\* The arithmetic of one coefficient of the product.
LEMMA TimesTurn ==
  ASSUME NEW v \in Int, NEW u \in Int, NEW r \in Int, NEW x \in Int, NEW a \in Int, NEW b \in Int,
         NEW p \in Int
  PROVE  TimesTurns(v, u, r, x, a, b, p)
<1>1. PICK y \in Int : y = -(r * x)
  OBVIOUS
<1>2. PICK s1 \in Int, s2 \in Int, s3 \in Int : s1 = v + y * u /\ s2 = p * x /\ s3 = u + b * p
  OBVIOUS
<1>3. PICK t2 \in Int : t2 = Mod(s2)
  BY ModType
<1>4. PICK q2 \in Int : t2 = s2 + q2 * Order
  BY <1>3, ModMod, CongruentBy
<1>5. PICK t3 \in Int : t3 = Mod(s3)
  BY ModType
<1>6. PICK q3 \in Int : t3 = s3 + q3 * Order
  BY <1>5, ModMod, CongruentBy
<1>7. PICK s4 \in Int, e \in Int, f \in Int : s4 = v + a * t2 /\ e = (a - r * b) * t2 /\ f = y * t3
  OBVIOUS
<1>8. Mod(Mod(s1) + e) = Mod(s1 + e) /\ Mod(Mod(s4) + f) = Mod(s4 + f)
  BY ModInside
<1>9. Order \in Int
  BY OrderFacts
<1>10. s1 + e = (s4 + f) + (-(r * b) * q2 - y * q3) * Order
  <2>1. s1 + e = (v + y * u) + (a * t2 - (r * b) * t2)
    BY <1>2, <1>7
  <2>2. s4 + f = (v + a * t2) + y * t3
    BY <1>7
  <2>3. (r * b) * t2 = (r * b) * (p * x) + ((r * b) * q2) * Order
    <3>1. (r * b) * (s2 + q2 * Order) = (r * b) * s2 + ((r * b) * q2) * Order
      BY <1>9
    <3> QED
      BY <3>1, <1>2, <1>4
  <2>4. y * t3 = y * u + y * (b * p) + (y * q3) * Order
    <3>1. y * (s3 + q3 * Order) = y * s3 + (y * q3) * Order
      BY <1>9
    <3>2. y * (u + b * p) = y * u + y * (b * p)
      OBVIOUS
    <3> QED
      BY <3>1, <3>2, <1>2, <1>6
  <2>5. (r * b) * (p * x) = -(y * (b * p))
    <3>1. (r * b) * (p * x) = -((-(r * x)) * (b * p))
      OBVIOUS
    <3> QED
      BY <3>1, <1>1
  <2>6. (-(r * b) * q2 - y * q3) * Order = -(((r * b) * q2) * Order) - (y * q3) * Order
    BY <1>9
  <2>7. PICK w1 \in Int, w2 \in Int, w3 \in Int, w4 \in Int, w5 \in Int, w6 \in Int, w7 \in Int :
          /\ w1 = y * u /\ w2 = a * t2 /\ w3 = (r * b) * t2 /\ w4 = y * t3 /\ w5 = y * (b * p)
          /\ w6 = ((r * b) * q2) * Order /\ w7 = (y * q3) * Order
    BY <1>9
  <2>8. w3 = w6 - w5 /\ w4 = w1 + w5 + w7
    BY <2>3, <2>4, <2>5, <2>7
  <2>9. (v + w1) + (w2 - w3) = ((v + w2) + w4) + (-w6 - w7)
    BY <2>8
  <2> QED
    BY <2>1, <2>2, <2>6, <2>7, <2>9
<1>11. Mod(s1 + e) = Mod(s4 + f)
  <2>1. s4 + f \in Int /\ -(r * b) * q2 - y * q3 \in Int
    OBVIOUS
  <2> QED
    BY <2>1, <1>10, ModShift
<1> QED
  BY <1>1, <1>2, <1>3, <1>5, <1>7, <1>8, <1>11 DEF TimesTurns

\* The next turn of a value.
NextValue(coeffs, x, n, m) == Value(coeffs, x, m) = Mod(Value(coeffs, x, n) + coeffs[m] * Pow(x, n))

\* ValueSteps from n to m = n + 1.
LEMMA ValueNext ==
  ASSUME NEW K \in Nat, NEW coeffs \in [1 .. K -> Int], NEW x \in Int, NEW n \in Nat,
         NEW m, m = n + 1, m <= K
  PROVE  NextValue(coeffs, x, n, m)
<1>1. n + 1 <= K
  OBVIOUS
<1>2. \A k \in Nat : k + 1 <= K =>
        Value(coeffs, x, k + 1) = Mod(Value(coeffs, x, k) + coeffs[k + 1] * Pow(x, k))
  BY ValueSteps
<1>3. Value(coeffs, x, n + 1) = Mod(Value(coeffs, x, n) + coeffs[n + 1] * Pow(x, n))
  BY <1>1, <1>2
<1> QED
  BY <1>3 DEF NextValue

TimesTo(c, r, x, n) ==
  Value(Times(c, r), x, n + 1) = Mod(Value(c, x, n + 1) + (-(r * x)) * Value(c, x, n))

\* The value of the product is the product of the values.
LEMMA TimesValue ==
  ASSUME NEW K \in Nat, NEW c \in [1 .. K -> Int], NEW r \in Int, NEW x \in Int,
         NEW n \in Nat, n + 1 <= K
  PROVE  TimesTo(c, r, x, n)
<1>7. SUFFICES ASSUME NEW f \in [1 .. K -> Int],
                      f = Times(c, r),
                      \A j \in 1 .. K : f[j] = IF j = 1 THEN c[1] ELSE c[j] - r * c[j - 1]
               PROVE  Value(f, x, n + 1) = Mod(Value(c, x, n + 1) + (-(r * x)) * Value(c, x, n))
  BY TimesType DEF TimesTo
<1>1. /\ f = Times(c, r) /\ f \in [1 .. K -> Int]
      /\ \A j \in 1 .. K : f[j] = IF j = 1 THEN c[1] ELSE c[j] - r * c[j - 1]
  BY <1>7
<1>2. PICK y \in Int : y = -(r * x)
  OBVIOUS
<1> DEFINE S == {j \in Nat : j + 1 <= K =>
             Value(f, x, j + 1) = Mod(Value(c, x, j + 1) + y * Value(c, x, j))}
<1>3. 0 \in S
  <2>1. SUFFICES ASSUME 0 + 1 <= K
                 PROVE  Value(f, x, 0 + 1) = Mod(Value(c, x, 0 + 1) + y * Value(c, x, 0))
    OBVIOUS
  <2>2. 0 \in Nat /\ 0 + 1 = 1 /\ 1 = 0 + 1 /\ 1 <= K /\ 1 \in 1 .. K /\ 1 \in 0 .. K
    BY <2>1
  <2>9. PICK o \in Nat, m \in Nat : o = 0 /\ m = 1 /\ m = o + 1 /\ m <= K
    BY <2>2
  <2>21. o \in Nat /\ m = o + 1 /\ m <= K
    BY <2>9
  <2>3. Value(f, x, m) = Mod(Value(f, x, o) + f[m] * Pow(x, o))
    <3>1. NextValue(f, x, o, m)
      BY <2>21, ValueNext
    <3> QED
      BY <3>1 DEF NextValue
  <2>4. Value(c, x, m) = Mod(Value(c, x, o) + c[m] * Pow(x, o))
    BY <2>21, ValueNext DEF NextValue
  <2>5. Value(c, x, 0) = 0 /\ Value(f, x, 0) = 0
    BY ValueSteps
  <2>6. f[1] = c[1]
    BY <2>2, <1>1
  <2>7. PICK v \in Scalar : v = Value(c, x, 1) /\ v \in Int
    BY <2>2, ValueSteps
  <2>8. v + y * 0 = v /\ Mod(v) = v
    BY <2>7, ModOfScalar
  <2> QED
    BY <2>2, <2>3, <2>4, <2>5, <2>6, <2>7, <2>8, <2>9
<1>4. ASSUME NEW j \in Nat, j \in S PROVE j + 1 \in S
  <2>1. SUFFICES ASSUME (j + 1) + 1 <= K
                 PROVE  Value(f, x, (j + 1) + 1) = Mod(Value(c, x, (j + 1) + 1) + y * Value(c, x, j + 1))
    OBVIOUS
  <2>2. PICK i \in Nat : i = j + 1 /\ i + 1 <= K
    BY <2>1
  <2>3. Value(f, x, i) = Mod(Value(c, x, i) + y * Value(c, x, j))
    BY <1>4, <2>1, <2>2
  <2> HIDE DEF S
  <2>4. i \in 1 .. K /\ i + 1 \in 1 .. K /\ i \in 0 .. K /\ j \in 0 .. K /\ j + 1 <= K /\ (i + 1) - 1 = i
        /\ i + 1 # 1
    BY <2>2
  <2>5. PICK v \in Int, u \in Int : v = Value(c, x, i) /\ u = Value(c, x, j)
    BY <2>4, ValueSteps
  <2>6. PICK a \in Int, b \in Int : a = c[i + 1] /\ b = c[i]
    BY <2>4
  <2>7. PICK p \in Int : p = Pow(x, j)
    BY PowSteps
  <2>8. Pow(x, i) = Mod(p * x)
    BY <2>2, <2>7, PowSteps
  <2>9. f[i + 1] = a - r * b
    BY <2>4, <2>6, <1>1
  <2>16. PICK m \in Nat : m = i + 1 /\ m <= K
    BY <2>2
  <2>17. Value(f, x, m) = Mod(Value(f, x, i) + f[m] * Pow(x, i))
    <3>1. NextValue(f, x, i, m)
      BY <2>16, ValueNext
    <3> QED
      BY <3>1 DEF NextValue
  <2>18. Value(c, x, m) = Mod(Value(c, x, i) + c[m] * Pow(x, i))
    BY <2>16, ValueNext DEF NextValue
  <2>19. i <= K /\ i = j + 1
    BY <2>2
  <2>20. Value(c, x, i) = Mod(Value(c, x, j) + c[i] * Pow(x, j))
    BY <2>19, ValueNext DEF NextValue
  <2>10. Value(f, x, i + 1) = Mod(Value(f, x, i) + f[i + 1] * Pow(x, i))
    BY <2>16, <2>17
  <2>11. Value(c, x, i + 1) = Mod(v + a * Mod(p * x))
    <3>1. Value(c, x, i + 1) = Mod(Value(c, x, i) + c[i + 1] * Pow(x, i))
      BY <2>16, <2>18
    <3> QED
      BY <3>1, <2>5, <2>6, <2>8
  <2>12. Value(c, x, i) = Mod(u + b * p)
    BY <2>20, <2>5, <2>6, <2>7
  <2>13. TimesTurns(v, u, r, x, a, b, p)
    BY TimesTurn
  <2>14. Value(f, x, i + 1) = Mod(Mod(v + y * u) + (a - r * b) * Mod(p * x))
    BY <2>3, <2>5, <2>8, <2>9, <2>10
  <2>15. Value(f, x, i + 1) = Mod(Value(c, x, i + 1) + y * Value(c, x, i))
    BY <2>11, <2>12, <2>13, <2>14, <1>2 DEF TimesTurns
  <2> QED
    BY <2>2, <2>15
<1>5. Nat \subseteq S
  <2> HIDE DEF S
  <2> QED
    BY <1>3, <1>4, Induction
<1>6. n \in S
  BY <1>5
<1> QED
  BY <1>1, <1>2, <1>6, <1>7

\* A polynomial that is one at zero, vanishes at the first n ids and has degree n at most.
Vanishes(ids, K, n, c) ==
  /\ c \in [1 .. K -> Int] /\ c[1] = 1
  /\ \A j \in 1 .. K : j >= n + 2 => c[j] = 0
  /\ \A k \in 1 .. n : Value(c, ids[k], K) = 0

HasKernel(ids, K, n) == \E c : Vanishes(ids, K, n, c)

One(K) == [j \in 1 .. K |-> IF j = 1 THEN 1 ELSE 0]

\* Nowhere zero: the constant one.
LEMMA KernelStart ==
  ASSUME NEW ids, NEW K \in Nat \ {0}
  PROVE  HasKernel(ids, K, 0)
<1>1. /\ One(K) \in [1 .. K -> Int] /\ One(K)[1] = 1
      /\ \A j \in 1 .. K : j >= 0 + 2 => One(K)[j] = 0
  BY DEF One
<1>2. \A k \in 1 .. 0 : Value(One(K), ids[k], K) = 0
  OBVIOUS
<1>3. Vanishes(ids, K, 0, One(K))
  BY <1>1, <1>2 DEF Vanishes
<1> QED
  BY <1>3 DEF HasKernel

\* What a turn of Times makes of a value: zero where it was, and zero at the root of 1 - r * x.
LEMMA RootOfTimes ==
  ASSUME NEW v \in Int, NEW r \in Int, NEW x \in Int, v = 0 \/ Mod(r * x) = 1
  PROVE  Mod(v + (-(r * x)) * v) = 0
<1>1. Mod(0) = 0 /\ Order \in Int
  BY ScalarIsInt, ModOfScalar, OrderFacts
<1>2. CASE v = 0
  <2>1. PICK y \in Int : y = -(r * x)
    OBVIOUS
  <2>2. 0 + y * 0 = 0
    BY <2>1
  <2> QED
    BY <1>1, <1>2, <2>1, <2>2
<1>3. CASE Mod(r * x) = 1
  <2>1. PICK m \in Int : m = r * x
    OBVIOUS
  <2>2. Mod(m) = Mod(1)
    BY <1>3, <2>1, ScalarIsInt, ModOfScalar
  <2>3. PICK q \in Int : m = 1 + q * Order
    BY <2>2, CongruentBy
  <2>4. v + (-m) * v = 0 + (-(q * v)) * Order
    <3>1. (-(1 + q * Order)) * v = -v + (-(q * v)) * Order
      BY <1>1
    <3>2. PICK z \in Int : z = (-(q * v)) * Order
      BY <1>1
    <3>3. -m = -(1 + q * Order)
      BY <2>3
    <3>4. (-m) * v = -v + z
      BY <3>1, <3>2, <3>3
    <3>5. v + (-v + z) = 0 + z
      OBVIOUS
    <3> QED
      BY <3>2, <3>4, <3>5
  <2>5. Mod(0 + (-(q * v)) * Order) = Mod(0)
    <3>1. -(q * v) \in Int
      OBVIOUS
    <3> QED
      BY <3>1, ModShift
  <2> QED
    BY <1>1, <2>1, <2>4, <2>5
<1> QED
  BY <1>2, <1>3

\* One more zero: the product with one more factor.
LEMMA KernelNext ==
  ASSUME NEW N \in Nat, NEW ids, Distinct(ids, N), NEW K \in Nat, N < K,
         NEW n \in Nat, n + 1 <= N, HasKernel(ids, K, n)
  PROVE  HasKernel(ids, K, n + 1)
<1>1. PICK c : Vanishes(ids, K, n, c)
  BY DEF HasKernel
<1>2. /\ c \in [1 .. K -> Int] /\ c[1] = 1
      /\ \A j \in 1 .. K : j >= n + 2 => c[j] = 0
      /\ \A k \in 1 .. n : Value(c, ids[k], K) = 0
  BY <1>1 DEF Vanishes
<1>3. PICK m \in Int : m = ids[n + 1] /\ Mod(m) # 0
  <2>1. n + 1 \in 1 .. N
    OBVIOUS
  <2>2. ids[n + 1] \in Scalar /\ ids[n + 1] \in Int /\ ids[n + 1] # 0
    BY <2>1, IdFacts
  <2> QED
    BY <2>2, ModOfScalar
<1>4. PICK r \in Int : Mod(r * m) = 1
  <2>1. PICK r \in Int : r = Inv(m) /\ Mod(m * r) = 1
    BY <1>3, InvType
  <2>2. m * r = r * m
    OBVIOUS
  <2> QED
    BY <2>1, <2>2
<1>5. /\ Times(c, r) \in [1 .. K -> Int]
      /\ \A j \in 1 .. K : Times(c, r)[j] = IF j = 1 THEN c[1] ELSE c[j] - r * c[j - 1]
  BY <1>2, TimesType
<1>6. Times(c, r)[1] = 1
  <2>1. 1 \in 1 .. K
    OBVIOUS
  <2> QED
    BY <2>1, <1>2, <1>5
<1>7. ASSUME NEW j \in 1 .. K, j >= (n + 1) + 2 PROVE Times(c, r)[j] = 0
  <2>1. j # 1 /\ j >= n + 2 /\ j - 1 \in 1 .. K /\ j - 1 >= n + 2
    BY <1>7
  <2>2. c[j] = 0 /\ c[j - 1] = 0
    BY <2>1, <1>2
  <2>3. 0 - r * 0 = 0
    OBVIOUS
  <2> QED
    BY <2>1, <2>2, <2>3, <1>5
<1>8. ASSUME NEW x \in Int, Value(c, x, K) = 0 \/ x = m
      PROVE  Value(Times(c, r), x, K) = 0
  <2>1. PICK h \in Nat : K = h + 1 /\ h = K - 1
    OBVIOUS
  <2>2. h + 1 <= K /\ h \in 0 .. K /\ K \in 0 .. K /\ K \in 1 .. K /\ K >= n + 2
    BY <2>1
  <2>3. Value(Times(c, r), x, h + 1) = Mod(Value(c, x, h + 1) + (-(r * x)) * Value(c, x, h))
    <3>1. TimesTo(c, r, x, h)
      BY <2>2, <1>2, TimesValue
    <3> QED
      BY <3>1 DEF TimesTo
  <2>4. PICK v \in Scalar : v = Value(c, x, h) /\ v \in Int
    BY <2>2, <1>2, ValueSteps
  <2>5. Value(c, x, K) = v
    <3>1. NextValue(c, x, h, K)
      BY <2>1, <2>2, <1>2, ValueNext
    <3>2. c[K] = 0
      BY <2>2, <1>2
    <3>3. PICK p \in Int : p = Pow(x, h)
      BY PowSteps
    <3>4. v + 0 * p = v /\ Mod(v) = v
      BY <2>4, <3>3, ModOfScalar
    <3> QED
      BY <3>1, <3>2, <3>3, <3>4, <2>4 DEF NextValue
  <2>6. v = 0 \/ Mod(r * x) = 1
    BY <1>4, <1>8, <2>5
  <2>7. Mod(v + (-(r * x)) * v) = 0
    BY <2>4, <2>6, RootOfTimes
  <2> QED
    BY <2>1, <2>3, <2>4, <2>5, <2>7
<1>9. ASSUME NEW k \in 1 .. n + 1 PROVE Value(Times(c, r), ids[k], K) = 0
  <2>1. k \in 1 .. N /\ (k \in 1 .. n \/ k = n + 1)
    OBVIOUS
  <2>2. ids[k] \in Int
    BY <2>1, IdFacts
  <2>3. Value(c, ids[k], K) = 0 \/ ids[k] = m
    BY <2>1, <1>2, <1>3
  <2> QED
    BY <2>2, <2>3, <1>8
<1>10. Vanishes(ids, K, n + 1, Times(c, r))
  BY <1>5, <1>6, <1>7, <1>9 DEF Vanishes
<1> QED
  BY <1>10 DEF HasKernel

\* With fewer ids than coefficients some polynomial vanishes at all of them.
LEMMA Kernel ==
  ASSUME NEW N \in Nat, NEW ids, Distinct(ids, N), NEW K \in Nat, N < K
  PROVE  HasKernel(ids, K, N)
<1> DEFINE S == {n \in Nat : n <= N => HasKernel(ids, K, n)}
<1>1. 0 \in S
  <2>1. K \in Nat \ {0}
    OBVIOUS
  <2> QED
    BY <2>1, KernelStart
<1>2. ASSUME NEW n \in Nat, n \in S PROVE n + 1 \in S
  <2>1. SUFFICES ASSUME n + 1 <= N PROVE HasKernel(ids, K, n + 1)
    OBVIOUS
  <2>2. HasKernel(ids, K, n)
    BY <1>2, <2>1
  <2> QED
    BY <2>1, <2>2, KernelNext
<1>3. Nat \subseteq S
  <2> HIDE DEF S
  <2> QED
    BY <1>1, <1>2, Induction
<1> QED
  BY <1>3

\* The terms of a polynomial are numbers.
LEMMA TermsType ==
  ASSUME NEW K \in Nat, NEW coeffs \in [1 .. K -> Int], NEW x \in Int
  PROVE  /\ Terms(coeffs, x) \in [1 .. K -> Int]
         /\ \A j \in 1 .. K : Terms(coeffs, x)[j] = coeffs[j] * Pow(x, j - 1)
<1>1. ASSUME NEW j \in 1 .. K PROVE coeffs[j] * Pow(x, j - 1) \in Int
  <2>1. j - 1 \in Nat
    OBVIOUS
  <2>2. PICK a \in Int, b \in Int : a = coeffs[j] /\ b = Pow(x, j - 1)
    BY <2>1, PowSteps
  <2>3. a * b \in Int
    OBVIOUS
  <2> QED
    BY <2>2, <2>3
<1> QED
  BY <1>1 DEF Terms

\* b is a polynomial with the secret given that agrees with a at the ids.
AgreesWith(b, ids, N, a, K, secret) ==
  /\ b \in [1 .. K -> Scalar] /\ b[1] = secret
  /\ \A k \in 1 .. N : Value(b, ids[k], K) = Value(a, ids[k], K)

Shifted(a, c, d) == [j \in DOMAIN a |-> Mod(a[j] + d * c[j])]

ShiftedIs(b, a, c, d, K) ==
  /\ b \in [1 .. K -> Scalar] /\ b \in [1 .. K -> Int]
  /\ \A j \in 1 .. K : b[j] = Mod(a[j] + d * c[j])

\* The shifted polynomial is one, over the scalars.
LEMMA ShiftedType ==
  ASSUME NEW K \in Nat, NEW a \in [1 .. K -> Int], NEW c \in [1 .. K -> Int], NEW d \in Int
  PROVE  ShiftedIs(Shifted(a, c, d), a, c, d, K)
<1>1. ASSUME NEW j \in 1 .. K PROVE Mod(a[j] + d * c[j]) \in Scalar /\ Mod(a[j] + d * c[j]) \in Int
  <2>1. PICK u \in Int, v \in Int : u = a[j] /\ v = c[j]
    OBVIOUS
  <2>2. u + d * v \in Int
    OBVIOUS
  <2>3. Mod(u + d * v) \in Scalar /\ Mod(u + d * v) \in Int
    BY <2>2, ModType
  <2> QED
    BY <2>1, <2>3
<1> QED
  BY <1>1 DEF Shifted, ShiftedIs

ShiftedTermIs(u, d, v, p) == Mod(Mod(u + d * v) * p) = Mod(1 * (u * p + d * (v * p)))

\* A term of the shifted polynomial.
LEMMA ShiftedTerm ==
  ASSUME NEW u \in Int, NEW d \in Int, NEW v \in Int, NEW p \in Int
  PROVE  ShiftedTermIs(u, d, v, p)
<1>1. PICK w \in Int : w = u + d * v
  OBVIOUS
<1>2. Mod(Mod(w) * p) = Mod(w * p)
  BY ModInside
<1>3. (u + d * v) * p = 1 * (u * p + d * (v * p))
  OBVIOUS
<1> QED
  BY <1>1, <1>2, <1>3 DEF ShiftedTermIs

KeepsValue(a, c, d, x, K) == Value(Shifted(a, c, d), x, K) = Value(a, x, K)

\* Where c vanishes, shifting by a multiple of c changes no value.
LEMMA ShiftedValue ==
  ASSUME NEW K \in Nat, NEW a \in [1 .. K -> Int], NEW c \in [1 .. K -> Int], NEW d \in Int,
         NEW x \in Int, Value(c, x, K) = 0
  PROVE  KeepsValue(a, c, d, x, K)
<1>8. PICK b : b = Shifted(a, c, d) /\ ShiftedIs(b, a, c, d, K)
  BY ShiftedType
<1>9. b \in [1 .. K -> Int] /\ \A j \in 1 .. K : b[j] = Mod(a[j] + d * c[j])
  BY <1>8 DEF ShiftedIs
<1>1. PICK f \in [1 .. K -> Int] :
        f = Terms(a, x) /\ \A j \in 1 .. K : f[j] = a[j] * Pow(x, j - 1)
  BY TermsType
<1>2. PICK g \in [1 .. K -> Int] :
        g = Terms(c, x) /\ \A j \in 1 .. K : g[j] = c[j] * Pow(x, j - 1)
  BY TermsType
<1>3. PICK h \in [1 .. K -> Int] :
        h = Terms(b, x) /\ \A j \in 1 .. K : h[j] = b[j] * Pow(x, j - 1)
  BY <1>9, TermsType
<1>4. ASSUME NEW j \in 1 .. K PROVE Mod(h[j]) = Mod(1 * (f[j] + d * g[j]))
  <2>1. j - 1 \in Nat
    OBVIOUS
  <2>2. PICK u \in Int, v \in Int, p \in Int : u = a[j] /\ v = c[j] /\ p = Pow(x, j - 1)
    BY <2>1, PowSteps
  <2>3. ShiftedTermIs(u, d, v, p)
    BY ShiftedTerm
  <2>4. b[j] = Mod(u + d * v)
    BY <2>2, <1>9
  <2>5. h[j] = Mod(u + d * v) * p /\ f[j] = u * p /\ g[j] = v * p
    BY <2>2, <2>4, <1>1, <1>2, <1>3
  <2> QED
    BY <2>3, <2>5 DEF ShiftedTermIs
<1>5. SumsLinearly(h, f, g, 1, d, K)
  <2>1. LinearUpTo(h, f, g, 1, d, K)
    BY <1>4 DEF LinearUpTo
  <2>2. K \in 0 .. K /\ 1 \in Int
    OBVIOUS
  <2>3. f \in [1 .. K -> Int] /\ g \in [1 .. K -> Int] /\ h \in [1 .. K -> Int]
    BY <1>1, <1>2, <1>3
  <2> QED
    BY <2>1, <2>2, <2>3, SumLinear
<1>6. PICK s \in Scalar : s = Value(a, x, K) /\ s \in Int
  <2>1. K \in 0 .. K
    OBVIOUS
  <2> QED
    BY <2>1, ValueSteps
<1>7. 1 * (s + d * 0) = s /\ Mod(s) = s
  BY <1>6, ModOfScalar
<1> QED
  BY <1>1, <1>2, <1>3, <1>5, <1>6, <1>7, <1>8 DEF SumsLinearly, Value, KeepsValue

OpenTo(ids, N, a, K, secret) == \E b : AgreesWith(b, ids, N, a, K, secret)

\* Fewer shares than coefficients: any secret has a polynomial with these shares.
LEMMA OpenBelow ==
  ASSUME NEW N \in Nat, NEW ids, Distinct(ids, N), NEW K \in Nat, N < K,
         NEW a \in [1 .. K -> Int], NEW secret \in Scalar
  PROVE  OpenTo(ids, N, a, K, secret)
<1>1. PICK c : Vanishes(ids, K, N, c)
  BY Kernel DEF HasKernel
<1>2. c \in [1 .. K -> Int] /\ c[1] = 1 /\ \A k \in 1 .. N : Value(c, ids[k], K) = 0
  BY <1>1 DEF Vanishes
<1>3. 1 \in 1 .. K /\ secret \in Int
  BY ScalarIsInt
<1>4. PICK d \in Int, e \in Int : d = secret - e /\ e = a[1]
  BY <1>3
<1>5. /\ Shifted(a, c, d) \in [1 .. K -> Scalar]
      /\ \A j \in 1 .. K : Shifted(a, c, d)[j] = Mod(a[j] + d * c[j])
  BY <1>2, <1>4, ShiftedType DEF ShiftedIs
<1>6. Shifted(a, c, d)[1] = secret
  <2>1. Shifted(a, c, d)[1] = Mod(e + d * 1)
    BY <1>2, <1>3, <1>4, <1>5
  <2>2. e + d * 1 = secret
    BY <1>3, <1>4
  <2> QED
    BY <2>1, <2>2, ModOfScalar
<1>7. ASSUME NEW k \in 1 .. N PROVE Value(Shifted(a, c, d), ids[k], K) = Value(a, ids[k], K)
  <2>1. ids[k] \in Int /\ Value(c, ids[k], K) = 0
    BY <1>2, IdFacts
  <2>2. KeepsValue(a, c, d, ids[k], K)
    BY <2>1, <1>2, <1>4, ShiftedValue
  <2> QED
    BY <2>2 DEF KeepsValue
<1>8. AgreesWith(Shifted(a, c, d), ids, N, a, K, secret)
  BY <1>5, <1>6, <1>7 DEF AgreesWith
<1> QED
  BY <1>8 DEF OpenTo

-------------------------------------------------------------------------------
(***************************************************************************)
(* The polynomials and the sharing of a key.                               *)
(***************************************************************************)

\* The dealer draws as many coefficients as the threshold, the first not zero.
LEMMA PolynomialType ==
  ASSUME NEW K \in Nat \ {0}, NEW c \in Polynomials(K)
  PROVE  c \in [1 .. K -> Scalar] /\ c \in [1 .. K -> Int] /\ c[1] \in NonZero
<1>1. c \in [1 .. K -> Scalar] /\ c[1] # 0 /\ 1 \in 1 .. K
  BY DEF Polynomials
<1>2. c[1] \in NonZero
  BY <1>1, OrderFacts DEF Scalar, NonZero
<1> QED
  BY <1>1, <1>2, ScalarIsInt

WeightsShares(h, ids, N, coeffs, K, c) ==
  \A k \in 1 .. N : Mod(h[k]) = Mod(c * (Lambda(ids, ids[k], N) * Value(coeffs, ids[k], K)))

SumsToSecret(h, N, coeffs, c) == Sum(h, N) = Mod(c * coeffs[1]) /\ SumOf(h) = Mod(c * coeffs[1])

\* A threshold of shares, each weighted and multiplied by c, sums to c times the secret.
LEMMA WeightedShares ==
  ASSUME NEW N \in Nat, NEW ids, Distinct(ids, N), NEW K \in 1 .. N, NEW coeffs \in [1 .. K -> Int],
         NEW c \in Int, NEW h \in [1 .. N -> Int], WeightsShares(h, ids, N, coeffs, K, c)
  PROVE  SumsToSecret(h, N, coeffs, c)
<1>1. PICK g \in [1 .. N -> Int] :
        /\ g = Weighted(ids, N, coeffs, K)
        /\ \A k \in 1 .. N : g[k] = Lambda(ids, ids[k], N) * Value(coeffs, ids[k], K)
  <2>1. K \in Nat /\ K \in 0 .. K
    OBVIOUS
  <2> QED
    BY <2>1, WeightedType
<1>2. Sum(g, N) = Mod(coeffs[1])
  BY <1>1, Interpolation
<1>3. PICK s \in Int : s = coeffs[1]
  <2>1. 1 \in 1 .. K
    OBVIOUS
  <2> QED
    BY <2>1
<1>4. ASSUME NEW k \in 1 .. N PROVE Mod(h[k]) = Mod(c * (g[k] + 0 * g[k]))
  <2>1. PICK v \in Int : v = g[k]
    BY <1>1
  <2>2. v + 0 * v = v
    OBVIOUS
  <2>3. Mod(h[k]) = Mod(c * v)
    BY <1>1, <2>1 DEF WeightsShares
  <2> QED
    BY <2>1, <2>2, <2>3
<1>5. SumsLinearly(h, g, g, c, 0, N)
  <2>1. LinearUpTo(h, g, g, c, 0, N)
    BY <1>4 DEF LinearUpTo
  <2>2. N \in 0 .. N /\ 0 \in Int /\ g \in [1 .. N -> Int]
    BY <1>1
  <2> QED
    BY <2>1, <2>2, SumLinear
<1>6. PICK t \in Int : t = Mod(s)
  BY ModType
<1>7. Sum(h, N) = Mod(c * t)
  <2>1. t + 0 * t = t
    OBVIOUS
  <2> QED
    BY <2>1, <1>2, <1>3, <1>5, <1>6 DEF SumsLinearly
<1>8. Mod(c * t) = Mod(c * s)
  BY <1>6, ModInside
<1>9. Sum(h, N) = SumOf(h)
  BY SumSteps
<1> QED
  BY <1>3, <1>7, <1>8, <1>9 DEF SumsToSecret

ScaledShareIs(c, a, v) == Mod(Mod(c * v) * a) = Mod(c * (a * v)) /\ Mod(a * v) = Mod(1 * (a * v))

\* A weighted share, scaled by c.
LEMMA ScaledShare ==
  ASSUME NEW c \in Int, NEW a \in Int, NEW v \in Int
  PROVE  ScaledShareIs(c, a, v)
<1>1. PICK w \in Int, u \in Int : w = c * v /\ u = a * v
  OBVIOUS
<1>2. Mod(Mod(w) * a) = Mod(w * a)
  BY ModInside
<1>3. (c * v) * a = c * (a * v)
  OBVIOUS
<1>4. 1 * u = u
  OBVIOUS
<1> QED
  BY <1>1, <1>2, <1>3, <1>4 DEF ScaledShareIs

\* The weight and the share of the k-th id.
HasShare(ids, N, coeffs, K, k) ==
  \E a \in Int, v \in Int :
    /\ a = Lambda(ids, ids[k], N) /\ v = Value(coeffs, ids[k], K)
    /\ LagrangeCoeff(ids, ids[k]) = a /\ LagrangeCoefficient(ids[k], ids) = a
    /\ Horner(coeffs, ids[k]) = v /\ ShareAt(coeffs, ids[k]) = v

\* What both libraries compute for the k-th id.
LEMMA ShareOf ==
  ASSUME NEW N \in Nat, NEW ids, Distinct(ids, N), NEW K \in Nat, NEW coeffs \in [1 .. K -> Int],
         NEW k \in 1 .. N
  PROVE  HasShare(ids, N, coeffs, K, k)
<1>1. ids[k] \in Scalar /\ ids[k] \in Int
  BY IdFacts
<1>2. Lambda(ids, ids[k], N) \in Int
  <2>1. N \in 0 .. N
    OBVIOUS
  <2> QED
    BY <1>1, <2>1, LambdaSteps, ScalarIsInt
<1>3. Value(coeffs, ids[k], K) \in Int
  <2>1. K \in 0 .. K
    OBVIOUS
  <2> QED
    BY <1>1, <2>1, ValueSteps
<1>4. LagrangeCoeff(ids, ids[k]) = Lambda(ids, ids[k], N)
  BY <1>1, ShamirCoefficient
<1>5. LagrangeCoefficient(ids[k], ids) = Lambda(ids, ids[k], N)
  BY <1>1, FrostCoefficient
<1>6. Horner(coeffs, ids[k]) = Value(coeffs, ids[k], K)
  BY <1>1, HornerIsValue
<1>7. ShareAt(coeffs, ids[k]) = Value(coeffs, ids[k], K)
  BY <1>1, ShareAtIsValue
<1> QED
  BY <1>2, <1>3, <1>4, <1>5, <1>6, <1>7 DEF HasShare

\* combineShares recovers the secret that generateShamirShares shared.
LEMMA CombineSharesIsSecret ==
  ASSUME NEW N \in Nat, NEW ids, Distinct(ids, N), NEW K \in 1 .. N, NEW coeffs \in [1 .. K -> Int],
         NEW shares,
         shares = [k \in 1 .. N |-> <<ids[k], ShareAt(coeffs, ids[k])>>]
  PROVE  CombineShares(shares) = Mod(coeffs[1])
<1>1. [k \in DOMAIN shares |-> shares[k][1]] = ids
  BY DEF Distinct
<1>2. PICK h : h = [k \in 1 .. N |-> Mod(LagrangeCoeff(ids, ids[k]) * shares[k][2])]
  OBVIOUS
<1>3. CombineShares(shares) = SumOf(h)
  <2>1. DOMAIN shares = 1 .. N
    OBVIOUS
  <2> QED
    BY <1>1, <1>2, <2>1 DEF CombineShares
<1>4. ASSUME NEW k \in 1 .. N
      PROVE  h[k] \in Int /\ Mod(h[k]) = Mod(1 * (Lambda(ids, ids[k], N) * Value(coeffs, ids[k], K)))
  <2>1. PICK a \in Int, v \in Int :
           /\ a = Lambda(ids, ids[k], N) /\ v = Value(coeffs, ids[k], K)
           /\ LagrangeCoeff(ids, ids[k]) = a /\ LagrangeCoefficient(ids[k], ids) = a
           /\ Horner(coeffs, ids[k]) = v /\ ShareAt(coeffs, ids[k]) = v
    <3>1. HasShare(ids, N, coeffs, K, k)
      BY ShareOf
    <3> QED
      BY <3>1 DEF HasShare
  <2>2. h[k] = Mod(a * v)
    BY <1>2, <2>1
  <2>3. ScaledShareIs(1, a, v)
    BY ScaledShare
  <2>4. PICK w \in Int : w = a * v
    OBVIOUS
  <2>5. Mod(Mod(w)) = Mod(w) /\ Mod(w) \in Int
    BY ModMod, ModType
  <2> QED
    BY <2>1, <2>2, <2>3, <2>4, <2>5 DEF ScaledShareIs
<1>5. h \in [1 .. N -> Int]
  BY <1>2, <1>4
<1>6. WeightsShares(h, ids, N, coeffs, K, 1)
  BY <1>4 DEF WeightsShares
<1>7. SumsToSecret(h, N, coeffs, 1)
  BY <1>5, <1>6, WeightedShares
<1>8. 1 * coeffs[1] = coeffs[1]
  <2>1. 1 \in 1 .. K
    OBVIOUS
  <2>2. PICK s \in Int : s = coeffs[1]
    BY <2>1
  <2>3. 1 * s = s
    OBVIOUS
  <2> QED
    BY <2>2, <2>3
<1> QED
  BY <1>3, <1>7, <1>8 DEF SumsToSecret

SameTimes(a, c, d) == Mod(a * c) = Mod(a * d)

\* ModTimes, by name.
LEMMA TimesBoth ==
  ASSUME NEW a \in Int, NEW c \in Int, NEW d \in Int, Mod(c) = Mod(d)
  PROVE  SameTimes(a, c, d)
BY ModTimes DEF SameTimes

\* What unblinding leaves: the blinding goes, whatever it was.
LEMMA Unblinded ==
  ASSUME NEW a \in Int, NEW r \in Int, NEW s \in Int, Mod(r) # 0
  PROVE  Multiply(Mod(Mod(a * r) * s), Invert(r)) = Mod(a * s)
<1>1. PICK i \in Int : i = Inv(r) /\ i = Invert(r) /\ Mod(r * i) = 1
  BY InvType, InvertIsInv
<1>2. PICK m \in Int, n \in Int : m = a * r /\ n = a * s
  OBVIOUS
<1>3. PICK t \in Int, w \in Int : t = Mod(m) /\ w = t * s
  BY ModType
<1>4. Mod(Mod(w) * i) = Mod(w * i)
  BY ModInside
<1>5. Mod(t * (s * i)) = Mod(m * (s * i))
  <2>1. PICK u \in Int : u = s * i
    OBVIOUS
  <2>2. Mod(Mod(m) * u) = Mod(m * u)
    BY ModInside
  <2> QED
    BY <2>1, <2>2, <1>3
<1>6. m * (s * i) = n * (r * i)
  <2>1. (a * r) * (s * i) = (a * s) * (r * i)
    OBVIOUS
  <2> QED
    BY <2>1, <1>2
<1>7. Mod(n * (r * i)) = Mod(n * 1)
  <2>1. PICK e \in Int : e = r * i
    OBVIOUS
  <2>2. PICK o \in Int : o = 1 /\ Mod(e) = Mod(o)
    BY <1>1, <2>1, ScalarIsInt, ModOfScalar
  <2>3. Mod(e) = Mod(o)
    BY <2>2
  <2>4. SameTimes(n, e, o)
    BY <2>3, TimesBoth
  <2> QED
    BY <2>1, <2>2, <2>4 DEF SameTimes
<1>8. w * i = t * (s * i) /\ n * 1 = n
  <2>1. (t * s) * i = t * (s * i)
    OBVIOUS
  <2> QED
    BY <2>1, <1>3
<1> QED
  BY <1>1, <1>2, <1>3, <1>4, <1>5, <1>6, <1>7, <1>8 DEF Multiply

\* What the nodes with these ids answer to the blinding of a by r.
PartialsOf(ids, N, coeffs, a, r) ==
  [k \in 1 .. N |-> [id |-> ids[k], point |-> Evaluate(Horner(coeffs, ids[k]), Mod(a * r))]]

UnblindsTo(r, partials, a, coeffs) == Unblind(r, partials) = Mod(a * coeffs[1])

\* unblind makes of a threshold of evaluations the evaluation under the whole key.
LEMMA UnblindIsEvaluation ==
  ASSUME NEW N \in Nat, NEW ids, Distinct(ids, N), NEW K \in 1 .. N, NEW coeffs \in [1 .. K -> Int],
         NEW a \in Int, NEW r \in NonZero, NEW partials,
         partials = PartialsOf(ids, N, coeffs, a, r)
  PROVE  UnblindsTo(r, partials, a, coeffs)
<1>1. [k \in DOMAIN partials |-> partials[k].id] = ids /\ DOMAIN partials = 1 .. N
  BY DEF Distinct, PartialsOf
<1>2. PICK h : h = [k \in 1 .. N |-> Multiply(partials[k].point, LagrangeCoeff(ids, ids[k]))]
  OBVIOUS
<1>3. Unblind(r, partials) = Multiply(SumOf(h), Invert(r))
  BY <1>1, <1>2 DEF Unblind
<1>4. r \in Int /\ Mod(r) # 0
  <2>1. r \in Scalar /\ r \in Int /\ r # 0
    BY ScalarIsInt DEF NonZero
  <2> QED
    BY <2>1, ModOfScalar
<1>5. PICK b \in Int, p \in Int : b = Mod(p) /\ p = a * r
  <2>1. PICK p \in Int : p = a * r
    BY <1>4
  <2> QED
    BY <2>1, ModType
<1>6. ASSUME NEW k \in 1 .. N
      PROVE  h[k] \in Int /\ Mod(h[k]) = Mod(b * (Lambda(ids, ids[k], N) * Value(coeffs, ids[k], K)))
  <2>1. PICK l \in Int, v \in Int :
           /\ l = Lambda(ids, ids[k], N) /\ v = Value(coeffs, ids[k], K)
           /\ LagrangeCoeff(ids, ids[k]) = l /\ LagrangeCoefficient(ids[k], ids) = l
           /\ Horner(coeffs, ids[k]) = v /\ ShareAt(coeffs, ids[k]) = v
    <3>1. HasShare(ids, N, coeffs, K, k)
      BY ShareOf
    <3> QED
      BY <3>1 DEF HasShare
  <2>2. partials[k].point = Mod(b * v)
    BY <1>5, <2>1 DEF Evaluate, Multiply, PartialsOf
  <2>3. h[k] = Mod(Mod(b * v) * l)
    BY <1>2, <2>1, <2>2 DEF Multiply
  <2>4. ScaledShareIs(b, l, v)
    BY ScaledShare
  <2>5. PICK w \in Int : w = b * (l * v)
    OBVIOUS
  <2>6. Mod(Mod(w)) = Mod(w) /\ Mod(w) \in Int
    BY ModMod, ModType
  <2> QED
    BY <2>1, <2>3, <2>4, <2>5, <2>6 DEF ScaledShareIs
<1>7. h \in [1 .. N -> Int]
  BY <1>2, <1>6
<1>8. WeightsShares(h, ids, N, coeffs, K, b)
  BY <1>6 DEF WeightsShares
<1>9. SumsToSecret(h, N, coeffs, b)
  BY <1>7, <1>8, WeightedShares
<1>10. PICK s \in Int : s = coeffs[1]
  <2>1. 1 \in 1 .. K
    OBVIOUS
  <2> QED
    BY <2>1
<1>11. Multiply(Mod(Mod(a * r) * s), Invert(r)) = Mod(a * s)
  BY <1>4, Unblinded
<1> QED
  BY <1>3, <1>5, <1>9, <1>10, <1>11 DEF SumsToSecret, UnblindsTo

-------------------------------------------------------------------------------
(***************************************************************************)
(* The sign-on.                                                            *)
(***************************************************************************)

\* What the assumptions on the constants give.
LEMMA ConstantFacts ==
  /\ Threshold \in Nat \ {0} /\ Total \in Nat /\ Threshold <= Total
  /\ NodeId \subseteq NonZero /\ IsFiniteSet(NodeId) /\ NodeId = 1 .. Total
  /\ \A r \in Blinding : r \in NonZero /\ r \in Int /\ Mod(r) # 0
  /\ \A p \in Password : HashToGroup(p) \in NonZero /\ HashToGroup(p) \in Int /\ Mod(HashToGroup(p)) # 0
<1>1. Threshold \in Nat \ {0} /\ Total \in Nat /\ Threshold <= Total /\ NodeId = 1 .. Total
  BY SignOnCryptoAssumption DEF NodeId
<1>2. NodeId \subseteq NonZero
  BY <1>1, SignOnCryptoAssumption, OrderFacts DEF NonZero
<1>3. IsFiniteSet(NodeId)
  <2>1. 1 \in Int /\ Total \in Int
    BY <1>1
  <2> QED
    BY <1>1, <2>1, FS_Interval
<1>4. ASSUME NEW r \in NonZero PROVE r \in Int /\ Mod(r) # 0
  <2>1. r \in Scalar /\ r # 0 /\ r \in Int
    BY ScalarIsInt DEF NonZero
  <2> QED
    BY <2>1, ModOfScalar
<1> QED
  BY <1>1, <1>2, <1>3, <1>4, SignOnCryptoAssumption

\* A threshold of different nodes, N of them.
IsQuorum(ids, N) == N \in Nat /\ Threshold \in 1 .. N /\ Distinct(ids, N) /\ ids \in [1 .. N -> NodeId]

\* The participants of a request are a threshold of different nodes.
LEMMA ParticipantsAreQuorum ==
  ASSUME NEW participants \in Participants
  PROVE  \E N : IsQuorum(participants, N)
<1>1. PICK S \in SUBSET NodeId : Cardinality(S) >= Threshold /\ participants \in SetToSeqs(S)
  BY DEF Participants
<1>2. PICK N \in Nat : N = Cardinality(S)
  BY ConstantFacts, FS_Subset, FS_CardinalityType
<1>3. /\ participants \in [1 .. N -> S]
      /\ \A i, j \in 1 .. N : i # j => participants[i] # participants[j]
  BY <1>1, <1>2 DEF SetToSeqs
<1>4. participants \in [1 .. N -> NodeId] /\ participants \in [1 .. N -> NonZero]
  BY <1>1, <1>3, ConstantFacts
<1>5. Threshold \in 1 .. N
  BY <1>1, <1>2, ConstantFacts
<1>6. Distinct(participants, N)
  BY <1>3, <1>4 DEF Distinct
<1> QED
  BY <1>2, <1>4, <1>5, <1>6 DEF IsQuorum

\* SetToSeq lists a set of nodes, each once.
LEMMA SomeSequence ==
  ASSUME NEW T \in SUBSET NodeId
  PROVE  /\ Cardinality(T) \in Nat
         /\ SetToSeq(T) \in [1 .. Cardinality(T) -> T]
         /\ Distinct(SetToSeq(T), Cardinality(T))
         /\ \A t \in T : \E k \in 1 .. Cardinality(T) : SetToSeq(T)[k] = t
<1>1. IsFiniteSet(T)
  BY ConstantFacts, FS_Subset
<1>2. PICK N \in Nat : N = Cardinality(T) /\ ExistsBijection(1 .. N, T)
  BY <1>1, FS_CardinalityType
<1>3. PICK f \in [1 .. N -> T] : IsInjective(f)
  BY <1>2 DEF ExistsBijection, Bijection, Injection
<1>4. PICK g : g = SetToSeq(T)
  OBVIOUS
<1>5. g \in [1 .. N -> T] /\ IsInjective(g)
  BY <1>2, <1>3, <1>4 DEF SetToSeq
<1>6. Distinct(g, N)
  <2>1. g \in [1 .. N -> NonZero]
    BY <1>5, ConstantFacts
  <2>2. DOMAIN g = 1 .. N
    BY <1>5
  <2> QED
    BY <1>5, <2>1, <2>2 DEF Distinct, IsInjective
<1>7. g \in Surjection(1 .. N, T)
  <2>1. g \in Injection(1 .. N, T)
    BY <1>5 DEF Injection
  <2>2. IsFiniteSet(1 .. N) /\ Cardinality(1 .. N) = N
    <3>1. 1 \in Int /\ N \in Int
      OBVIOUS
    <3>2. Cardinality(1 .. N) = IF 1 > N THEN 0 ELSE N - 1 + 1
      BY <3>1, FS_Interval
    <3> QED
      BY <3>1, <3>2, FS_Interval
  <2> QED
    BY <1>1, <1>2, <2>1, <2>2, FS_Injection
<1>8. \A t \in T : \E k \in 1 .. N : g[k] = t
  BY <1>7 DEF Surjection
<1> QED
  BY <1>2, <1>4, <1>5, <1>6, <1>8

\* What the dealer deals: the shares of a polynomial, and its value at zero as the key.
GroupOf(g, coeffs) ==
  /\ coeffs \in [1 .. Threshold -> Scalar] /\ coeffs \in [1 .. Threshold -> Int]
  /\ coeffs[1] \in NonZero /\ g.publicKey = coeffs[1]
  /\ \A i \in NodeId : g.shares[i] = ShareAt(coeffs, i)

\* generateDealerOutput makes such a group.
LEMMA DealtGroup ==
  ASSUME NEW coeffs \in Polynomials(Threshold)
  PROVE  GroupOf(DealGroup(coeffs), coeffs)
<1>1. coeffs \in [1 .. Threshold -> Scalar] /\ coeffs \in [1 .. Threshold -> Int] /\ coeffs[1] \in NonZero
  BY ConstantFacts, PolynomialType
<1>2. PICK s \in Scalar : s = coeffs[1] /\ s \in Int
  BY <1>1, ScalarIsInt
<1>5. 1 * s = s /\ Mod(s) = s
  BY <1>2, ModOfScalar
<1>3. Multiply(B, coeffs[1]) = coeffs[1]
  BY <1>2, <1>5 DEF Multiply, B
<1>4. \A i \in NodeId : GenerateShamirShares(coeffs, Total)[i] = ShareAt(coeffs, i)
  BY DEF GenerateShamirShares, NodeId
<1> QED
  BY <1>1, <1>3, <1>4 DEF GroupOf, DealGroup

\* What the dealer writes for the user: the shares of a TOPRF key, and server keys from the
\* evaluation of the password under the whole key.
UserOf(u, coeffs) ==
  /\ coeffs \in [1 .. Threshold -> Int]
  /\ \A i \in NodeId :
       /\ u.shares[i] = Horner(coeffs, i)
       /\ u.h[i] = <<(<<Registered, Mod(HashToGroup(Registered) * coeffs[1])>>), i>>

\* generateDealerOutput makes such a record for a user: the SDK will derive the same keys.
LEMMA DealtUser ==
  ASSUME NEW coeffs \in Polynomials(Threshold), NEW r \in Blinding
  PROVE  UserOf(RegisterUser(coeffs, r), coeffs)
<1>1. coeffs \in [1 .. Threshold -> Int]
  BY ConstantFacts, PolynomialType
<1>2. PICK shares : shares = SplitSecret(coeffs, Total)
  OBVIOUS
<1>3. \A i \in NodeId : shares[i] = Horner(coeffs, i)
  BY <1>2 DEF SplitSecret, NodeId
<1>4. PICK a \in Int : a = HashToGroup(Registered)
  BY ConstantFacts, SignOnCryptoAssumption
<1>5. PICK blinded : blinded = Blind(Registered, r) /\ blinded = Mod(a * r)
  BY <1>4 DEF Blind, Multiply
<1>6. PICK ids : ids = [k \in 1 .. Threshold |-> k]
  OBVIOUS
<1>7. Distinct(ids, Threshold) /\ Threshold \in 1 .. Threshold
  <2>1. \A k \in 1 .. Threshold : k \in NodeId
    BY ConstantFacts
  <2>2. ids \in [1 .. Threshold -> NonZero]
    BY <1>6, <2>1, ConstantFacts
  <2> QED
    BY <1>6, <2>2, ConstantFacts DEF Distinct
<1>8. PICK partials : partials = [i \in 1 .. Threshold |-> [id |-> i, point |-> Evaluate(shares[i], blinded)]]
  OBVIOUS
<1>9. partials = PartialsOf(ids, Threshold, coeffs, a, r)
  <2>1. \A k \in 1 .. Threshold : k \in NodeId /\ ids[k] = k
    BY <1>6, ConstantFacts
  <2>2. \A k \in 1 .. Threshold : shares[k] = Horner(coeffs, ids[k])
    BY <2>1, <1>3
  <2> QED
    BY <2>1, <2>2, <1>5, <1>8 DEF PartialsOf
<1>10. Unblind(r, partials) = Mod(a * coeffs[1])
  <2>1. Threshold \in Nat /\ r \in NonZero
    BY ConstantFacts
  <2>2. UnblindsTo(r, partials, a, coeffs)
    BY <1>1, <1>7, <1>9, <2>1, UnblindIsEvaluation
  <2> QED
    BY <2>2 DEF UnblindsTo
<1>11. PICK h : h = Finalize(Registered, Unblind(r, partials))
  OBVIOUS
<1>12. h = <<Registered, Mod(HashToGroup(Registered) * coeffs[1])>>
  BY <1>4, <1>10, <1>11 DEF Finalize
<1>13. RegisterUser(coeffs, r) = [shares |-> shares, h |-> [i \in NodeId |-> DeriveServerKey(h, i)]]
  BY <1>2, <1>5, <1>8, <1>11 DEF RegisterUser
<1> QED
  BY <1>1, <1>3, <1>12, <1>13 DEF UserOf, DeriveServerKey

-------------------------------------------------------------------------------
(***************************************************************************)
(* The inductive invariant: every record is what its maker makes of what   *)
(* was there.                                                              *)
(***************************************************************************)

KeysDealt ==
  /\ \E coeffs \in Polynomials(Threshold) : group = DealGroup(coeffs)
  /\ \E coeffs \in Polynomials(Threshold), r \in Blinding : user = RegisterUser(coeffs, r)

RequestOf(password, r, expected, participants, nonces) ==
  [password |-> password, r |-> r, expected |-> expected, blinded |-> Blind(password, r),
   participants |-> participants, nonces |-> nonces,
   commitments |-> Commitments(participants, nonces)]

RequestMade ==
  \E password \in Password, r \in Blinding, expected \in Message,
     participants \in Participants, nonces \in Nonces :
    request = RequestOf(password, r, expected, participants, nonces)

NodesReplied == replies = [k \in DOMAIN request.participants |-> Reply(request.participants[k])]

Recovered ==
  Finalize(request.password, Unblind(request.r,
    [k \in DOMAIN replies |-> [id |-> replies[k].nodeId, point |-> replies[k].toprfPartial]]))

AllOpen ==
  \A k \in DOMAIN replies :
    Opens(replies[k].ct, DeriveServerKey(Recovered, replies[k].nodeId), request.expected)

Assembled ==
  result = [opened |-> AllOpen,
    signature |-> IF ~AllOpen THEN << >> ELSE AggregateSignatureShares(
      ComputeGroupCommitment(request.expected, request.commitments),
      [k \in DOMAIN replies |-> replies[k].ct.plaintext])]

SignOnInv ==
  /\ stage \in {"dealt", "asked", "answered", "done"}
  /\ KeysDealt
  /\ stage # "dealt" => RequestMade
  /\ stage \in {"answered", "done"} => NodesReplied
  /\ stage = "done" => Assembled

\* The dealer establishes the invariant.
LEMMA SignOnInvInit == Init => SignOnInv
<1>1. SUFFICES ASSUME Init PROVE SignOnInv
  OBVIOUS
<1>2. KeysDealt
  BY <1>1 DEF Init, KeysDealt
<1> QED
  BY <1>1, <1>2 DEF Init, SignOnInv

\* Every step of a sign-on keeps it.
LEMMA SignOnInvNext == SignOnInv /\ [Next]_vars => SignOnInv'
<1> SUFFICES ASSUME SignOnInv, [Next]_vars PROVE SignOnInv'
  OBVIOUS
<1>1. ASSUME NEW password \in Password, NEW r \in Blinding, NEW expected \in Message,
             NEW participants \in Participants, NEW nonces \in Nonces,
             SignOn(password, r, expected, participants, nonces)
      PROVE  SignOnInv'
  <2>1. request' = RequestOf(password, r, expected, participants, nonces)
    BY <1>1 DEF SignOn, RequestOf
  <2>2. RequestMade'
    BY <2>1 DEF RequestMade
  <2>3. stage' = "asked" /\ group' = group /\ user' = user
    BY <1>1 DEF SignOn
  <2>4. KeysDealt'
    BY <2>3 DEF SignOnInv, KeysDealt
  <2> QED
    BY <2>2, <2>3, <2>4 DEF SignOnInv
<1>2. CASE HandleSignOn
  <2>1. stage = "asked" /\ stage' = "answered" /\ group' = group /\ user' = user /\ request' = request
    BY <1>2 DEF HandleSignOn
  <2>2. KeysDealt'
    BY <2>1 DEF SignOnInv, KeysDealt
  <2>3. RequestMade'
    BY <2>1 DEF SignOnInv, RequestMade
  <2>4. NodesReplied'
    BY <1>2, <2>1 DEF HandleSignOn, NodesReplied, Reply
  <2> QED
    BY <2>1, <2>2, <2>3, <2>4 DEF SignOnInv
<1>3. CASE AssembleAssertion
  <2>1. /\ stage = "answered" /\ stage' = "done"
        /\ group' = group /\ user' = user /\ request' = request /\ replies' = replies
    BY <1>3 DEF AssembleAssertion
  <2>2. KeysDealt'
    BY <2>1 DEF SignOnInv, KeysDealt
  <2>3. RequestMade'
    BY <2>1 DEF SignOnInv, RequestMade
  <2>4. NodesReplied'
    BY <2>1 DEF SignOnInv, NodesReplied, Reply
  <2>5. Assembled'
    BY <1>3, <2>1 DEF AssembleAssertion, Assembled, AllOpen, Recovered
  <2> QED
    BY <2>1, <2>2, <2>3, <2>4, <2>5 DEF SignOnInv
<1>4. CASE UNCHANGED vars
  <2>1. /\ stage' = stage /\ group' = group /\ user' = user /\ request' = request
        /\ replies' = replies /\ result' = result
    BY <1>4 DEF vars
  <2>2. KeysDealt'
    BY <2>1 DEF SignOnInv, KeysDealt
  <2>3. RequestMade => RequestMade'
    BY <2>1 DEF RequestMade
  <2>4. NodesReplied => NodesReplied'
    BY <2>1 DEF NodesReplied, Reply
  <2>5. Assembled => Assembled'
    BY <2>1 DEF Assembled, AllOpen, Recovered
  <2> QED
    BY <2>1, <2>2, <2>3, <2>4, <2>5 DEF SignOnInv
<1> QED
  BY <1>1, <1>2, <1>3, <1>4 DEF Next

\* The records of a sign-on are always what the dealer, the SDK and the nodes made of those
\* before: request, replies and result go together (client.ts 152-287, node.ts 284-338).
THEOREM SignOnAlways == Spec => []SignOnInv
<1> QED
  BY SignOnInvInit, SignOnInvNext, PTL DEF Spec

-------------------------------------------------------------------------------
(***************************************************************************)
(* The blinded password.                                                   *)
(***************************************************************************)

\* Every point is a blinding of every other.
LEMMA HiddenInBlinding ==
  ASSUME NEW a \in Int, NEW b \in Int, NEW r \in Int, Mod(a) # 0, Mod(b) # 0, Mod(r) # 0
  PROVE  \E t \in NonZero : Mod(b * t) = Mod(a * r)
<1>1. PICK m \in Scalar : m = Mod(a * r) /\ m \in Int /\ m # 0 /\ Mod(m) = m
  <2>1. PICK n \in Int : n = a * r
    OBVIOUS
  <2>2. Mod(n) # 0
    BY <2>1, ProductNotZero
  <2> QED
    BY <2>1, <2>2, ModType, ModMod
<1>2. PICK i \in Int : Mod(b * i) = 1
  BY InvType
<1>3. PICK t \in Scalar, w \in Int : w = i * m /\ t = Mod(w)
  <2>1. PICK w \in Int : w = i * m
    BY <1>1
  <2> QED
    BY <2>1, ModType
<1>4. Mod(b * t) = m
  <2>1. Mod(b * t) = Mod(b * w)
    BY <1>3, ModInside
  <2>2. b * w = (b * i) * m
    <3>1. b * (i * m) = (b * i) * m
      BY <1>1
    <3> QED
      BY <3>1, <1>3
  <2>3. PICK e \in Int : e = b * i
    OBVIOUS
  <2>4. Mod(Mod(e) * m) = Mod(e * m)
    BY <1>1, ModInside
  <2>5. 1 * m = m
    BY <1>1
  <2> QED
    BY <1>1, <1>2, <2>1, <2>2, <2>3, <2>4, <2>5
<1>5. t # 0
  <2>1. b * 0 = 0 /\ Mod(0) = 0
    BY ScalarIsInt, ModOfScalar
  <2> QED
    BY <1>1, <1>4, <2>1
<1>6. t \in NonZero
  BY <1>5, OrderFacts DEF Scalar, NonZero
<1> QED
  BY <1>1, <1>4, <1>6

\* It follows of the request as it was made.
LEMMA HidesPassword == SignOnInv => BlindedHidesPassword
<1> SUFFICES ASSUME SignOnInv, stage = "asked", NEW other \in Password
             PROVE  \E t \in NonZero : Blind(other, t) = request.blinded
  BY DEF BlindedHidesPassword
<1>1. PICK password \in Password, r \in Blinding, expected \in Message,
           participants \in Participants, nonces \in Nonces :
        request = RequestOf(password, r, expected, participants, nonces)
  BY DEF SignOnInv, RequestMade
<1>2. request.blinded = Mod(HashToGroup(password) * r)
  BY <1>1 DEF RequestOf, Blind, Multiply
<1>3. PICK a \in Int, b \in Int :
        a = HashToGroup(password) /\ b = HashToGroup(other) /\ Mod(a) # 0 /\ Mod(b) # 0
  BY ConstantFacts
<1>4. r \in Int /\ Mod(r) # 0
  BY ConstantFacts
<1>5. PICK t \in NonZero : Mod(b * t) = Mod(a * r)
  BY <1>3, <1>4, HiddenInBlinding
<1> QED
  BY <1>2, <1>3, <1>5 DEF Blind, Multiply

\* The blinded point a node is sent could be the blinding of any password, for every password
\* and every r of the SDK (toprf.ts 63-78).
THEOREM BlindingHides == Spec => []BlindedHidesPassword
<1> QED
  BY SignOnAlways, HidesPassword, PTL

-------------------------------------------------------------------------------
(***************************************************************************)
(* What opens.                                                             *)
(***************************************************************************)

\* The replies of a quorum: what each node evaluated, and what its ciphertext was made with.
LEMMA RepliesOf ==
  ASSUME NodesReplied, NEW N, IsQuorum(request.participants, N)
  PROVE  /\ DOMAIN replies = 1 .. N
         /\ \A k \in 1 .. N :
              /\ replies[k].nodeId = request.participants[k]
              /\ replies[k].toprfPartial
                   = Evaluate(user.shares[request.participants[k]], request.blinded)
              /\ replies[k].ct.key = user.h[request.participants[k]]
              /\ replies[k].ct.aad = Signed
<1>1. DOMAIN request.participants = 1 .. N
  BY DEF IsQuorum
<1>2. \A k \in 1 .. N : replies[k] = Reply(request.participants[k])
  BY <1>1 DEF NodesReplied
<1> QED
  BY <1>1, <1>2 DEF NodesReplied, Reply, AeadEncrypt

\* From a quorum's replies the SDK recovers the evaluation of what was typed.
LEMMA RecoveredIs ==
  ASSUME NodesReplied, NEW N, IsQuorum(request.participants, N), NEW coeffs, UserOf(user, coeffs),
         NEW a \in Int, NEW r \in NonZero, request.r = r, request.blinded = Mod(a * r)
  PROVE  Recovered = <<request.password, Mod(a * coeffs[1])>>
<1>1. PICK ids : ids = request.participants
  OBVIOUS
<1>2. /\ N \in Nat /\ Threshold \in 1 .. N /\ Distinct(ids, N) /\ \A k \in 1 .. N : ids[k] \in NodeId
      /\ coeffs \in [1 .. Threshold -> Int]
  BY <1>1 DEF IsQuorum, UserOf
<1>3. PICK partials : partials = [k \in DOMAIN replies |->
        [id |-> replies[k].nodeId, point |-> replies[k].toprfPartial]]
  OBVIOUS
<1>4. partials = PartialsOf(ids, N, coeffs, a, r)
  <2>1. \A k \in 1 .. N : user.shares[ids[k]] = Horner(coeffs, ids[k])
    BY <1>2 DEF UserOf
  <2>2. /\ DOMAIN replies = 1 .. N
        /\ \A k \in 1 .. N : replies[k].nodeId = ids[k]
             /\ replies[k].toprfPartial = Evaluate(Horner(coeffs, ids[k]), Mod(a * r))
    BY <1>1, <2>1, RepliesOf
  <2> QED
    BY <1>3, <2>2 DEF PartialsOf
<1>5. UnblindsTo(r, partials, a, coeffs)
  BY <1>2, <1>4, UnblindIsEvaluation
<1> QED
  BY <1>3, <1>5 DEF Recovered, Finalize, UnblindsTo

\* It follows of the replies and of what the SDK recovers from them.
LEMMA OpensOnly == SignOnInv => OpensForThePassword
<1> SUFFICES ASSUME SignOnInv, stage = "done"
             PROVE  result.opened <=> request.password = Registered /\ request.expected = Signed
  BY DEF OpensForThePassword
<1>1. PICK password \in Password, r \in Blinding, expected \in Message,
           participants \in Participants, nonces \in Nonces :
        request = RequestOf(password, r, expected, participants, nonces)
  BY DEF SignOnInv, RequestMade
<1>2. /\ request.password = password /\ request.r = r /\ request.expected = expected
      /\ request.participants = participants
      /\ request.blinded = Mod(HashToGroup(password) * r)
  BY <1>1 DEF RequestOf, Blind, Multiply
<1>3. PICK N : IsQuorum(request.participants, N)
  BY <1>2, ParticipantsAreQuorum
<1>4. PICK coeffs : UserOf(user, coeffs)
  BY DealtUser DEF SignOnInv, KeysDealt
<1>5. PICK a \in Int, b \in Int : a = HashToGroup(password) /\ b = HashToGroup(Registered)
  BY ConstantFacts, SignOnCryptoAssumption
<1>6. NodesReplied /\ Assembled
  BY DEF SignOnInv
<1>7. Recovered = <<password, Mod(a * coeffs[1])>>
  <2>1. r \in NonZero
    BY ConstantFacts
  <2> QED
    BY <1>2, <1>3, <1>4, <1>5, <1>6, <2>1, RecoveredIs
<1>8. PICK h : h = <<Registered, Mod(b * coeffs[1])>>
  OBVIOUS
<1>9. N \in Nat /\ 1 \in 1 .. N /\ \A k \in 1 .. N : participants[k] \in NodeId
  BY <1>2, <1>3, ConstantFacts DEF IsQuorum
<1>10. /\ DOMAIN replies = 1 .. N
       /\ \A k \in 1 .. N :
            /\ replies[k].nodeId = participants[k]
            /\ replies[k].ct.key = user.h[participants[k]] /\ replies[k].ct.aad = Signed
  BY <1>2, <1>3, <1>6, RepliesOf
<1>11. \A k \in 1 .. N : replies[k].ct.key = <<h, participants[k]>>
  BY <1>4, <1>5, <1>8, <1>9, <1>10 DEF UserOf
<1>12. AllOpen <=> h = Recovered /\ Signed = expected
  <2>1. \A k \in 1 .. N :
          Opens(replies[k].ct, DeriveServerKey(Recovered, replies[k].nodeId), request.expected)
            <=> h = Recovered /\ Signed = expected
    BY <1>2, <1>10, <1>11 DEF Opens, DeriveServerKey
  <2> QED
    BY <2>1, <1>9, <1>10 DEF AllOpen
<1>13. h = Recovered <=> password = Registered
  BY <1>5, <1>7, <1>8
<1>14. result.opened <=> AllOpen
  BY <1>6 DEF Assembled
<1> QED
  BY <1>2, <1>12, <1>13, <1>14

\* For every quorum in every order, every key and every blinding, what the nodes sent opens
\* exactly if the password is the one registered and the assertion the one they signed
\* (client.ts 202-287, toprf.ts 92-169).
THEOREM OpensAlways == Spec => []OpensForThePassword
<1> QED
  BY SignOnAlways, OpensOnly, PTL

-------------------------------------------------------------------------------
(***************************************************************************)
(* The signature.                                                          *)
(***************************************************************************)

\* A signature share against the node's term of R: D and E are of d and e, l weighs the share v.
ShareTermIs(d, e, rho, l, v, c) ==
  Mod(Mod(d + rho * e + l * v * c)) = Mod(1 * ((Mod(1 * d) + Mod(Mod(1 * e) * rho)) + c * (l * v)))

\* A signature share, as a term of R and the weighted key share.
LEMMA ShareTerm ==
  ASSUME NEW d \in Int, NEW e \in Int, NEW rho \in Int, NEW l \in Int, NEW v \in Int, NEW c \in Int
  PROVE  ShareTermIs(d, e, rho, l, v, c)
<1>1. PICK x \in Int, y \in Int, z \in Int : x = Mod(d) /\ y = Mod(e) /\ z = c * (l * v)
  <2>1. PICK z \in Int : z = c * (l * v)
    OBVIOUS
  <2> QED
    BY <2>1, ModType
<1>2. 1 * d = d /\ 1 * e = e
  OBVIOUS
<1>3. PICK m \in Int, n \in Int, o \in Int : m = y * rho /\ n = rho * e /\ o = Mod(m)
  <2>1. PICK m \in Int, n \in Int : m = y * rho /\ n = rho * e
    OBVIOUS
  <2> QED
    BY <2>1, ModType
<1>4. o = Mod(n)
  <2>1. Mod(Mod(e) * rho) = Mod(e * rho)
    BY ModInside
  <2>2. e * rho = rho * e
    OBVIOUS
  <2> QED
    BY <2>1, <2>2, <1>1, <1>3
<1>5. Mod(x + o) = Mod(d + n)
  BY <1>1, <1>3, <1>4, ModBoth
<1>6. PICK s \in Int, t \in Int : s = x + o /\ t = d + n
  OBVIOUS
<1>7. Mod(s + z) = Mod(t + z)
  <2>1. Mod(s) = Mod(t)
    BY <1>5, <1>6
  <2>2. Mod(Mod(s) + z) = Mod(s + z) /\ Mod(Mod(t) + z) = Mod(t + z)
    BY ModInside
  <2> QED
    BY <2>1, <2>2
<1>8. d + rho * e + l * v * c = t + z
  <2>1. l * v * c = c * (l * v)
    OBVIOUS
  <2> QED
    BY <2>1, <1>1, <1>3, <1>6
<1>9. 1 * (s + z) = s + z /\ Mod(Mod(t + z)) = Mod(t + z)
  <2>1. t + z \in Int /\ s + z \in Int
    OBVIOUS
  <2> QED
    BY <2>1, ModMod
<1> QED
  BY <1>1, <1>2, <1>3, <1>6, <1>7, <1>8, <1>9 DEF ShareTermIs

Verifies(z, R, c, s) == Mod(1 * z) = Mod(R + Mod(s * c))

\* The shares of a quorum add up to R and c times the key.
LEMMA SharesVerify ==
  ASSUME NEW N \in Nat, NEW ids, Distinct(ids, N), NEW K \in 1 .. N, NEW coeffs \in [1 .. K -> Int],
         NEW f \in [1 .. N -> Int], NEW h \in [1 .. N -> Int], NEW c \in Int,
         \A k \in 1 .. N : Mod(h[k])
           = Mod(1 * (f[k] + c * (Lambda(ids, ids[k], N) * Value(coeffs, ids[k], K))))
  PROVE  Verifies(SumOf(h), SumOf(f), c, coeffs[1])
<1>1. PICK g \in [1 .. N -> Int] :
        /\ g = Weighted(ids, N, coeffs, K)
        /\ \A k \in 1 .. N : g[k] = Lambda(ids, ids[k], N) * Value(coeffs, ids[k], K)
  <2>1. K \in Nat /\ K \in 0 .. K
    OBVIOUS
  <2> QED
    BY <2>1, WeightedType
<1>2. Sum(g, N) = Mod(coeffs[1])
  BY <1>1, Interpolation
<1>3. SumsLinearly(h, f, g, 1, c, N)
  <2>1. LinearUpTo(h, f, g, 1, c, N)
    BY <1>1 DEF LinearUpTo
  <2>2. N \in 0 .. N /\ 1 \in Int /\ g \in [1 .. N -> Int]
    BY <1>1
  <2> QED
    BY <2>1, <2>2, SumLinear
<1>4. PICK s \in Int : s = coeffs[1]
  <2>1. 1 \in 1 .. K
    OBVIOUS
  <2> QED
    BY <2>1
<1>5. PICK R \in Int, t \in Int : R = SumOf(f) /\ t = Mod(s)
  <2>1. N \in 0 .. N
    OBVIOUS
  <2>2. SumOf(f) \in Scalar
    BY <2>1, SumSteps
  <2> QED
    BY <2>2, ScalarIsInt, ModType
<1>6. SumOf(h) = Mod(1 * (R + c * t))
  <2>1. Sum(h, N) = SumOf(h) /\ Sum(f, N) = SumOf(f)
    BY SumSteps
  <2> QED
    BY <2>1, <1>2, <1>3, <1>4, <1>5 DEF SumsLinearly
<1>7. PICK m \in Int, n \in Int : m = c * t /\ n = c * s
  OBVIOUS
<1>8. Mod(m) = Mod(n)
  <2>1. Mod(c * Mod(s)) = Mod(c * s)
    BY ModInside
  <2> QED
    BY <2>1, <1>5, <1>7
<1>9. Mod(R + Mod(n)) = Mod(R + n) /\ Mod(R + Mod(m)) = Mod(R + m)
  BY ModInside
<1>10. PICK w \in Int : w = R + m
  OBVIOUS
<1>11. 1 * w = w /\ Mod(Mod(w)) = Mod(w) /\ 1 * Mod(w) = Mod(w)
  BY ModMod, ModType
<1>12. s * c = n
  <2>1. s * c = c * s
    OBVIOUS
  <2> QED
    BY <2>1, <1>7
<1> QED
  BY <1>4, <1>5, <1>6, <1>7, <1>8, <1>9, <1>10, <1>11, <1>12 DEF Verifies

\* The hashes of FROST are numbers.
LEMMA HashFacts ==
  /\ \A participants \in Participants, nonces \in Nonces : \A k \in DOMAIN participants :
       ComputeBindingFactor(participants[k], Signed, Commitments(participants, nonces)) \in Int
  /\ \A R \in Scalar, publicKey \in Scalar : ComputeChallenge(R, publicKey, Signed) \in Int
<1>1. Signed \in Message
  BY SignOnCryptoAssumption
<1>2. ASSUME NEW participants \in Participants, NEW nonces \in Nonces, NEW k \in DOMAIN participants
      PROVE  ComputeBindingFactor(participants[k], Signed, Commitments(participants, nonces)) \in Int
  <2>1. ComputeBindingFactor(participants[k], Signed, Commitments(participants, nonces)) \in NonZero
    BY <1>1, HashAssumption
  <2> QED
    BY <2>1, ScalarIsInt
<1>3. ASSUME NEW R \in Scalar, NEW publicKey \in Scalar
      PROVE  ComputeChallenge(R, publicKey, Signed) \in Int
  BY <1>1, HashAssumption, ScalarIsInt
<1> QED
  BY <1>2, <1>3

\* So are the nonces.
LEMMA NonceFacts ==
  ASSUME NEW nonces \in Nonces, NEW i \in NodeId
  PROVE  nonces[i][1] \in Int /\ nonces[i][2] \in Int
<1>1. nonces \in [NodeId -> NonZero \X NonZero]
  BY SignOnCryptoAssumption DEF NodeId
<1> QED
  BY <1>1, ScalarIsInt

\* The node's term of the group commitment.
CommitmentTerm(c, msg, commitments) ==
  c.D + Multiply(c.E, ComputeBindingFactor(c.nodeId, msg, commitments))

\* What the shares of a quorum add up to, over the commitments of the same quorum.
LEMMA QuorumSigns ==
  ASSUME NEW participants \in Participants, NEW nonces \in Nonces, NEW coeffs,
         GroupOf(group, coeffs), NEW N, IsQuorum(participants, N), NEW shares,
         shares = [k \in 1 .. N |->
           ComputeSignatureShare(participants[k], nonces[participants[k]],
             group.shares[participants[k]], Signed, Commitments(participants, nonces),
             group.publicKey, participants)]
  PROVE  VerifyEd25519(
           AggregateSignatureShares(
             ComputeGroupCommitment(Signed, Commitments(participants, nonces)), shares),
           Signed, group.publicKey)
<1>1. PICK ids : ids = participants
  OBVIOUS
<1>2. /\ N \in Nat /\ Threshold \in 1 .. N /\ Distinct(ids, N) /\ \A k \in 1 .. N : ids[k] \in NodeId
      /\ DOMAIN ids = 1 .. N /\ coeffs \in [1 .. Threshold -> Int] /\ coeffs[1] \in NonZero
      /\ Threshold \in Nat
  BY <1>1, ConstantFacts DEF IsQuorum, GroupOf
<1>3. PICK cs : cs = Commitments(ids, nonces)
  OBVIOUS
<1>4. /\ DOMAIN cs = 1 .. N
      /\ \A k \in 1 .. N : cs[k] = [nodeId |-> ids[k], D |-> Mod(1 * nonces[ids[k]][1]),
                                    E |-> Mod(1 * nonces[ids[k]][2])]
  BY <1>2, <1>3 DEF Commitments, Commitment, Multiply, B
<1>5. PICK rho : \A k \in 1 .. N : rho[k] = ComputeBindingFactor(ids[k], Signed, cs) /\ rho[k] \in Int
  <2>1. \A k \in 1 .. N : ComputeBindingFactor(ids[k], Signed, cs) \in Int
    BY <1>1, <1>2, <1>3, HashFacts
  <2>2. PICK rho : rho = [k \in 1 .. N |-> ComputeBindingFactor(ids[k], Signed, cs)]
    OBVIOUS
  <2>3. \A k \in 1 .. N : rho[k] = ComputeBindingFactor(ids[k], Signed, cs)
    BY <2>2
  <2>4. \A k \in 1 .. N : rho[k] = ComputeBindingFactor(ids[k], Signed, cs) /\ rho[k] \in Int
    BY <2>1, <2>3
  <2> QED
    BY <2>4
<1>6. PICK f : f = [k \in 1 .. N |-> Mod(1 * nonces[ids[k]][1]) + Mod(Mod(1 * nonces[ids[k]][2]) * rho[k])]
  OBVIOUS
<1>7. ComputeGroupCommitment(Signed, cs) = SumOf(f)
  <2>1. f = [k \in DOMAIN cs |->
               LET c == cs[k] IN c.D + Multiply(c.E, ComputeBindingFactor(c.nodeId, Signed, cs))]
    BY <1>4, <1>5, <1>6 DEF Multiply
  <2> QED
    BY <2>1 DEF ComputeGroupCommitment
<1>8. ASSUME NEW k \in 1 .. N
      PROVE  \E d \in Int, e \in Int, l \in Int, v \in Int :
               /\ d = nonces[ids[k]][1] /\ e = nonces[ids[k]][2]
               /\ l = Lambda(ids, ids[k], N) /\ v = Value(coeffs, ids[k], Threshold)
               /\ LagrangeCoefficient(ids[k], ids) = l /\ group.shares[ids[k]] = v
  <2>1. nonces[ids[k]][1] \in Int /\ nonces[ids[k]][2] \in Int
    BY <1>2, NonceFacts
  <2>2. HasShare(ids, N, coeffs, Threshold, k)
    BY <1>2, ShareOf
  <2>3. group.shares[ids[k]] = ShareAt(coeffs, ids[k])
    BY <1>2 DEF GroupOf
  <2> QED
    BY <2>1, <2>2, <2>3 DEF HasShare
<1>9. \A k \in 1 .. N : f[k] \in Int
  <2>1. SUFFICES ASSUME NEW k \in 1 .. N PROVE f[k] \in Int
    OBVIOUS
  <2>2. PICK d \in Int, e \in Int, r \in Int :
          d = nonces[ids[k]][1] /\ e = nonces[ids[k]][2] /\ r = rho[k]
    BY <1>5, <1>8
  <2>3. 1 * d = d /\ 1 * e = e
    OBVIOUS
  <2>4. PICK x \in Int, y \in Int : x = Mod(d) /\ y = Mod(e)
    BY ModType
  <2>5. PICK m \in Int : m = y * r
    OBVIOUS
  <2>6. x + Mod(m) \in Int
    BY ModType
  <2> QED
    BY <1>6, <2>2, <2>3, <2>4, <2>5, <2>6
<1>10. f \in [1 .. N -> Int]
  BY <1>6, <1>9
<1>11. PICK R \in Scalar : R = SumOf(f)
  <2>1. N \in 0 .. N
    BY <1>2
  <2>2. Sum(f, N) = SumOf(f) /\ Sum(f, N) \in Scalar
    BY <1>2, <1>10, <2>1, SumSteps
  <2> QED
    BY <2>2
<1>12. group.publicKey = coeffs[1] /\ group.publicKey \in Scalar
  BY <1>2, ScalarIsInt DEF GroupOf
<1>13. PICK c \in Int : c = ComputeChallenge(R, group.publicKey, Signed)
  BY <1>11, <1>12, HashFacts
<1>14. ASSUME NEW k \in 1 .. N
       PROVE  /\ shares[k] \in Int
              /\ Mod(shares[k]) = Mod(1 * (f[k] + c * (Lambda(ids, ids[k], N) * Value(coeffs, ids[k], Threshold))))
  <2>1. PICK d \in Int, e \in Int, l \in Int, v \in Int :
               /\ d = nonces[ids[k]][1] /\ e = nonces[ids[k]][2]
               /\ l = Lambda(ids, ids[k], N) /\ v = Value(coeffs, ids[k], Threshold)
               /\ LagrangeCoefficient(ids[k], ids) = l /\ group.shares[ids[k]] = v
    BY <1>8
  <2>2. PICK r \in Int : r = rho[k]
    BY <1>5
  <2>3. shares[k] = Mod(d + r * e + l * v * c)
    <3>1. shares[k] = ComputeSignatureShare(ids[k], nonces[ids[k]], v, Signed, cs, group.publicKey, ids)
      BY <1>1, <1>3, <2>1
    <3>2. ComputeBindingFactor(ids[k], Signed, cs) = r
      BY <1>5, <2>2
    <3>3. ComputeChallenge(ComputeGroupCommitment(Signed, cs), group.publicKey, Signed) = c
      BY <1>7, <1>11, <1>13
    <3> QED
      BY <3>1, <3>2, <3>3, <2>1 DEF ComputeSignatureShare
  <2>4. f[k] = Mod(1 * d) + Mod(Mod(1 * e) * r)
    BY <1>6, <2>1, <2>2
  <2>5. ShareTermIs(d, e, r, l, v, c)
    BY ShareTerm
  <2>6. PICK w \in Int : w = d + r * e + l * v * c
    OBVIOUS
  <2>7. shares[k] \in Int
    BY <2>3, <2>6, ModType
  <2> QED
    BY <2>1, <2>3, <2>4, <2>5, <2>7 DEF ShareTermIs
<1>15. shares \in [1 .. N -> Int]
  BY <1>14
<1>16. Verifies(SumOf(shares), SumOf(f), c, coeffs[1])
  BY <1>2, <1>10, <1>14, <1>15, SharesVerify
<1> QED
  <2>1. PICK sig : sig = AggregateSignatureShares(ComputeGroupCommitment(Signed, cs), shares)
    OBVIOUS
  <2>2. sig.z = SumOf(shares) /\ sig.R = R
    BY <2>1, <1>7, <1>11 DEF AggregateSignatureShares
  <2>3. VerifyEd25519(sig, Signed, group.publicKey)
    BY <2>2, <1>11, <1>12, <1>13, <1>16 DEF VerifyEd25519, Verifies, Multiply, B
  <2> QED
    BY <2>1, <2>3, <1>1, <1>3

\* It follows of what the shares of a quorum add up to.
LEMMA OpenedVerifies == SignOnInv => AssertionVerifies
<1> SUFFICES ASSUME SignOnInv, stage = "done", result.opened
             PROVE  VerifyEd25519(result.signature, request.expected, group.publicKey)
  BY DEF AssertionVerifies
<1>1. PICK password \in Password, r \in Blinding, expected \in Message,
           participants \in Participants, nonces \in Nonces :
        request = RequestOf(password, r, expected, participants, nonces)
  BY DEF SignOnInv, RequestMade
<1>2. /\ request.participants = participants /\ request.nonces = nonces
      /\ request.commitments = Commitments(participants, nonces)
  BY <1>1 DEF RequestOf
<1>3. PICK N : IsQuorum(participants, N)
  BY ParticipantsAreQuorum
<1>4. PICK coeffs : GroupOf(group, coeffs)
  BY DealtGroup DEF SignOnInv, KeysDealt
<1>5. NodesReplied /\ Assembled
  BY DEF SignOnInv
<1>6. request.expected = Signed
  BY OpensOnly DEF OpensForThePassword
<1>7. PICK shares : shares = [k \in DOMAIN replies |-> replies[k].ct.plaintext]
  OBVIOUS
<1>8. result.signature = AggregateSignatureShares(
        ComputeGroupCommitment(Signed, Commitments(participants, nonces)), shares)
  <2>1. AllOpen
    BY <1>5 DEF Assembled
  <2> QED
    BY <2>1, <1>2, <1>5, <1>6, <1>7 DEF Assembled
<1>9. shares = [k \in 1 .. N |->
        ComputeSignatureShare(participants[k], nonces[participants[k]],
          group.shares[participants[k]], Signed, Commitments(participants, nonces),
          group.publicKey, participants)]
  <2>1. DOMAIN participants = 1 .. N
    BY <1>3 DEF IsQuorum
  <2> QED
    BY <2>1, <1>2, <1>5, <1>7 DEF NodesReplied, Reply, AeadEncrypt
<1>10. VerifyEd25519(
         AggregateSignatureShares(
           ComputeGroupCommitment(Signed, Commitments(participants, nonces)), shares),
         Signed, group.publicKey)
  BY <1>3, <1>4, <1>9, QuorumSigns
<1> QED
  BY <1>6, <1>8, <1>10

\* What the SDK assembles once the shares opened verifies under the group key, for every
\* quorum in every order, every key, every nonces and every hash (frost.ts 172-225, client.ts
\* 202-287).
THEOREM VerifiesAlways == Spec => []AssertionVerifies
<1> QED
  BY SignOnAlways, OpenedVerifies, PTL

-------------------------------------------------------------------------------
(***************************************************************************)
(* The key.                                                                *)
(***************************************************************************)

\* A threshold of the dealt shares, in whatever order, combines to the key.
LEMMA SharesMakeKey ==
  ASSUME NEW coeffs, GroupOf(group, coeffs), NEW N \in Nat, NEW ids, Distinct(ids, N),
         ids \in [1 .. N -> NodeId], Threshold <= N
  PROVE  Multiply(B, CombineShares([k \in DOMAIN ids |-> <<ids[k], group.shares[ids[k]]>>]))
           = group.publicKey
<1>1. /\ coeffs \in [1 .. Threshold -> Int] /\ coeffs[1] \in NonZero /\ group.publicKey = coeffs[1]
      /\ Threshold \in 1 .. N /\ DOMAIN ids = 1 .. N
  BY ConstantFacts DEF GroupOf
<1>2. PICK shares : shares = [k \in 1 .. N |-> <<ids[k], ShareAt(coeffs, ids[k])>>]
  OBVIOUS
<1>3. [k \in DOMAIN ids |-> <<ids[k], group.shares[ids[k]]>>] = shares
  <2>1. \A k \in 1 .. N : group.shares[ids[k]] = ShareAt(coeffs, ids[k])
    BY DEF GroupOf
  <2> QED
    BY <2>1, <1>1, <1>2
<1>4. CombineShares(shares) = Mod(coeffs[1])
  BY <1>1, <1>2, CombineSharesIsSecret
<1>5. PICK s \in Scalar : s = coeffs[1] /\ s \in Int
  BY <1>1, ScalarIsInt
<1>6. Mod(s) = s /\ 1 * s = s
  BY <1>5, ModOfScalar
<1> QED
  BY <1>1, <1>3, <1>4, <1>5, <1>6 DEF Multiply, B

\* With fewer shares every key has a polynomial that deals them.
LEMMA SharesHideKey ==
  ASSUME NEW coeffs, GroupOf(group, coeffs), NEW T \in SUBSET NodeId,
         Cardinality(T) < Threshold, NEW secret \in NonZero
  PROVE  \E other \in Polynomials(Threshold) :
           other[1] = secret /\ \A i \in T : ShareAt(other, i) = group.shares[i]
<1>1. PICK N, ids :
        /\ N \in Nat /\ ids \in [1 .. N -> T] /\ Distinct(ids, N) /\ N < Threshold
        /\ \A t \in T : \E k \in 1 .. N : ids[k] = t
  BY SomeSequence
<1>2. coeffs \in [1 .. Threshold -> Int] /\ secret \in Scalar /\ Threshold \in Nat
  BY ConstantFacts, ScalarIsInt DEF GroupOf
<1>3. PICK other : AgreesWith(other, ids, N, coeffs, Threshold, secret)
  <2>1. OpenTo(ids, N, coeffs, Threshold, secret)
    BY <1>1, <1>2, OpenBelow
  <2> QED
    BY <2>1 DEF OpenTo
<1>4. /\ other \in [1 .. Threshold -> Scalar] /\ other \in [1 .. Threshold -> Int] /\ other[1] = secret
      /\ \A k \in 1 .. N : Value(other, ids[k], Threshold) = Value(coeffs, ids[k], Threshold)
  BY <1>3, ScalarIsInt DEF AgreesWith
<1>5. other \in Polynomials(Threshold)
  BY <1>4 DEF Polynomials, NonZero
<1>6. ASSUME NEW i \in T PROVE ShareAt(other, i) = group.shares[i]
  <2>1. PICK k \in 1 .. N : ids[k] = i
    BY <1>1
  <2>2. i \in NodeId /\ i \in Int
    BY ConstantFacts
  <2>3. ShareAt(other, i) = Value(other, i, Threshold) /\ ShareAt(coeffs, i) = Value(coeffs, i, Threshold)
    BY <1>2, <1>4, <2>2, ShareAtIsValue
  <2> QED
    BY <1>4, <2>1, <2>2, <2>3 DEF GroupOf
<1> QED
  BY <1>4, <1>5, <1>6

\* It follows of the polynomial that was dealt.
LEMMA KeyShared == SignOnInv => KeyIsThresholdShared
<1> SUFFICES ASSUME SignOnInv, NEW T \in SUBSET NodeId
             PROVE  IF Cardinality(T) >= Threshold
                    THEN LET ids == SetToSeq(T)
                         IN Multiply(B, CombineShares([k \in DOMAIN ids |-> <<ids[k], group.shares[ids[k]]>>]))
                              = group.publicKey
                    ELSE \A secret \in NonZero :
                           \E coeffs \in Polynomials(Threshold) :
                             coeffs[1] = secret /\ \A i \in T : ShareAt(coeffs, i) = group.shares[i]
  BY DEF KeyIsThresholdShared
<1>1. PICK coeffs : GroupOf(group, coeffs)
  BY DealtGroup DEF SignOnInv, KeysDealt
<1>2. PICK N, ids :
        /\ N \in Nat /\ N = Cardinality(T) /\ ids = SetToSeq(T) /\ Distinct(ids, N) /\ ids \in [1 .. N -> NodeId]
  <2>1. Cardinality(T) \in Nat /\ SetToSeq(T) \in [1 .. Cardinality(T) -> T]
        /\ Distinct(SetToSeq(T), Cardinality(T))
    BY SomeSequence
  <2>2. SetToSeq(T) \in [1 .. Cardinality(T) -> NodeId]
    BY <2>1
  <2> QED
    BY <2>1, <2>2
<1>3. CASE Cardinality(T) >= Threshold
  <2>1. Threshold <= N
    BY <1>2, <1>3, ConstantFacts
  <2>2. Multiply(B, CombineShares([k \in DOMAIN ids |-> <<ids[k], group.shares[ids[k]]>>]))
          = group.publicKey
    BY <1>1, <1>2, <2>1, SharesMakeKey
  <2> QED
    BY <1>2, <1>3, <2>2
<1>4. CASE ~(Cardinality(T) >= Threshold)
  <2>1. Cardinality(T) < Threshold
    BY <1>2, <1>4, ConstantFacts
  <2>2. \A secret \in NonZero :
          \E other \in Polynomials(Threshold) :
            other[1] = secret /\ \A i \in T : ShareAt(other, i) = group.shares[i]
    BY <1>1, <2>1, SharesHideKey
  <2> QED
    BY <1>4, <2>2
<1> QED
  BY <1>3, <1>4

\* A threshold of the dealt shares combines to the key, whichever nodes hold them; with fewer,
\* any key is one polynomial away (frost.ts 47-76, shamir.ts 142-186).
THEOREM KeySharedAlways == Spec => []KeyIsThresholdShared
<1> QED
  BY SignOnAlways, KeyShared, PTL

-------------------------------------------------------------------------------
(***************************************************************************)
(* The two libraries, written apart, agree for every prime.                *)
(***************************************************************************)

\* The extended Euclid of the nodes and the square-and-multiply of the SDK return the same
\* inverse, and it is one (node frost.ts 12-22, SDK shamir.ts 30-56).
THEOREM InversesAgree ==
  ASSUME NEW a \in Int, Mod(a) # 0
  PROVE  ModInverse(a) = Invert(a) /\ Mod(a * Invert(a)) = 1
<1> QED
  BY InvType, InvertIsInv, ModInverseIsInv

\* Whoever takes part and in whatever order, a node weighs its signature share with the
\* coefficient the SDK weighs its TOPRF share with, however the signs of numerator and
\* denominator are written (node frost.ts 78-93, SDK shamir.ts 142-160).
THEOREM CoefficientsAgree ==
  ASSUME NEW participants \in Participants, NEW k \in DOMAIN participants
  PROVE  LagrangeCoefficient(participants[k], participants)
           = LagrangeCoeff(participants, participants[k])
<1>1. PICK N : IsQuorum(participants, N)
  BY ParticipantsAreQuorum
<1>2. N \in Nat /\ Distinct(participants, N) /\ k \in 1 .. N
  BY <1>1 DEF IsQuorum
<1>3. participants[k] \in Scalar
  BY <1>2, IdFacts
<1> QED
  BY <1>2, <1>3, FrostCoefficient, ShamirCoefficient

\* The dealer's two ways to share a polynomial, power by power for FROST and by Horner's
\* method for the TOPRF, deal the same shares (dealer frost.ts 47-76, shamir.ts 107-140).
THEOREM SharingsAgree ==
  ASSUME NEW coeffs \in Polynomials(Threshold)
  PROVE  GenerateShamirShares(coeffs, Total) = SplitSecret(coeffs, Total)
<1>1. coeffs \in [1 .. Threshold -> Int] /\ Threshold \in Nat
  BY ConstantFacts, PolynomialType
<1>2. \A i \in 1 .. Total : ShareAt(coeffs, i) = Horner(coeffs, i)
  <2>1. \A i \in 1 .. Total : i \in Int
    OBVIOUS
  <2> QED
    BY <1>1, <2>1, ShareAtIsValue, HornerIsValue
<1> QED
  BY <1>2 DEF GenerateShamirShares, SplitSecret
===============================================================================
