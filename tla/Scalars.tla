-------------------------------- MODULE Scalars --------------------------------
(***************************************************************************)
(* The scalar arithmetic under FROST and the TOPRF, over a prime Order: a  *)
(* small one here, the order of the Ed25519 group in the code.  The two    *)
(* libraries, frost.ts and shamir.ts, each have their own inverse, their   *)
(* own way to share a secret and their own Lagrange coefficient.           *)
(***************************************************************************)
EXTENDS Integers, Sequences, SequencesExt

CONSTANT Order  \* L, ED25519_ORDER

ASSUME OrderAssumption == Order \in Nat /\ Order > 1 /\ \A d \in 2 .. Order - 1 : Order % d # 0

Scalar == 0 .. Order - 1
NonZero == 1 .. Order - 1

Mod(a) == a % Order

\* frost.ts: extended Euclid, a quotient at a time.  r is at most Order - k after k turns.
ModInverse(a) ==
  LET turn[k \in 0 .. Order] ==
        IF k = 0 THEN [old_r |-> Mod(a), r |-> Order, old_s |-> 1, s |-> 0]
        ELSE LET t == turn[k - 1]
                 q == t.old_r \div t.r
             IN IF t.r = 0 THEN t
                ELSE [old_r |-> t.r, r |-> t.old_r - q * t.r,
                      old_s |-> t.s, s |-> t.old_s - q * t.s]
  IN Mod(turn[Order].old_s)

\* shamir.ts: square and multiply.  When e is 0, a turn leaves res alone.
ModPow(base, exp) ==
  LET turn[k \in 0 .. exp] ==
        IF k = 0 THEN [res |-> 1, b |-> Mod(base), e |-> exp]
        ELSE LET t == turn[k - 1]
             IN [res |-> IF t.e % 2 = 1 THEN Mod(t.res * t.b) ELSE t.res,
                 b |-> Mod(t.b * t.b), e |-> t.e \div 2]
  IN turn[exp].res

\* Fermat's little theorem.
Invert(a) == ModPow(Mod(a), Order - 2)

ProductOf(seq) ==
  LET product[k \in 0 .. Len(seq)] == IF k = 0 THEN 1 ELSE Mod(product[k - 1] * seq[k])
  IN product[Len(seq)]

SumOf(seq) ==
  LET sum[k \in 0 .. Len(seq)] == IF k = 0 THEN 0 ELSE Mod(sum[k - 1] + seq[k])
  IN sum[Len(seq)]

\* The product over the other participants: i itself is passed over.
ProductOfOthers(ids, i, Factor(_)) ==
  ProductOf([k \in DOMAIN ids |-> IF ids[k] = i THEN 1 ELSE Factor(ids[k])])

\* Faulty variant of LagrangeCoefficient: j for -j.
LagrangeCoefficientUnsigned(i, participants) ==
  Mod(ProductOfOthers(participants, i, LAMBDA j : j)
        * ModInverse(ProductOfOthers(participants, i, LAMBDA j : i - j)))

\* frost.ts: the product of -j / (i - j).
LagrangeCoefficient(i, participants) ==
  Mod(ProductOfOthers(participants, i, LAMBDA j : -j)
        * ModInverse(ProductOfOthers(participants, i, LAMBDA j : i - j)))

\* shamir.ts: the product of j / (j - i).
LagrangeCoeff(ids, i) ==
  Mod(ProductOfOthers(ids, i, LAMBDA j : j) * Invert(ProductOfOthers(ids, i, LAMBDA j : j - i)))

\* Faulty variant of ShareAt: the coefficient of the highest power is never reached.
ShareAtLower(coeffs, x) ==
  LET at[k \in 0 .. Len(coeffs)] ==
        IF k = 0 THEN [y |-> 0, xPow |-> 1]
        ELSE [y |-> Mod(at[k - 1].y + coeffs[k] * at[k - 1].xPow),
              xPow |-> Mod(at[k - 1].xPow * x)]
  IN at[Len(coeffs) - 1].y

\* frost.ts: the polynomial at x, power by power, the secret first.
ShareAt(coeffs, x) ==
  LET at[k \in 0 .. Len(coeffs)] ==
        IF k = 0 THEN [y |-> 0, xPow |-> 1]
        ELSE [y |-> Mod(at[k - 1].y + coeffs[k] * at[k - 1].xPow),
              xPow |-> Mod(at[k - 1].xPow * x)]
  IN at[Len(coeffs)].y

GenerateShamirShares(coeffs, total) == [i \in 1 .. total |-> ShareAt(coeffs, i)]

\* shamir.ts: the same by Horner's method, from the last coefficient to the secret.
Horner(coeffs, x) ==
  LET acc[k \in 0 .. Len(coeffs)] ==
        IF k = 0 THEN 0 ELSE Mod(Mod(acc[k - 1] * x) + coeffs[Len(coeffs) + 1 - k])
  IN acc[Len(coeffs)]

SplitSecret(coeffs, total) == [i \in 1 .. total |-> Horner(coeffs, i)]

\* Shares from different nodes, as <<id, value>> in the order they came.
CombineShares(shares) ==
  LET ids == [k \in DOMAIN shares |-> shares[k][1]]
  IN SumOf([k \in DOMAIN shares |-> Mod(LagrangeCoeff(ids, ids[k]) * shares[k][2])])

\* The polynomials of a sharing: the secret is not zero, the other coefficients are any.
Polynomials(threshold) == {coeffs \in [1 .. threshold -> Scalar] : coeffs[1] # 0}
===============================================================================
