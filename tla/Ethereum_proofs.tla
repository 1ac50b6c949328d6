-------------------------- MODULE Ethereum_proofs --------------------------
(* What is signed and sent, for any accounts, amounts, nonces and numbers of *)
(* requests at a time.                                                       *)
EXTENDS Ethereum, Integers, Sequences, FiniteSetTheorems, WellFoundedInduction, TLAPS

\* A set of naturals has a least one, if it has any.
LEMMA LeastNatural ==
  ASSUME NEW T \in SUBSET Nat, T # {}
  PROVE  \E x \in T : \A y \in T : x <= y
<1> DEFINE R == OpToRel(<, Nat)
<1>1. \A x, y \in Nat : y < x => <<y, x>> \in R
  BY DEF OpToRel
<1>2. IsWellFoundedOn(R, Nat)
  BY NatLessThanWellFounded, Zenon
<1> HIDE DEF R
<1>3. PICK x \in T : \A y \in T : ~ (<<y, x>> \in R)
  BY <1>2, WFMin
<1>4. \A y \in T : ~(y < x)
  BY <1>1, <1>3
<1> QED BY <1>4

-----------------------------------------------------------------------------
(* Amounts.  A decimal shifted by e places is rounded to p with 2 |p D - n S| <= D,  *)
(* D = 10^Digits <= S = 2^e; the product, shifted by f places, to m with            *)
(* 2 |m S - p D F| <= S, F = 2^f.  So m is within F of n F, and never F above.       *)

\* The powers of b up to the k-th.
Powers(b, k) == {g \in [0..k -> Nat] : g[0] = 1 /\ \A i \in 1..k : g[i] = b * g[i - 1]}

\* There are powers up to any number.
LEMMA PowersExist ==
  ASSUME NEW b \in Nat, NEW k \in Nat
  PROVE  Powers(b, k) # {}
<1> DEFINE T == {i \in Nat : Powers(b, i) = {}}
<1> SUFFICES ASSUME T # {} PROVE FALSE
  OBVIOUS
<1>1. PICK m \in T : \A i \in T : m <= i
  <2>1. T \in SUBSET Nat
    OBVIOUS
  <2> QED BY <2>1, LeastNatural
<1>2. m # 0
  <2>1. [i \in 0..0 |-> 1] \in Powers(b, 0)
    BY DEF Powers
  <2> QED BY <2>1
<1>3. m - 1 \in Nat /\ m - 1 \notin T
  BY <1>1, <1>2
<1>4. PICK g : g \in Powers(b, m - 1)
  BY <1>3
<1> DEFINE h == [i \in 0..m |-> IF i = m THEN b * g[m - 1] ELSE g[i]]
<1>5. g \in [0..(m - 1) -> Nat] /\ g[0] = 1 /\ \A i \in 1..(m - 1) : g[i] = b * g[i - 1]
  BY <1>4 DEF Powers
<1>6. b * g[m - 1] \in Nat
  BY <1>3, <1>5
<1>7. h \in [0..m -> Nat]
  BY <1>1, <1>5, <1>6
<1>8. h[0] = 1
  BY <1>1, <1>2, <1>5
<1>9. ASSUME NEW i \in 1..m PROVE h[i] = b * h[i - 1]
  BY <1>1, <1>2, <1>5
<1>10. h \in Powers(b, m)
  <2> HIDE DEF h
  <2> QED BY <1>7, <1>8, <1>9 DEF Powers
<1> QED BY <1>1, <1>10

\* They are the same as far as they go.
LEMMA PowersAgree ==
  ASSUME NEW b \in Nat, NEW k \in Nat, NEW l \in Nat, NEW g \in Powers(b, k), NEW h \in Powers(b, l),
         NEW j \in Nat, j <= k, j <= l
  PROVE  g[j] = h[j]
<1> DEFINE T == {i \in Nat : i <= k /\ i <= l /\ g[i] # h[i]}
<1> SUFFICES ASSUME T # {} PROVE FALSE
  OBVIOUS
<1>1. PICK m \in T : \A i \in T : m <= i
  <2>1. T \in SUBSET Nat
    OBVIOUS
  <2> QED BY <2>1, LeastNatural
<1>2. m # 0
  BY <1>1 DEF Powers
<1>3. g[m - 1] = h[m - 1]
  BY <1>1, <1>2
<1>4. m \in 1..k /\ m \in 1..l
  BY <1>1, <1>2
<1>5. g[m] = b * g[m - 1] /\ h[m] = b * h[m - 1]
  BY <1>4 DEF Powers
<1> QED BY <1>1, <1>3, <1>5

\* Power is what it says.
LEMMA PowerSteps ==
  ASSUME NEW b \in Nat
  PROVE  Power(b, 0) = 1 /\ \A k \in Nat : Power(b, k) \in Nat /\ Power(b, k + 1) = b * Power(b, k)
<1> DEFINE Upto(k) == CHOOSE g : g \in Powers(b, k)
           F == [k \in Nat |-> Upto(k)[k]]
           f == CHOOSE f : f = [i \in Nat |-> IF i = 0 THEN 1 ELSE b * f[i - 1]]
<1>1. ASSUME NEW k \in Nat PROVE Upto(k) \in Powers(b, k)
  BY PowersExist
<1>2. F[0] = 1
  BY <1>1 DEF Powers
<1>3. ASSUME NEW k \in Nat PROVE F[k] \in Nat
  <2>1. Upto(k) \in [0..k -> Nat]
    BY <1>1 DEF Powers
  <2> QED BY <2>1
<1>4. ASSUME NEW k \in Nat PROVE F[k + 1] = b * F[k]
  <2>1. Upto(k + 1)[k + 1] = b * Upto(k + 1)[k]
    <3>1. k + 1 \in 1..(k + 1) /\ (k + 1) - 1 = k
      OBVIOUS
    <3>2. Upto(k + 1) \in Powers(b, k + 1)
      BY <1>1
    <3> HIDE DEF Upto
    <3> QED BY <3>1, <3>2 DEF Powers
  <2>2. Upto(k + 1)[k] = Upto(k)[k]
    <3>1. Upto(k) \in Powers(b, k) /\ Upto(k + 1) \in Powers(b, k + 1)
      BY <1>1
    <3> HIDE DEF Upto
    <3> QED BY <3>1, PowersAgree
  <2> HIDE DEF Upto
  <2> QED BY <2>1, <2>2
<1>5. F = [i \in Nat |-> IF i = 0 THEN 1 ELSE b * F[i - 1]]
  <2>1. ASSUME NEW i \in Nat PROVE F[i] = IF i = 0 THEN 1 ELSE b * F[i - 1]
    <3>1. CASE i = 0
      BY <3>1, <1>2
    <3>2. CASE i # 0
      <4>1. i - 1 \in Nat /\ (i - 1) + 1 = i
        BY <3>2
      <4>2. F[(i - 1) + 1] = b * F[i - 1]
        BY <4>1, <1>4
      <4> HIDE DEF F
      <4> QED BY <3>2, <4>1, <4>2
    <3> QED BY <3>1, <3>2
  <2>2. F = [i \in Nat |-> F[i]]
    OBVIOUS
  <2> HIDE DEF F
  <2> QED BY <2>1, <2>2
<1>6. f = [i \in Nat |-> IF i = 0 THEN 1 ELSE b * f[i - 1]]
  <2> HIDE DEF F
  <2> QED BY <1>5
<1>7. \A k : Power(b, k) = f[k]
  BY DEF Power
<1>8. f[0] = 1 /\ \A k \in Nat : f[k + 1] = b * f[k]
  <2> HIDE DEF f
  <2>1. f[0] = 1
    BY <1>6
  <2>2. ASSUME NEW k \in Nat PROVE f[k + 1] = b * f[k]
    <3>1. k + 1 \in Nat /\ k + 1 # 0 /\ (k + 1) - 1 = k
      OBVIOUS
    <3>2. \A i \in Nat : f[i] = IF i = 0 THEN 1 ELSE b * f[i - 1]
      BY <1>6, Zenon
    <3> QED BY <3>1, <3>2
  <2> QED BY <2>1, <2>2
<1>9. \A k \in Nat : f[k] \in Nat
  <2> HIDE DEF f
  <2> DEFINE T == {i \in Nat : f[i] \notin Nat}
  <2> SUFFICES ASSUME T # {} PROVE FALSE
    OBVIOUS
  <2>1. PICK m \in T : \A i \in T : m <= i
    <3>1. T \in SUBSET Nat
      OBVIOUS
    <3> QED BY <3>1, LeastNatural
  <2>2. m # 0
    BY <1>8, <2>1
  <2>3. m - 1 \in Nat /\ (m - 1) + 1 = m /\ f[m - 1] \in Nat
    BY <2>1, <2>2
  <2>4. f[m] = b * f[m - 1]
    BY <1>8, <2>3
  <2> QED BY <2>1, <2>3, <2>4
<1> HIDE DEF f
<1> QED BY <1>7, <1>8, <1>9

\* Powers of two are positive, add up, and grow.
LEMMA TwoPositive ==
  ASSUME NEW k \in Nat
  PROVE  Power(2, k) \in Nat /\ Power(2, k) >= 1
<1> DEFINE T == {i \in Nat : ~(Power(2, i) >= 1)}
<1>1. T = {}
  <2> SUFFICES ASSUME T # {} PROVE FALSE
    OBVIOUS
  <2>1. PICK m \in T : \A i \in T : m <= i
    <3>1. T \in SUBSET Nat
      OBVIOUS
    <3> QED BY <3>1, LeastNatural
  <2>2. m # 0
    BY <2>1, PowerSteps
  <2>3. m - 1 \in Nat /\ (m - 1) + 1 = m /\ Power(2, m - 1) >= 1
    BY <2>1, <2>2
  <2>4. Power(2, m) = 2 * Power(2, m - 1) /\ Power(2, m - 1) \in Nat
    BY <2>3, PowerSteps
  <2> QED BY <2>1, <2>3, <2>4
<1> QED BY <1>1, PowerSteps

LEMMA TwoAdds ==
  ASSUME NEW k \in Nat, NEW l \in Nat
  PROVE  Power(2, k + l) = Power(2, k) * Power(2, l)
<1> DEFINE T == {i \in Nat : Power(2, k + i) # Power(2, k) * Power(2, i)}
<1> SUFFICES ASSUME T # {} PROVE FALSE
  OBVIOUS
<1>1. PICK m \in T : \A i \in T : m <= i
  <2>1. T \in SUBSET Nat
    OBVIOUS
  <2> QED BY <2>1, LeastNatural
<1>2. m # 0
  <2>1. k + 0 = k /\ Power(2, 0) = 1 /\ Power(2, k) \in Nat
    BY PowerSteps
  <2>2. Power(2, k + 0) = Power(2, k) * Power(2, 0)
    BY <2>1
  <2> QED BY <1>1, <2>2
<1>3. m - 1 \in Nat /\ (m - 1) + 1 = m /\ Power(2, k + (m - 1)) = Power(2, k) * Power(2, m - 1)
  BY <1>1, <1>2
<1>4. Power(2, m) = 2 * Power(2, m - 1) /\ Power(2, m - 1) \in Nat
  BY <1>3, PowerSteps
<1>5. Power(2, k + m) = 2 * Power(2, k + (m - 1))
  <2>1. k + (m - 1) \in Nat /\ (k + (m - 1)) + 1 = k + m
    BY <1>3
  <2> QED BY <2>1, PowerSteps
<1>6. Power(2, k) \in Nat
  BY PowerSteps
<1> DEFINE x == Power(2, k)
           y == Power(2, m - 1)
<1>7. 2 * (x * y) = x * (2 * y)
  <2> HIDE DEF x, y
  <2> SUFFICES ASSUME x \in Nat, y \in Nat PROVE 2 * (x * y) = x * (2 * y)
    BY <1>4, <1>6 DEF x, y
  <2> QED OBVIOUS
<1> QED BY <1>1, <1>3, <1>4, <1>5, <1>7

LEMMA TwoGrows ==
  ASSUME NEW k \in Nat, NEW l \in Nat, k <= l
  PROVE  Power(2, k) <= Power(2, l)
<1>1. l - k \in Nat /\ k + (l - k) = l
  OBVIOUS
<1>2. Power(2, l) = Power(2, k) * Power(2, l - k)
  BY <1>1, TwoAdds
<1>3. Power(2, k) \in Nat /\ Power(2, l - k) \in Nat /\ Power(2, l - k) >= 1
  BY <1>1, TwoPositive
<1>4. \A x, y \in Nat : y >= 1 => x <= x * y
  OBVIOUS
<1> QED BY <1>2, <1>3, <1>4

\* A decimal place takes less than four bits.
LEMMA TenBelow ==
  ASSUME NEW k \in Nat
  PROVE  Power(10, k) \in Nat /\ 1 <= Power(10, k) /\ Power(10, k) <= Power(2, 4 * k)
<1> DEFINE T == {i \in Nat : ~(1 <= Power(10, i) /\ Power(10, i) <= Power(2, 4 * i))}
<1>1. T = {}
  <2> SUFFICES ASSUME T # {} PROVE FALSE
    OBVIOUS
  <2>1. PICK m \in T : \A i \in T : m <= i
    <3>1. T \in SUBSET Nat
      OBVIOUS
    <3> QED BY <3>1, LeastNatural
  <2>2. m # 0
    <3>1. 4 * 0 = 0 /\ Power(10, 0) = 1 /\ Power(2, 0) = 1
      BY PowerSteps
    <3>2. Power(10, 0) <= Power(2, 4 * 0)
      BY <3>1
    <3> QED BY <2>1, <3>1, <3>2
  <2>3. m \in Nat /\ m - 1 \in Nat /\ (m - 1) + 1 = m
    BY <2>1, <2>2
  <2>4. 1 <= Power(10, m - 1) /\ Power(10, m - 1) <= Power(2, 4 * (m - 1))
    BY <2>1, <2>3
  <2>5. Power(10, m) = 10 * Power(10, m - 1) /\ Power(10, m - 1) \in Nat
    BY <2>3, PowerSteps
  <2>6. Power(2, 4 * m) = Power(2, 4 * (m - 1)) * 16
    <3>1. 4 * (m - 1) \in Nat /\ 4 * m = 4 * (m - 1) + 4
      BY <2>3
    <3>2. Power(2, 4) = 16
      BY PowerSteps, 0 + 1 = 1, 1 + 1 = 2, 2 + 1 = 3, 3 + 1 = 4
    <3> QED BY <3>1, <3>2, TwoAdds
  <2>7. Power(2, 4 * (m - 1)) \in Nat
    <3>1. 4 * (m - 1) \in Nat
      BY <2>3
    <3> QED BY <3>1, PowerSteps
  <2> QED BY <2>1, <2>4, <2>5, <2>6, <2>7
<1> QED BY <1>1, PowerSteps

\* Rounding changes a fraction by half at most, and whole numbers not at all.
LEMMA NearestIsNear ==
  ASSUME NEW num \in Nat, NEW den \in Nat, den >= 1
  PROVE  /\ Nearest(num, den) \in Nat
         /\ 2 * num - den <= 2 * (Nearest(num, den) * den)
         /\ 2 * (Nearest(num, den) * den) <= 2 * num + den
<1> DEFINE low == num \div den
           rest == num % den
<1>1. low \in Nat /\ rest \in Nat /\ rest < den /\ num = den * low + rest
  OBVIOUS
<1>2. Nearest(num, den) = IF 2 * rest > den \/ (2 * rest = den /\ low % 2 = 1) THEN low + 1 ELSE low
  BY DEF Nearest
<1> HIDE DEF low, rest
<1>3. (low + 1) * den = low * den + den /\ low * den = den * low /\ low * den \in Nat
  BY <1>1
<1> QED BY <1>1, <1>2, <1>3

LEMMA NearestIsExact ==
  ASSUME NEW q \in Nat, NEW den \in Nat, den >= 1
  PROVE  Nearest(q * den, den) = q
<1>1. (q * den) \div den = q /\ (q * den) % den = 0
  OBVIOUS
<1> QED BY <1>1 DEF Nearest

\* There is a shift, when there is one that is not too small.
LEMMA ShiftFits ==
  ASSUME NEW bits \in Nat, bits >= 1, NEW num \in Nat, NEW den \in Nat, den >= 1,
         num < Power(2, bits) * den,
         NEW k \in 0..(2 * bits + 4 * Digits), Power(2, bits - 1) * den <= num * Power(2, k)
  PROVE  LET e == Shift(num, den, bits)
         IN  /\ e \in Nat
             /\ Power(2, bits - 1) * den <= num * Power(2, e)
             /\ num * Power(2, e) < Power(2, bits) * den
<1>1. Digits \in Nat /\ 2 * bits + 4 * Digits \in Nat
  BY UnitsAssumption
<1> DEFINE T == {i \in Nat : Power(2, bits - 1) * den <= num * Power(2, i)}
<1>2. k \in T
  BY <1>1
<1>3. PICK e \in T : \A i \in T : e <= i
  <2>1. T \in SUBSET Nat /\ T # {}
    BY <1>2
  <2> HIDE DEF T
  <2> QED BY <2>1, LeastNatural
<1>4. e \in 0..(2 * bits + 4 * Digits)
  BY <1>1, <1>2, <1>3
<1>5. num * Power(2, e) < Power(2, bits) * den
  <2>1. CASE e = 0
    <3>1. num * Power(2, e) = num
      BY <2>1, PowerSteps
    <3> QED BY <3>1
  <2>2. CASE e # 0
    <3>1. e - 1 \in Nat /\ (e - 1) + 1 = e /\ e - 1 \notin T
      BY <1>3, <2>2
    <3>2. Power(2, e) = 2 * Power(2, e - 1) /\ Power(2, e - 1) \in Nat
      BY <3>1, PowerSteps
    <3>3. bits - 1 \in Nat /\ (bits - 1) + 1 = bits
      OBVIOUS
    <3>4. Power(2, bits) = 2 * Power(2, bits - 1) /\ Power(2, bits - 1) \in Nat
      BY <3>3, PowerSteps
    <3>5. num * Power(2, e - 1) < Power(2, bits - 1) * den
      <4>1. ~(Power(2, bits - 1) * den <= num * Power(2, e - 1))
        BY <3>1
      <4>2. Power(2, bits - 1) * den \in Nat /\ num * Power(2, e - 1) \in Nat
        BY <3>2, <3>4
      <4> QED BY <4>1, <4>2
    <3>6. \A x, y \in Nat : x * (2 * y) = 2 * (x * y) /\ (2 * x) * y = 2 * (x * y)
      OBVIOUS
    <3>7. num * Power(2, e) = 2 * (num * Power(2, e - 1))
      BY <3>2, <3>6
    <3>8. Power(2, bits) * den = 2 * (Power(2, bits - 1) * den)
      BY <3>4, <3>6
    <3>9. Power(2, bits - 1) * den \in Nat /\ num * Power(2, e - 1) \in Nat
      BY <3>2, <3>4
    <3> QED BY <3>5, <3>7, <3>8, <3>9
  <2> QED BY <2>1, <2>2
<1>6. \E i \in 0..(2 * bits + 4 * Digits) :
        /\ Power(2, bits - 1) * den <= num * Power(2, i)
        /\ num * Power(2, i) < Power(2, bits) * den
  BY <1>3, <1>4, <1>5
<1>7. Shift(num, den, bits) \in 0..(2 * bits + 4 * Digits)
      /\ Power(2, bits - 1) * den <= num * Power(2, Shift(num, den, bits))
      /\ num * Power(2, Shift(num, den, bits)) < Power(2, bits) * den
  BY <1>6 DEF Shift
<1> QED BY <1>1, <1>7

\* Two roundings: within one of n, and one above only where nothing was rounded.
LEMMA RoundedTwice ==
  ASSUME NEW n \in Nat, n >= 1, NEW S \in Nat, S >= 1, NEW D \in Nat, D >= 1, D <= S,
         NEW F \in Nat, F >= 1, NEW p \in Nat, NEW m \in Nat,
         2 * (n * S) - D <= 2 * p, 2 * p <= 2 * (n * S) + D,
         2 * (p * F) - S <= 2 * (m * S), 2 * (m * S) <= 2 * (p * F) + S
  PROVE  /\ (n - 1) * F <= m
         /\ m <= (n + 1) * F
         /\ m = (n + 1) * F => F = 1 /\ D = S
<1> DEFINE nSF == (n * S) * F
           DF == D * F
           SF == S * F
           pF == p * F
<1>1. nSF \in Nat /\ DF \in Nat /\ SF \in Nat /\ pF \in Nat /\ n * S \in Nat /\ m * S \in Nat
  OBVIOUS
<1>2. DF <= SF /\ S <= SF
  OBVIOUS
<1>3. 2 * nSF - DF <= 2 * pF /\ 2 * pF <= 2 * nSF + DF
  <2>1. \A x, y \in Int : x <= y => x * F <= y * F
    OBVIOUS
  <2>2. (2 * (n * S) - D) * F = 2 * nSF - DF /\ (2 * (n * S) + D) * F = 2 * nSF + DF /\ (2 * p) * F = 2 * pF
    OBVIOUS
  <2>3. 2 * (n * S) - D \in Int /\ 2 * (n * S) + D \in Int /\ 2 * p \in Int
    BY <1>1
  <2> QED BY <2>1, <2>2, <2>3
<1>4. /\ ((n - 1) * F) * S = nSF - SF
      /\ ((n + 1) * F) * S = nSF + SF
  OBVIOUS
<1>5. nSF - SF <= m * S /\ m * S <= nSF + SF
  <2> HIDE DEF nSF, DF, SF, pF
  <2> SUFFICES ASSUME NEW z \in Nat, z = m * S, NEW q \in Nat, q = p * F,
                      2 * q - S <= 2 * z, 2 * z <= 2 * q + S
               PROVE  nSF - SF <= z /\ z <= nSF + SF
    BY <1>1 DEF pF
  <2>1. q = pF
    BY DEF pF
  <2> QED BY <1>1, <1>2, <1>3, <2>1
<1>6. ASSUME NEW x \in Int, NEW y \in Int, x * S <= y * S
      PROVE  x <= y
  BY <1>6
<1>7. (n - 1) * F \in Int /\ (n + 1) * F \in Int
  OBVIOUS
<1>8. (n - 1) * F <= m /\ m <= (n + 1) * F
  <2> HIDE DEF nSF, SF
  <2>1. ((n - 1) * F) * S <= m * S /\ m * S <= ((n + 1) * F) * S
    BY <1>1, <1>4, <1>5
  <2> QED BY <1>6, <1>7, <2>1
<1>9. ASSUME m = (n + 1) * F PROVE F = 1 /\ D = S
  <2>1. m * S = nSF + SF
    BY <1>4, <1>9
  <2>2. SF <= S /\ SF + SF <= DF + S
    <3> HIDE DEF nSF, DF, SF, pF
    <3>1. 2 * (m * S) <= 2 * pF + S
      BY DEF pF
    <3> QED BY <1>1, <1>2, <1>3, <2>1, <3>1
  <2>3. F = 1
    <3>1. S * F <= S * 1
      BY <2>2
    <3>2. \A x \in Nat : x >= 2 => S * x >= S + S
      OBVIOUS
    <3>3. ~(F >= 2)
      BY <3>1, <3>2
    <3> QED BY <3>3
  <2>4. DF = D /\ SF = S
    BY <2>3
  <2> QED BY <2>2, <2>3, <2>4
<1> QED BY <1>8, <1>9

\* What is cut off.
LEMMA CutOff ==
  ASSUME NEW n \in Nat, n >= 1, NEW F \in Nat, F >= 1, NEW m \in Nat,
         (n - 1) * F <= m, m < (n + 1) * F
  PROVE  m \div F \in {n, n - 1}
<1> DEFINE q == m \div F
           rest == m % F
<1>1. q \in Nat /\ rest \in Nat /\ rest < F /\ m = F * q + rest
  OBVIOUS
<1> HIDE DEF q, rest
<1>2. q < n + 1
  <2>1. F * q < F * (n + 1)
    BY <1>1
  <2>2. ASSUME NEW x \in Nat, NEW y \in Nat, F * x < F * y PROVE x < y
    BY <2>2
  <2> QED BY <1>1, <2>1, <2>2
<1>3. n - 1 < q + 1
  <2>1. F * (n - 1) < F * (q + 1)
    BY <1>1
  <2>2. ASSUME NEW x \in Nat, NEW y \in Nat, F * x < F * y PROVE x < y
    BY <2>2
  <2>3. n - 1 \in Nat /\ q + 1 \in Nat
    BY <1>1
  <2> QED BY <2>1, <2>2, <2>3
<1> QED BY <1>1, <1>2, <1>3 DEF q

\* What is parsed and multiplied out.
LEMMA ConvertedKeeps ==
  ASSUME NEW bits \in Nat, bits >= 1, NEW n \in Nat, n >= 1, n <= Power(2, bits - 1)
  PROVE  Converted(n, bits) \in {n, n - 1}
<1> DEFINE D == Power(10, Digits)
           H == Power(2, bits - 1)
           W == Power(2, bits)
           e == Shift(n, D, bits)
           S == Power(2, e)
           p == Nearest(n * S, D)
           f == Shift(p * D, S, bits)
           F == Power(2, f)
           m == Nearest((p * D) * F, S)
<1>1. /\ Digits \in Nat /\ D \in Nat /\ D >= 1 /\ D <= Power(2, 4 * Digits)
      /\ H \in Nat /\ H >= 1 /\ W = 2 * H
  <2>1. Digits \in Nat
    BY UnitsAssumption
  <2>2. bits - 1 \in Nat /\ (bits - 1) + 1 = bits
    OBVIOUS
  <2> QED BY <2>1, <2>2, TenBelow, TwoPositive, PowerSteps
<1>2. e \in Nat /\ H * D <= n * S /\ n * S < W * D
  <2> DEFINE k == (bits - 1) + 4 * Digits
             X == Power(2, 4 * Digits)
  <2>1. k \in 0..(2 * bits + 4 * Digits) /\ bits - 1 \in Nat /\ 4 * Digits \in Nat
    BY <1>1
  <2>2. Power(2, k) = H * X /\ X \in Nat
    BY <2>1, TwoAdds, TwoPositive
  <2>3. \A h, d, x, a \in Nat : d <= x /\ a >= 1 => h * d <= a * (h * x)
    <3>1. \A h, d, x \in Nat : d <= x => h * d <= h * x
      OBVIOUS
    <3>2. \A y, a \in Nat : a >= 1 => y <= a * y
      OBVIOUS
    <3>3. \A h, d \in Nat : h * d \in Nat
      OBVIOUS
    <3> TAKE h, d, x, a \in Nat
    <3> HAVE d <= x /\ a >= 1
    <3>4. h * d <= h * x /\ h * x <= a * (h * x) /\ h * d \in Nat /\ h * x \in Nat
      BY <3>1, <3>2, <3>3
    <3>5. a * (h * x) \in Nat
      BY <3>3, <3>4
    <3> QED BY <3>4, <3>5
  <2>4. H * D <= n * Power(2, k)
    <3> HIDE DEF k, X, H, D
    <3> QED BY <1>1, <2>2, <2>3 DEF X
  <2>5. n < W * D
    <3> HIDE DEF H, D, W
    <3>1. \A h, d \in Nat : h >= 1 /\ d >= 1 => h < (2 * h) * d
      OBVIOUS
    <3>2. H < W * D
      BY <1>1, <3>1
    <3>3. W * D \in Nat /\ n <= H
      BY <1>1 DEF H
    <3> QED BY <1>1, <3>2, <3>3
  <2> HIDE DEF D, k
  <2> QED BY <1>1, <2>1, <2>4, <2>5, ShiftFits
<1>3. S \in Nat /\ S >= 1 /\ n * S \in Nat
  <2> HIDE DEF e
  <2> QED BY <1>2, TwoPositive
<1>4. D <= S
  <2> HIDE DEF D, S, H
  <2>1. n <= H
    BY DEF H
  <2>2. n * S <= H * S /\ H * D \in Nat /\ H * S \in Nat
    BY <1>1, <1>3, <2>1
  <2>3. H * D <= H * S
    BY <1>2, <1>3, <2>2
  <2>4. ASSUME NEW x \in Nat, NEW y \in Nat, H * x <= H * y PROVE x <= y
    BY <1>1, <2>4
  <2> QED BY <1>1, <1>3, <2>3, <2>4
<1>5. p \in Nat /\ 2 * (n * S) - D <= 2 * (p * D) /\ 2 * (p * D) <= 2 * (n * S) + D
  <2> HIDE DEF D, S
  <2> QED BY <1>1, <1>3, NearestIsNear
<1>6. p * D \in Nat
  <2> HIDE DEF p, D
  <2> QED BY <1>1, <1>5
<1>7. S <= n * S /\ n * S <= H * S /\ H * S \in Nat /\ S <= H * S
  <2> HIDE DEF S, H
  <2>1. n <= H
    BY DEF H
  <2> QED BY <1>1, <1>3, <2>1
<1>8. p * D < W * S
  <2> HIDE DEF p, D, S, H, W
  <2>1. W * S = 2 * (H * S)
    BY <1>1, <1>3
  <2> QED BY <1>1, <1>3, <1>4, <1>5, <1>6, <1>7, <2>1
<1>9. H * S <= (p * D) * W
  <2> HIDE DEF p, D, S, H, W
  <2>1. S <= 2 * (p * D)
    BY <1>1, <1>3, <1>4, <1>5, <1>6, <1>7
  <2>2. \A h, s, a \in Nat : s <= 2 * a => h * s <= a * (2 * h)
    <3>1. \A h, s, t \in Nat : s <= t => h * s <= h * t
      OBVIOUS
    <3>2. \A h, a \in Nat : h * (2 * a) = a * (2 * h) /\ 2 * a \in Nat
      OBVIOUS
    <3> TAKE h, s, a \in Nat
    <3> HAVE s <= 2 * a
    <3> QED BY <3>1, <3>2
  <2> QED BY <1>1, <1>3, <1>6, <2>1, <2>2
<1>10. f \in Nat
  <2>1. bits \in 0..(2 * bits + 4 * Digits)
    BY <1>1
  <2> HIDE DEF p, D, S
  <2> QED BY <1>3, <1>6, <1>8, <1>9, <2>1, ShiftFits
<1>11. F \in Nat /\ F >= 1
  <2> HIDE DEF f
  <2> QED BY <1>10, TwoPositive
<1>12. m \in Nat /\ 2 * ((p * D) * F) - S <= 2 * (m * S) /\ 2 * (m * S) <= 2 * ((p * D) * F) + S
  <2>1. (p * D) * F \in Nat
    <3> HIDE DEF p, D, F
    <3> QED BY <1>6, <1>11
  <2> HIDE DEF p, D, F, S
  <2> QED BY <1>3, <2>1, NearestIsNear
<1>13. /\ (n - 1) * F <= m
       /\ m <= (n + 1) * F
       /\ m = (n + 1) * F => F = 1 /\ D = S
  <2> HIDE DEF p, D, F, S, m
  <2> QED BY <1>1, <1>3, <1>4, <1>5, <1>6, <1>11, <1>12, RoundedTwice
<1>14. ASSUME F = 1, D = S PROVE m = n
  <2>1. p = n
    <3> HIDE DEF D, S
    <3> QED BY <1>1, <1>3, <1>14, NearestIsExact
  <2>2. (p * D) * F = n * S
    <3> HIDE DEF D, S, F, p
    <3> QED BY <1>3, <1>14, <2>1
  <2> HIDE DEF D, S, F, p
  <2> QED BY <1>3, <2>2, NearestIsExact
<1>15. m < (n + 1) * F
  <2> HIDE DEF D, S, F, m
  <2>1. (n + 1) * F \in Nat /\ (F = 1 => (n + 1) * F = n + 1)
    BY <1>11
  <2>2. m # (n + 1) * F
    BY <1>13, <1>14, <2>1
  <2> QED BY <1>12, <1>13, <2>1, <2>2
<1>16. m \div F \in {n, n - 1}
  <2> HIDE DEF F, m
  <2> QED BY <1>11, <1>12, <1>13, <1>15, CutOff
<1>17. Converted(n, bits) = m \div F
  BY DEF Converted, Float
<1> HIDE DEF m, F
<1> QED BY <1>16, <1>17

\* EtherToWei keeps every amount the mantissa holds with a bit to spare, but for
\* the last Wei, whatever the decimals of the currency and the bits of the mantissa.
THEOREM ConversionKeeps == ConversionsKeep
<1> SUFFICES ASSUME NEW n \in 0..Power(2, Precision - 1)
             PROVE  EtherToWei(n) \in {n, n - 1}
  BY DEF ConversionsKeep
<1>1. Precision \in Nat /\ Precision >= 1 /\ Precision - 1 \in Nat
  BY UnitsAssumption
<1>2. n \in Nat /\ n <= Power(2, Precision - 1)
  BY <1>1, TwoPositive
<1>3. CASE n = 0
  BY <1>3 DEF EtherToWei
<1>4. CASE n # 0
  BY <1>1, <1>2, <1>4, ConvertedKeeps DEF EtherToWei
<1> QED BY <1>3, <1>4

-----------------------------------------------------------------------------
(* What is signed and sent. *)

Label == {"idle", "store", "rehash", "create", "wait", "send"}

State == {"none", "running", "completed", "failed"}

\* The request is past the point where it has its transaction and its signing id.
Busy(r) == pc[r] \in {"rehash", "create", "wait", "send"}

\* The map has each transaction under its own nonce.
StoreOK == /\ store \in [Nonce -> asked \cup {NoTx}]
           /\ \A n \in Nonce : store[n] # NoTx => store[n].nonce = n

RequestsOK ==
  /\ pc \in [Request -> Label] /\ id \in [Request -> SigningId] /\ DOMAIN tx = Request
  /\ tx = [r \in Request |-> tx[r]]
  /\ \A r \in Request :
       /\ pc[r] = "store" => tx[r] \in Transaction
       /\ Busy(r) => tx[r] \in asked /\ tx[r].nonce = id[r][2]

\* A running session belongs to one request.
SessionsOK ==
  /\ signing \in [SigningId -> State]
  /\ \A r \in Request : pc[r] = "wait" => signing[id[r]] = "running"
  /\ \A r, q \in Request : pc[r] = "wait" /\ pc[q] = "wait" /\ id[r] = id[q] => r = q

\* A session that has led to a signed transaction is over, and has led to one.
SignedOK ==
  /\ \A s \in signed : s.id \in SigningId /\ signing[s.id] = "completed" /\ s.tx.nonce = s.id[2]
  /\ \A s, t \in signed : s.id = t.id => s = t

Inv == /\ asked \subseteq Transaction
       /\ StoreOK /\ RequestsOK /\ SessionsOK /\ SignedOK /\ SignedAsAsked

\* Requests that hold no id have the first one.
LEMMA FirstId == <<"ethsign", 0>> \in SigningId
<1>1. MaxNonce \in Nat
  BY EthereumAssumption
<1> QED BY <1>1 DEF SigningId, Nonce

\* The initial state satisfies the invariant.
LEMMA InitInv == Init => Inv
BY FirstId
   DEF Init, Inv, StoreOK, RequestsOK, SessionsOK, SignedOK, SignedAsAsked, Busy, Label, State

\* An id is known by its route and its nonce.
LEMMA IdIsPair ==
  ASSUME NEW i \in SigningId, NEW j \in SigningId, i[1] = j[1], i[2] = j[2]
  PROVE  i = j
BY DEF SigningId

\* What is built within the bounds is a transaction.
LEMMA BuiltIsTransaction ==
  ASSUME NEW ask \in Ask, NEW n, Askable(BuildUnsignedTransaction(ask, n))
  PROVE  /\ BuildUnsignedTransaction(ask, n) \in Transaction /\ n \in Nonce
         /\ BuildUnsignedTransaction(ask, n).nonce = n /\ BuildUnsignedTransaction(ask, n).account = ask[1]
BY EthereumAssumption DEF Askable, BuildUnsignedTransaction, Transaction, Amount

\* An answer leaves nothing of the request, and the others as they are.
LEMMA AnswerKeeps ==
  ASSUME RequestsOK, NEW r \in Request, Answer(r)
  PROVE  /\ pc' \in [Request -> Label] /\ id' \in [Request -> SigningId]
         /\ DOMAIN tx' = Request /\ tx' = [q \in Request |-> tx'[q]]
         /\ pc'[r] = "idle"
         /\ \A q \in Request \ {r} : pc'[q] = pc[q] /\ id'[q] = id[q] /\ tx'[q] = tx[q]
BY FirstId DEF RequestsOK, Answer, Goto, Label

\* A step of one request that leaves the others, and what is known of transactions.
LEMMA OneRequest ==
  ASSUME RequestsOK, NEW r \in Request,
         pc' \in [Request -> Label], id' \in [Request -> SigningId],
         DOMAIN tx' = Request, tx' = [q \in Request |-> tx'[q]],
         \A q \in Request \ {r} : pc'[q] = pc[q] /\ id'[q] = id[q] /\ tx'[q] = tx[q],
         asked \subseteq asked',
         pc'[r] = "store" => tx'[r] \in Transaction,
         Busy(r)' => tx'[r] \in asked' /\ tx'[r].nonce = id'[r][2]
  PROVE  RequestsOK'
<1>1. ASSUME NEW q \in Request
      PROVE  /\ pc'[q] = "store" => tx'[q] \in Transaction
             /\ Busy(q)' => tx'[q] \in asked' /\ tx'[q].nonce = id'[q][2]
  <2>1. CASE q = r
    BY <2>1
  <2>2. CASE q # r
    BY <2>2 DEF RequestsOK, Busy
  <2> QED BY <2>1, <2>2
<1> QED BY <1>1 DEF RequestsOK

\* Every action keeps the invariant.
LEMMA NextInv == Inv /\ [Next]_vars => Inv'
<1> SUFFICES ASSUME Inv, [Next]_vars PROVE Inv'
  OBVIOUS
<1> USE DEF Inv, Label, State
<1>1. ASSUME NEW r \in Request, BuildTransaction(r) PROVE Inv'
  <2>1. PICK ask \in Ask, n \in Pending :
           /\ Askable(BuildUnsignedTransaction(ask, n))
           /\ tx' = [tx EXCEPT ![r] = BuildUnsignedTransaction(ask, n)]
    BY <1>1 DEF BuildTransaction
  <2>2. tx'[r] \in Transaction
    BY <2>1, BuiltIsTransaction DEF RequestsOK
  <2>3. RequestsOK'
    <3>1. /\ tx' = [tx EXCEPT ![r] = tx'[r]] /\ pc' = [pc EXCEPT ![r] = "store"]
          /\ UNCHANGED <<id, asked, signed>>
      BY <1>1, <2>1 DEF BuildTransaction, RequestsOK, Goto
    <3> QED BY <2>2, <3>1 DEF RequestsOK, Busy
  <2>4. SessionsOK'
    BY <1>1 DEF BuildTransaction, RequestsOK, SessionsOK, Goto
  <2> QED BY <1>1, <2>3, <2>4 DEF BuildTransaction, StoreOK, SignedOK, SignedAsAsked
<1>2. ASSUME NEW r \in Request, StoreTransaction(r) PROVE Inv'
  <2>1. tx[r] \in Transaction /\ tx[r].nonce \in Nonce
    BY <1>2 DEF StoreTransaction, RequestsOK, Transaction
  <2>2. StoreOK' /\ asked' \subseteq Transaction
    BY <1>2, <2>1 DEF StoreTransaction, StoreOK
  <2>3. RequestsOK' /\ SessionsOK'
    BY <1>2, AnswerKeeps DEF StoreTransaction, RequestsOK, SessionsOK, Busy
  <2> QED BY <1>2, <2>2, <2>3 DEF StoreTransaction, SignedOK, SignedAsAsked
<1>3. ASSUME NEW r \in Request, SignTransaction(r) PROVE Inv'
  <2>1. PICK n \in Nonce : /\ store[n] # NoTx
                           /\ tx' = [tx EXCEPT ![r] = store[n]]
                           /\ id' = [id EXCEPT ![r] = <<"ethsign", n>>]
    BY <1>3 DEF SignTransaction
  <2>2. store[n] \in asked /\ store[n].nonce = n /\ <<"ethsign", n>> \in SigningId
    BY <2>1 DEF StoreOK, SigningId
  <2>3. RequestsOK'
    <3>1. /\ pc' = [pc EXCEPT ![r] = "rehash"] /\ asked' = asked /\ signed' = signed
          /\ pc \in [Request -> Label] /\ id \in [Request -> SigningId]
          /\ DOMAIN tx = Request /\ tx = [q \in Request |-> tx[q]]
      BY <1>3 DEF SignTransaction, RequestsOK, Goto
    <3>2. /\ pc'[r] = "rehash" /\ tx'[r] = store[n] /\ id'[r] = <<"ethsign", n>>
          /\ DOMAIN tx' = Request /\ tx' = [q \in Request |-> tx'[q]]
          /\ pc' \in [Request -> Label] /\ id' \in [Request -> SigningId]
      BY <2>1, <2>2, <3>1
    <3> QED BY <2>1, <2>2, <3>1, <3>2, OneRequest DEF Busy
  <2>4. SessionsOK'
    BY <1>3, <2>1 DEF SignTransaction, RequestsOK, SessionsOK, Goto
  <2> QED BY <1>3, <2>3, <2>4 DEF SignTransaction, StoreOK, SignedOK, SignedAsAsked
<1>4. ASSUME NEW r \in Request, Rehash(r) PROVE Inv'
  <2>1. CASE Answer(r)
    <3>1. RequestsOK'
      BY <1>4, <2>1, AnswerKeeps DEF Rehash, RequestsOK, Busy
    <3>2. SessionsOK'
      BY <1>4, <2>1, AnswerKeeps DEF Rehash, SessionsOK
    <3> QED BY <1>4, <3>1, <3>2 DEF Rehash, StoreOK, SignedOK, SignedAsAsked
  <2>2. CASE Goto(r, "create") /\ UNCHANGED <<id, tx>>
    <3>1. RequestsOK'
      BY <1>4, <2>2 DEF Rehash, Goto, RequestsOK, Busy
    <3>2. SessionsOK'
      BY <1>4, <2>2 DEF Rehash, Goto, RequestsOK, SessionsOK
    <3> QED BY <1>4, <3>1, <3>2 DEF Rehash, StoreOK, SignedOK, SignedAsAsked
  <2> QED BY <1>4, <2>1, <2>2 DEF Rehash
<1>5. ASSUME NEW r \in Request, CreateSigning(r) PROVE Inv'
  <2>1. CASE Answer(r) /\ UNCHANGED signing
    BY <1>5, <2>1, AnswerKeeps DEF CreateSigning, RequestsOK, SessionsOK, Busy, StoreOK, SignedOK, SignedAsAsked
  <2>2. CASE /\ signing[id[r]] = "none"
             /\ signing' = [signing EXCEPT ![id[r]] = "running"]
             /\ Goto(r, "wait")
             /\ UNCHANGED <<id, tx, hash>>
    <3>1. RequestsOK'
      BY <1>5, <2>2 DEF CreateSigning, RequestsOK, Goto, Busy
    <3>2. SessionsOK'
      BY <1>5, <2>2 DEF CreateSigning, RequestsOK, SessionsOK, Goto
    <3>3. SignedOK'
      BY <1>5, <2>2 DEF CreateSigning, SessionsOK, SignedOK
    <3> QED BY <1>5, <3>1, <3>2, <3>3 DEF CreateSigning, StoreOK, SignedAsAsked
  <2> QED BY <1>5, <2>1, <2>2 DEF CreateSigning
<1>6. ASSUME NEW r \in Request, SigningEnds(r) PROVE Inv'
  <2>1. /\ id[r] \in SigningId /\ signing[id[r]] = "running"
        /\ tx[r] \in asked /\ tx[r].nonce = id[r][2]
        /\ \A s \in signed : s.id # id[r]
        /\ \A q \in Request \ {r} : pc[q] = "wait" => id[q] # id[r]
    BY <1>6 DEF SigningEnds, RequestsOK, SessionsOK, SignedOK, Busy
  <2>9. ASSUME NEW outcome \in {"completed", "failed"},
               signing' = [signing EXCEPT ![id[r]] = outcome],
               pc'[r] # "wait",
               \A q \in Request \ {r} : pc'[q] = pc[q] /\ id'[q] = id[q]
        PROVE  SessionsOK'
    <3>1. signing' \in [SigningId -> State]
      BY <2>9, <2>1 DEF SessionsOK
    <3>2. ASSUME NEW q \in Request, pc'[q] = "wait"
          PROVE  q # r /\ signing'[id'[q]] = "running"
      BY <2>9, <2>1, <3>2 DEF SessionsOK, RequestsOK
    <3>3. ASSUME NEW p \in Request, NEW q \in Request, pc'[p] = "wait", pc'[q] = "wait", id'[p] = id'[q]
          PROVE  p = q
      BY <2>9, <3>2, <3>3 DEF SessionsOK
    <3> QED BY <3>1, <3>2, <3>3 DEF SessionsOK
  <2>2. CASE Answer(r) /\ UNCHANGED signed
    <3>1. PICK outcome \in {"completed", "failed"} : signing' = [signing EXCEPT ![id[r]] = outcome]
      BY <1>6 DEF SigningEnds
    <3>2. RequestsOK'
      BY <1>6, <2>2, AnswerKeeps DEF SigningEnds, RequestsOK, Busy
    <3>3. SessionsOK'
      BY <2>2, <2>9, <3>1, AnswerKeeps
    <3>4. SignedOK'
      BY <2>1, <2>2, <3>1 DEF SignedOK, SessionsOK
    <3> QED BY <1>6, <2>2, <3>2, <3>3, <3>4 DEF SigningEnds, StoreOK, SignedAsAsked
  <2>3. CASE /\ Verifies(tx[r], hash[r])
             /\ signing' = [signing EXCEPT ![id[r]] = "completed"]
             /\ signed' = signed \cup {[id |-> id[r], tx |-> tx[r], by |-> hash[r]]}
             /\ \/ Goto(r, "send") /\ UNCHANGED <<id, tx, hash>>
                \/ Answer(r)
    <3>1. RequestsOK'
      <4>1. asked' = asked
        BY <1>6 DEF SigningEnds
      <4>2. CASE Answer(r)
        BY <4>1, <4>2, AnswerKeeps, OneRequest DEF Busy
      <4>3. CASE Goto(r, "send") /\ UNCHANGED <<id, tx, hash>>
        <5>1. /\ pc' \in [Request -> Label] /\ id' \in [Request -> SigningId] /\ pc'[r] = "send"
              /\ DOMAIN tx' = Request /\ tx' = [q \in Request |-> tx'[q]]
              /\ \A q \in Request \ {r} : pc'[q] = pc[q] /\ id'[q] = id[q] /\ tx'[q] = tx[q]
          BY <4>3 DEF RequestsOK, Goto
        <5> QED BY <2>1, <4>1, <4>3, <5>1, OneRequest
      <4> QED BY <2>3, <4>2, <4>3
    <3>2. /\ pc'[r] # "wait"
          /\ \A q \in Request \ {r} : pc'[q] = pc[q] /\ id'[q] = id[q]
      BY <2>3, AnswerKeeps DEF RequestsOK, Goto
    <3>5. SessionsOK'
      BY <2>3, <2>9, <3>2
    <3>3. SignedOK'
      BY <2>1, <2>3 DEF SignedOK, SessionsOK
    <3>4. SignedAsAsked'
      BY <1>6, <2>1, <2>3 DEF SigningEnds, SignedAsAsked, Verifies, Hash, WalletOf
    <3> QED BY <1>6, <3>1, <3>5, <3>3, <3>4 DEF SigningEnds, StoreOK
  <2> QED BY <1>6, <2>2, <2>3 DEF SigningEnds, ApplySignature
<1>7. ASSUME NEW r \in Request, QuickSend(r) PROVE Inv'
  <2>1. PICK ask \in Ask, n \in Pending :
           LET t == BuildUnsignedTransaction(ask, n)
           IN  /\ Askable(t)
               /\ tx' = [tx EXCEPT ![r] = t]
               /\ id' = [id EXCEPT ![r] = <<"quicksend", n>>]
               /\ asked' = asked \cup {t}
    BY <1>7 DEF QuickSend
  <2> DEFINE t == BuildUnsignedTransaction(ask, n)
  <2>2. t \in Transaction /\ t.nonce = n /\ <<"quicksend", n>> \in SigningId
    BY <2>1, BuiltIsTransaction DEF SigningId
  <2> HIDE DEF t
  <2>3. /\ tx' = [tx EXCEPT ![r] = t] /\ asked' = asked \cup {t}
        /\ id' = [id EXCEPT ![r] = <<"quicksend", n>>]
    BY <2>1 DEF t
  <2>4. RequestsOK'
    <3>1. /\ pc' = [pc EXCEPT ![r] = "create"] /\ signed' = signed
          /\ pc \in [Request -> Label] /\ id \in [Request -> SigningId]
          /\ DOMAIN tx = Request /\ tx = [q \in Request |-> tx[q]]
      BY <1>7 DEF QuickSend, RequestsOK, Goto
    <3>2. /\ pc'[r] = "create" /\ tx'[r] = t /\ id'[r] = <<"quicksend", n>>
          /\ DOMAIN tx' = Request /\ tx' = [q \in Request |-> tx'[q]]
          /\ pc' \in [Request -> Label] /\ id' \in [Request -> SigningId]
      BY <2>2, <2>3, <3>1
    <3> QED BY <2>2, <2>3, <3>1, <3>2, OneRequest DEF Busy
  <2>5. SessionsOK'
    BY <1>7, <2>3 DEF QuickSend, RequestsOK, SessionsOK, Goto
  <2>6. StoreOK' /\ asked' \subseteq Transaction
    BY <1>7, <2>2, <2>3 DEF QuickSend, StoreOK
  <2>7. SignedOK' /\ SignedAsAsked'
    BY <1>7, <2>3 DEF QuickSend, SignedOK, SignedAsAsked
  <2> QED BY <2>4, <2>5, <2>6, <2>7
<1>8. ASSUME NEW r \in Request, QuickBroadcast(r) PROVE Inv'
  BY <1>8, AnswerKeeps DEF QuickBroadcast, RequestsOK, SessionsOK, Busy, StoreOK, SignedOK, SignedAsAsked
<1>9. CASE UNCHANGED <<store, signing, requests, asked, signed>>
  BY <1>9 DEF requests, RequestsOK, SessionsOK, Busy, StoreOK, SignedOK, SignedAsAsked
<1>10. ASSUME NEW r \in Request, NEW q \in Request, MapRace(r, q) PROVE Inv'
  BY <1>9, <1>10 DEF MapRace
<1>11. CASE UNCHANGED vars
  BY <1>9, <1>11 DEF vars
<1> QED BY <1>1, <1>2, <1>3, <1>4, <1>5, <1>6, <1>7, <1>8, <1>10, <1>11 DEF Next

(***************************************************************************)
(* The theorems                                                            *)
(***************************************************************************)

\* The invariant: a stored transaction is one that was built, under its own nonce; a
\* running session has one request; a session that has signed is over.
THEOREM Invariance == Spec => []Inv
BY InitInv, NextInv, PTL DEF Spec

\* Neither sign-tx nor quick-send has a transaction that was not built, or that another
\* wallet or another hash has signed, whatever accounts share the server's map of nonces
\* and whatever nonces the network answers.
THEOREM SignsAsAsked == Spec => []SignedAsAsked
<1>1. Inv => SignedAsAsked
  BY DEF Inv
<1> QED BY <1>1, Invariance, PTL

\* Neither route signs two transactions of an account for one nonce: their ids would
\* be the same, and an id has one signature.
THEOREM SignsOncePerNonce == Spec => []SignedOncePerNonce
<1>1. Inv => SignedOncePerNonce
  <2> SUFFICES ASSUME Inv, NEW s \in signed, NEW t \in signed,
                      s.id[1] = t.id[1], s.tx.nonce = t.tx.nonce
               PROVE  s.tx = t.tx
    BY DEF SignedOncePerNonce
  <2>1. s.id = t.id
    BY IdIsPair DEF Inv, SignedOK
  <2> QED BY <2>1 DEF Inv, SignedOK
<1> QED BY <1>1, Invariance, PTL

(***************************************************************************)
(* The refinement                                                          *)
(***************************************************************************)

\* What was signed, under its id, and what a quick-send is about to hand over.
Given == {[id |-> s.id, tx |-> s.tx] : s \in signed}

Handed(r) == [id |-> id[r], tx |-> tx[r]]

\* What was handed over was signed; what is about to be is so too, and was not handed
\* over before, and nobody else is about to.
SentOK == /\ sent \subseteq Given
          /\ \A r \in Request : pc[r] = "send" => Handed(r) \in Given \ sent
          /\ \A r, q \in Request : pc[r] = "send" /\ pc[q] = "send" /\ id[r] = id[q] => r = q

\* An id that is about to be signed under is that of nothing given.
LEMMA EndsFresh ==
  ASSUME Inv, NEW r \in Request, SigningEnds(r)
  PROVE  /\ tx[r] \in Transaction /\ tx[r] \in asked /\ id[r] \in SigningId
         /\ \A s \in Given : s.id # id[r]
<1>1. tx[r] \in Transaction /\ tx[r] \in asked /\ id[r] \in SigningId
  BY DEF SigningEnds, Inv, RequestsOK, Busy
<1>2. \A s \in signed : s.id # id[r]
  BY DEF SigningEnds, Inv, SessionsOK, SignedOK
<1>3. \A s \in Given : s.id # id[r]
  BY <1>2 DEF Given
<1> QED BY <1>1, <1>3

\* A signature adds what the request hands over to what is given.
LEMMA SignatureGives ==
  ASSUME NEW r \in Request, signed' = signed \cup {[id |-> id[r], tx |-> tx[r], by |-> hash[r]]}
  PROVE  Given' = Given \cup {Handed(r)}
<1> DEFINE new == [id |-> id[r], tx |-> tx[r], by |-> hash[r]]
<1>1. new.id = id[r] /\ new.tx = tx[r] /\ signed' = signed \cup {new}
  OBVIOUS
<1> HIDE DEF new
<1> QED BY <1>1 DEF Given, Handed

\* Every action keeps what is known of what is handed over.
LEMMA SentInv == Inv /\ SentOK /\ [Next]_vars => SentOK'
<1> SUFFICES ASSUME Inv, SentOK, [Next]_vars PROVE SentOK'
  OBVIOUS
<1>0. pc \in [Request -> Label] /\ id \in [Request -> SigningId] /\ DOMAIN tx = Request
  BY DEF Inv, RequestsOK
<1>1. ASSUME UNCHANGED <<signed, sent>>,
             \A q \in Request : pc'[q] = "send" => pc[q] = "send" /\ id'[q] = id[q] /\ tx'[q] = tx[q]
      PROVE  SentOK'
  BY <1>1 DEF SentOK, Given, Handed
<1>2. ASSUME NEW r \in Request, UNCHANGED <<signed, sent>>, Answer(r)
      PROVE  SentOK'
  BY <1>1, <1>2, AnswerKeeps DEF Inv
<1>3. ASSUME NEW r \in Request, NEW label \in Label \ {"send"}, Goto(r, label), UNCHANGED <<signed, sent>>,
             \A q \in Request \ {r} : id'[q] = id[q] /\ tx'[q] = tx[q]
      PROVE  SentOK'
  BY <1>0, <1>1, <1>3 DEF Goto
<1>4. ASSUME NEW r \in Request, BuildTransaction(r) \/ SignTransaction(r) \/ QuickSend(r)
      PROVE  SentOK'
  <2>1. PICK label \in Label \ {"send"} : Goto(r, label)
    BY <1>4 DEF BuildTransaction, SignTransaction, QuickSend, Label
  <2>2. \A q \in Request \ {r} : id'[q] = id[q] /\ tx'[q] = tx[q]
    BY <1>0, <1>4 DEF BuildTransaction, SignTransaction, QuickSend
  <2>3. UNCHANGED <<signed, sent>>
    BY <1>4 DEF BuildTransaction, SignTransaction, QuickSend
  <2> QED BY <1>3, <2>1, <2>2, <2>3
<1>5. ASSUME NEW r \in Request, StoreTransaction(r) \/ Rehash(r) \/ CreateSigning(r)
      PROVE  SentOK'
  <2>1. UNCHANGED <<signed, sent>>
    BY <1>5 DEF StoreTransaction, Rehash, CreateSigning
  <2>2. \/ Answer(r)
        \/ (Goto(r, "create") \/ Goto(r, "wait")) /\ UNCHANGED <<id, tx>>
    BY <1>5 DEF StoreTransaction, Rehash, CreateSigning
  <2>3. CASE (Goto(r, "create") \/ Goto(r, "wait")) /\ UNCHANGED <<id, tx>>
    BY <1>3, <2>1, <2>3 DEF Label
  <2> QED BY <1>2, <2>1, <2>2, <2>3
<1>6. ASSUME NEW r \in Request, SigningEnds(r) PROVE SentOK'
  <2>1. sent' = sent
    BY <1>6 DEF SigningEnds
  <2>2. CASE Answer(r) /\ UNCHANGED signed
    BY <1>2, <2>1, <2>2
  <2>3. CASE /\ signed' = signed \cup {[id |-> id[r], tx |-> tx[r], by |-> hash[r]]}
             /\ \/ Goto(r, "send") /\ UNCHANGED <<id, tx>>
                \/ Answer(r)
    <3>1. Given' = Given \cup {Handed(r)} /\ \A s \in Given : s.id # id[r]
      BY <1>6, <2>3, EndsFresh, SignatureGives
    <3>2. Handed(r).id = id[r] /\ \A q \in Request : Handed(q).id = id[q]
      BY DEF Handed
    <3>3. Handed(r) \notin sent /\ \A q \in Request : pc[q] = "send" => id[q] # id[r]
      BY <3>1, <3>2 DEF SentOK
    <3>4. \A q \in Request \ {r} : pc'[q] = pc[q] /\ id'[q] = id[q] /\ tx'[q] = tx[q]
      BY <1>0, <2>3, AnswerKeeps DEF Goto, Inv
    <3>5. pc'[r] = "send" => id'[r] = id[r] /\ tx'[r] = tx[r]
      BY <1>0, <2>3, AnswerKeeps DEF Inv
    <3>6. ASSUME NEW q \in Request, pc'[q] = "send"
          PROVE  Handed(q)' = Handed(q) /\ (q = r \/ pc[q] = "send")
      BY <3>4, <3>5, <3>6 DEF Handed
    <3>7. sent' \subseteq Given'
      BY <2>1, <3>1 DEF SentOK
    <3>8. ASSUME NEW q \in Request, pc'[q] = "send" PROVE Handed(q)' \in Given' \ sent'
      BY <2>1, <3>1, <3>3, <3>6, <3>8 DEF SentOK
    <3>9. ASSUME NEW p \in Request, NEW q \in Request, pc'[p] = "send", pc'[q] = "send", id'[p] = id'[q]
          PROVE  p = q
      BY <3>3, <3>4, <3>5, <3>9 DEF SentOK
    <3> QED BY <3>7, <3>8, <3>9 DEF SentOK
  <2> QED BY <1>6, <2>2, <2>3 DEF SigningEnds, ApplySignature
<1>7. ASSUME NEW r \in Request, QuickBroadcast(r) PROVE SentOK'
  <2>1. /\ signed' = signed /\ sent' = sent \cup {Handed(r)} /\ Handed(r) \in Given
        /\ Given' = Given
    BY <1>7 DEF QuickBroadcast, Handed, SentOK, Given
  <2>2. /\ pc'[r] = "idle"
        /\ \A q \in Request \ {r} : pc'[q] = pc[q] /\ id'[q] = id[q] /\ tx'[q] = tx[q]
    BY <1>7, AnswerKeeps DEF QuickBroadcast, Inv
  <2>3. ASSUME NEW q \in Request, pc'[q] = "send"
        PROVE  /\ q # r /\ pc[q] = "send" /\ id'[q] = id[q]
               /\ Handed(q)' = Handed(q) /\ Handed(q) # Handed(r)
    <3>1. q # r /\ pc[q] = "send" /\ id'[q] = id[q] /\ Handed(q)' = Handed(q)
      BY <2>2, <2>3 DEF Handed
    <3>2. id[q] # id[r]
      BY <1>7, <3>1 DEF QuickBroadcast, SentOK
    <3> QED BY <3>1, <3>2 DEF Handed
  <2> QED BY <2>1, <2>3 DEF SentOK
<1>8. ASSUME UNCHANGED <<pc, id, tx, signed, sent>> PROVE SentOK'
  BY <1>1, <1>8
<1>9. ASSUME NEW r \in Request, NEW q \in Request, MapRace(r, q) PROVE SentOK'
  BY <1>8, <1>9 DEF MapRace, requests
<1>10. CASE UNCHANGED vars
  BY <1>8, <1>10 DEF vars, requests
<1> QED BY <1>4, <1>5, <1>6, <1>7, <1>9, <1>10 DEF Next

\* A step that keeps what Payments sees is a stutter of it.
LEMMA Stutters ==
  ASSUME UNCHANGED <<asked, signed, sent>>
  PROVE  UNCHANGED P!vars
BY DEF P!vars

\* Every step is one of Payments.
LEMMA NextRefines == Inv /\ SentOK /\ [Next]_vars => [P!Next]_(P!vars)
<1> SUFFICES ASSUME Inv, SentOK, [Next]_vars PROVE P!Next \/ UNCHANGED P!vars
  OBVIOUS
<1>1. ASSUME NEW r \in Request,
             \/ BuildTransaction(r) \/ SignTransaction(r) \/ Rehash(r)
             \/ CreateSigning(r) \/ \E q \in Request : MapRace(r, q)
      PROVE  UNCHANGED P!vars
  BY <1>1, Stutters DEF BuildTransaction, SignTransaction, Rehash, CreateSigning, MapRace
<1>2. ASSUME NEW t \in Transaction, asked' = asked \cup {t}, UNCHANGED <<signed, sent>>
      PROVE  P!Next
  BY <1>2 DEF P!Next, P!Build
<1>3. ASSUME NEW r \in Request, StoreTransaction(r) PROVE P!Next
  BY <1>2, <1>3 DEF StoreTransaction, Inv, RequestsOK
<1>4. ASSUME NEW r \in Request, QuickSend(r) PROVE P!Next
  BY <1>2, <1>4, BuiltIsTransaction DEF QuickSend
<1>5. ASSUME NEW r \in Request, SigningEnds(r) PROVE P!Next \/ UNCHANGED P!vars
  <2>1. CASE signed' = signed
    BY <1>5, <2>1, Stutters DEF SigningEnds
  <2>2. CASE signed' = signed \cup {[id |-> id[r], tx |-> tx[r], by |-> hash[r]]}
    <3>1. PICK t \in Transaction, i \in SigningId : t = tx[r] /\ i = id[r]
      BY <1>5, EndsFresh
    <3>2. /\ t \in asked /\ \A s \in Given : s.id # i
          /\ Given' = Given \cup {[id |-> i, tx |-> t]}
      BY <1>5, <2>2, <3>1, EndsFresh, SignatureGives DEF Handed
    <3>3. P!Sign(t, i)
      BY <1>5, <3>2 DEF SigningEnds, P!Sign, Given
    <3> QED BY <3>3 DEF P!Next
  <2> QED BY <1>5, <2>1, <2>2 DEF SigningEnds, ApplySignature
<1>6. ASSUME NEW r \in Request, QuickBroadcast(r) PROVE P!Next
  <2>1. Handed(r) \in Given \ sent /\ sent' = sent \cup {Handed(r)} /\ UNCHANGED <<asked, signed>>
    BY <1>6 DEF QuickBroadcast, SentOK, Handed
  <2>2. PICK s \in Given : s = Handed(r)
    BY <2>1
  <2>3. P!Send(s)
    BY <2>1, <2>2 DEF P!Send, Given
  <2> QED BY <2>2, <2>3 DEF P!Next, Given
<1>7. CASE UNCHANGED vars
  BY <1>7, Stutters DEF vars
<1> QED BY <1>1, <1>3, <1>4, <1>5, <1>6, <1>7 DEF Next

\* sign-tx and quick-send implement Payments, for any accounts, any number of requests
\* and any nonces the network answers: what is signed was asked for, under an id of
\* its own, and what quick-send hands to the network was signed, and goes there once.
THEOREM Refinement == Spec => ImplementsPayments
<1>1. Init => SentOK /\ P!Init
  BY DEF Init, SentOK, P!Init
<1> QED BY <1>1, InitInv, NextInv, SentInv, NextRefines, PTL DEF Spec, ImplementsPayments, P!Spec

(***************************************************************************)
(* Types                                                                   *)
(***************************************************************************)

\* What is hashed has its type, for the transaction asked for and for the one built anew.
LEMMA HashTypes ==
  ASSUME NEW t \in Transaction
  PROVE  /\ Hash(t) \in Digest /\ \A n \in Pending : Hash([t EXCEPT !.nonce = n]) \in Digest
         /\ WalletOf(t.account) \in Wallet
<1>1. MaxNonce \in Nat
  BY EthereumAssumption
<1>2. /\ t.account \in Account /\ t.nonce \in Pending /\ t.amount \in Amount
      /\ DOMAIN t = {"account", "nonce", "amount"}
  BY <1>1 DEF Transaction, Nonce, Pending
<1>3. ASSUME NEW n \in Pending
      PROVE  LET u == [t EXCEPT !.nonce = n]
             IN  u.account = t.account /\ u.amount = t.amount /\ u.nonce = n
  BY <1>2 DEF Transaction
<1> QED BY <1>2, <1>3 DEF Hash, Digest, Wallet

HashType == [digest : Digest \cup {NoTx}, wallet : Wallet \cup {NoTx}]

\* A request that is under way has its transaction.
UsesOK == \A r \in Request : pc[r] # "idle" => tx[r] # NoTx

TypeInv == Inv /\ SentOK /\ TypeOK

\* The initial state has its types.
LEMMA InitType == Init => TypeInv
<1> SUFFICES ASSUME Init PROVE TypeInv
  OBVIOUS
<1>1. Inv /\ SentOK
  BY InitInv DEF Init, SentOK
<1> QED BY <1>1, FirstId DEF TypeInv, Init, TypeOK, NothingToSign

\* An answer keeps the types of requests.
LEMMA AnswerType ==
  ASSUME TypeOK, NEW r \in Request, Answer(r)
  PROVE  /\ pc' \in [Request -> {"idle", "store", "rehash", "create", "wait", "send"}]
         /\ id' \in [Request -> SigningId] /\ tx' \in [Request -> Transaction \cup {NoTx}]
         /\ hash' \in [Request -> HashType] /\ UsesOK'
<1>1. NothingToSign \in HashType
  BY DEF NothingToSign, HashType
<1>2. /\ pc' = [pc EXCEPT ![r] = "idle"] /\ id' = [id EXCEPT ![r] = <<"ethsign", 0>>]
      /\ tx' = [tx EXCEPT ![r] = NoTx] /\ hash' = [hash EXCEPT ![r] = NothingToSign]
  BY DEF Answer, Goto
<1> QED BY <1>1, <1>2, FirstId DEF TypeOK, HashType, UsesOK

\* Every action keeps the types.
LEMMA NextType == TypeInv /\ [Next]_vars => TypeInv'
<1> SUFFICES ASSUME TypeInv, [Next]_vars PROVE TypeOK'
  BY NextInv, SentInv DEF TypeInv
<1>0. /\ Inv /\ SentOK /\ TypeOK /\ UsesOK /\ hash \in [Request -> HashType]
      /\ asked' \subseteq Transaction
  BY NextInv DEF TypeInv, TypeOK, UsesOK, HashType, Inv
<1>t. ASSUME /\ store' \in [Nonce -> Transaction \cup {NoTx}]
             /\ signing' \in [SigningId -> {"none", "running", "completed", "failed"}]
             /\ pc' \in [Request -> {"idle", "store", "rehash", "create", "wait", "send"}]
             /\ id' \in [Request -> SigningId] /\ tx' \in [Request -> Transaction \cup {NoTx}]
             /\ hash' \in [Request -> HashType] /\ UsesOK'
             /\ signed' \subseteq [id : SigningId, tx : Transaction, by : [digest : Digest, wallet : Wallet]]
             /\ down' \in BOOLEAN
      PROVE  TypeOK'
  <2>1. SentOK'
    BY NextInv, SentInv DEF TypeInv
  <2>2. sent' \subseteq [id : SigningId, tx : Transaction]
    BY <1>t, <2>1 DEF SentOK, Given
  <2> QED BY <1>0, <1>t, <2>2 DEF TypeOK, HashType, UsesOK
<1>1. ASSUME NEW r \in Request, BuildTransaction(r) PROVE TypeOK'
  <2>1. PICK ask \in Ask, n \in Pending :
           /\ Askable(BuildUnsignedTransaction(ask, n))
           /\ tx' = [tx EXCEPT ![r] = BuildUnsignedTransaction(ask, n)]
    BY <1>1 DEF BuildTransaction
  <2>2. BuildUnsignedTransaction(ask, n) \in Transaction
    BY <2>1, BuiltIsTransaction
  <2>3. tx' \in [Request -> Transaction \cup {NoTx}] /\ UsesOK'
    BY <1>0, <1>1, <2>1, <2>2, NoTxAssumption DEF BuildTransaction, TypeOK, UsesOK, Goto
  <2> QED BY <1>0, <1>1, <1>t, <2>3 DEF BuildTransaction, TypeOK, Goto
<1>2. ASSUME NEW r \in Request, StoreTransaction(r) PROVE TypeOK'
  <2>1. tx[r] \in Transaction /\ tx[r].nonce \in Nonce
    BY <1>0, <1>2 DEF StoreTransaction, Inv, RequestsOK, Transaction
  <2>2. store' \in [Nonce -> Transaction \cup {NoTx}]
    BY <1>0, <1>2, <2>1 DEF StoreTransaction, TypeOK
  <2> QED BY <1>0, <1>2, <1>t, <2>2, AnswerType DEF StoreTransaction, TypeOK
<1>3. ASSUME NEW r \in Request, SignTransaction(r) PROVE TypeOK'
  <2>1. PICK n \in Nonce, w \in Wallet : /\ store[n] # NoTx
                                         /\ tx' = [tx EXCEPT ![r] = store[n]]
                                         /\ id' = [id EXCEPT ![r] = <<"ethsign", n>>]
                                         /\ hash' = [hash EXCEPT ![r].wallet = w]
    BY <1>3 DEF SignTransaction
  <2>2. tx' \in [Request -> Transaction \cup {NoTx}] /\ id' \in [Request -> SigningId]
    BY <1>0, <2>1 DEF TypeOK, SigningId
  <2>3. hash' \in [Request -> HashType]
    BY <1>0, <2>1 DEF HashType
  <2>4. UsesOK' /\ pc' \in [Request -> {"idle", "store", "rehash", "create", "wait", "send"}]
    BY <1>0, <1>3, <2>1 DEF SignTransaction, TypeOK, UsesOK, Goto
  <2> QED BY <1>0, <1>3, <1>t, <2>2, <2>3, <2>4 DEF SignTransaction, TypeOK
<1>4. ASSUME NEW r \in Request, Rehash(r) PROVE TypeOK'
  <2>1. CASE Answer(r)
    BY <1>0, <1>4, <1>t, <2>1, AnswerType DEF Rehash, TypeOK
  <2>2. CASE /\ \E n \in Pending : hash' = [hash EXCEPT ![r].digest = Hash([tx[r] EXCEPT !.nonce = n])]
             /\ Goto(r, "create") /\ UNCHANGED <<id, tx>>
    <3>1. \A n \in Pending : Hash([tx[r] EXCEPT !.nonce = n]) \in Digest
      <4>1. tx[r] \in Transaction
        BY <1>0, <1>4 DEF Rehash, Inv, RequestsOK, Busy
      <4> QED BY <1>0, <4>1, HashTypes
    <3>2. hash' \in [Request -> HashType] /\ UsesOK'
      BY <1>0, <1>4, <2>2, <3>1 DEF Rehash, TypeOK, UsesOK, Goto, HashType
    <3> QED BY <1>0, <1>4, <1>t, <2>2, <3>2 DEF Rehash, TypeOK, Goto
  <2> QED BY <1>4, <2>1, <2>2 DEF Rehash
<1>5. ASSUME NEW r \in Request, CreateSigning(r) PROVE TypeOK'
  <2>1. CASE Answer(r) /\ UNCHANGED signing
    BY <1>0, <1>5, <1>t, <2>1, AnswerType DEF CreateSigning, TypeOK
  <2>2. CASE /\ signing' = [signing EXCEPT ![id[r]] = "running"]
             /\ Goto(r, "wait") /\ UNCHANGED <<id, tx, hash>>
    <3>1. UsesOK'
      BY <1>0, <1>5, <2>2 DEF CreateSigning, TypeOK, UsesOK, Goto
    <3> QED BY <1>0, <1>5, <1>t, <2>2, <3>1 DEF CreateSigning, TypeOK, Goto
  <2> QED BY <1>5, <2>1, <2>2 DEF CreateSigning
<1>6. ASSUME NEW r \in Request, SigningEnds(r) PROVE TypeOK'
  <2> DEFINE new == [id |-> id[r], tx |-> tx[r], by |-> hash[r]]
  <2>1. signing' \in [SigningId -> {"none", "running", "completed", "failed"}]
    BY <1>0, <1>6 DEF SigningEnds, TypeOK
  <2>2. /\ \/ signed' = signed
           \/ Verifies(tx[r], hash[r]) /\ signed' = signed \cup {new}
        /\ Answer(r) \/ (Goto(r, "send") /\ UNCHANGED <<id, tx, hash>>)
        /\ UNCHANGED <<store, asked, down>>
    BY <1>6 DEF SigningEnds, ApplySignature
  <2>3. Verifies(tx[r], hash[r]) =>
           new \in [id : SigningId, tx : Transaction, by : [digest : Digest, wallet : Wallet]]
    <3>1. tx[r] \in Transaction /\ id[r] \in SigningId
      BY <1>0, <1>6 DEF SigningEnds, Inv, RequestsOK, Busy
    <3>2. Hash(tx[r]) \in Digest /\ WalletOf(tx[r].account) \in Wallet /\ hash[r] \in HashType
      BY <1>0, <3>1, HashTypes
    <3>3. Verifies(tx[r], hash[r]) => hash[r] \in [digest : Digest, wallet : Wallet]
      BY <3>2 DEF Verifies, HashType
    <3> QED BY <3>1, <3>3
  <2> HIDE DEF new
  <2>4. signed' \subseteq [id : SigningId, tx : Transaction, by : [digest : Digest, wallet : Wallet]]
    BY <1>0, <2>2, <2>3 DEF TypeOK
  <2>5. CASE Answer(r)
    BY <1>0, <1>t, <2>1, <2>2, <2>4, <2>5, AnswerType DEF TypeOK
  <2>6. CASE Goto(r, "send") /\ UNCHANGED <<id, tx, hash>>
    <3>1. UsesOK' /\ pc' \in [Request -> {"idle", "store", "rehash", "create", "wait", "send"}]
      BY <1>0, <1>6, <2>6 DEF SigningEnds, TypeOK, UsesOK, Goto
    <3> QED BY <1>0, <1>t, <2>1, <2>2, <2>4, <2>6, <3>1 DEF TypeOK
  <2> QED BY <2>2, <2>5, <2>6
<1>7. ASSUME NEW r \in Request, QuickSend(r) PROVE TypeOK'
  <2>1. PICK ask \in Ask, n \in Pending :
           LET t == BuildUnsignedTransaction(ask, n)
           IN  /\ Askable(t)
               /\ tx' = [tx EXCEPT ![r] = t]
               /\ id' = [id EXCEPT ![r] = <<"quicksend", n>>]
               /\ hash' = [hash EXCEPT ![r] = [digest |-> Hash(t), wallet |-> WalletOf(ask[1])]]
    BY <1>7 DEF QuickSend
  <2> DEFINE t == BuildUnsignedTransaction(ask, n)
  <2>2. t \in Transaction /\ <<"quicksend", n>> \in SigningId /\ t.account = ask[1]
    BY <2>1, BuiltIsTransaction DEF SigningId
  <2> HIDE DEF t
  <2>3. /\ tx' = [tx EXCEPT ![r] = t] /\ id' = [id EXCEPT ![r] = <<"quicksend", n>>]
        /\ hash' = [hash EXCEPT ![r] = [digest |-> Hash(t), wallet |-> WalletOf(ask[1])]]
    BY <2>1 DEF t
  <2>4. Hash(t) \in Digest /\ WalletOf(ask[1]) \in Wallet
    BY <1>0, <2>2, HashTypes
  <2>5. tx' \in [Request -> Transaction \cup {NoTx}] /\ id' \in [Request -> SigningId]
    BY <1>0, <2>2, <2>3 DEF TypeOK
  <2>6. hash' \in [Request -> HashType]
    BY <1>0, <2>3, <2>4 DEF HashType
  <2>7. UsesOK' /\ pc' \in [Request -> {"idle", "store", "rehash", "create", "wait", "send"}]
    BY <1>0, <1>7, <2>2, <2>3, NoTxAssumption DEF QuickSend, TypeOK, UsesOK, Goto
  <2> QED BY <1>0, <1>7, <1>t, <2>5, <2>6, <2>7 DEF QuickSend, TypeOK
<1>8. ASSUME NEW r \in Request, QuickBroadcast(r) PROVE TypeOK'
  BY <1>0, <1>8, <1>t, AnswerType DEF QuickBroadcast, TypeOK
<1>9. ASSUME UNCHANGED <<store, signing, requests, asked, signed>>, down' \in BOOLEAN
      PROVE  TypeOK'
  <2>1. UsesOK'
    BY <1>0, <1>9 DEF UsesOK, requests
  <2> QED BY <1>0, <1>9, <1>t, <2>1 DEF TypeOK, requests
<1>10. ASSUME NEW r \in Request, NEW q \in Request, MapRace(r, q) PROVE TypeOK'
  BY <1>0, <1>9, <1>10 DEF MapRace
<1>11. CASE UNCHANGED vars
  BY <1>0, <1>9, <1>11 DEF vars, TypeOK
<1> QED BY <1>1, <1>2, <1>3, <1>4, <1>5, <1>6, <1>7, <1>8, <1>10, <1>11 DEF Next

\* Every variable keeps its type; a hash that is signed was computed from some nonce
\* the network may have answered.
THEOREM TypeCorrectness == Spec => []TypeOK
<1>1. Spec => []TypeInv
  BY InitType, NextType, PTL DEF Spec
<1> QED BY <1>1, PTL DEF TypeInv

-----------------------------------------------------------------------------
(* What is signed for. *)

\* What the conversion may be trusted with.
Converts == \A a \in Amount : a[1] = "ether" => a[2] \in -Power(2, Precision - 1)..Power(2, Precision - 1)

\* A valueWei is kept, and a valueEth but for its last Wei.
LEMMA WeiKeeps ==
  ASSUME Converts, NEW a \in Amount
  PROVE  /\ a[1] = "wei" => Wei[a] = a[2]
         /\ a[1] # "wei" => LastWei(a[2], Wei[a])
<1>1. a \in {"wei", "ether"} \X Int
  BY EthereumAssumption DEF Amount
<1>2. a[1] \in {"wei", "ether"} /\ a[2] \in Int
  BY <1>1
<1>3. Power(2, Precision - 1) \in Nat
  BY UnitsAssumption, TwoPositive
<1>4. \A n \in 0..Power(2, Precision - 1) : EtherToWei(n) = n \/ EtherToWei(n) = n - 1
  BY ConversionKeeps DEF ConversionsKeep
<1>5. EtherToWei(0) = 0
  BY DEF EtherToWei
<1>6. CASE a[1] = "wei"
  BY <1>6 DEF Wei
<1>7. CASE a[1] = "ether"
  <2> DEFINE n == a[2]
             k == IF n < 0 THEN -n ELSE n
  <2>1. n \in Int /\ n \in -Power(2, Precision - 1)..Power(2, Precision - 1)
    BY <1>2, <1>7 DEF Converts
  <2>2. Wei[a] = IF n < 0 THEN -EtherToWei(-n) ELSE EtherToWei(n)
    BY <1>7 DEF Wei
  <2> HIDE DEF n
  <2>3. k \in 0..Power(2, Precision - 1)
    BY <1>3, <2>1
  <2>4. EtherToWei(k) = k \/ EtherToWei(k) = k - 1
    BY <1>4, <2>3
  <2>5. n = 0 => EtherToWei(n) = 0
    BY <1>5
  <2>6. LastWei(n, Wei[a])
    <3>1. CASE n < 0
      <4>1. k = -n /\ Wei[a] = -EtherToWei(-n) /\ -n \in Int
        BY <2>1, <2>2, <3>1
      <4> QED BY <2>1, <2>4, <3>1, <4>1 DEF LastWei
    <3>2. CASE ~(n < 0)
      <4>1. k = n /\ Wei[a] = EtherToWei(n)
        BY <2>1, <2>2, <3>2
      <4> QED BY <2>1, <2>4, <2>5, <3>2, <4>1 DEF LastWei
    <3> QED BY <3>1, <3>2
  <2> QED BY <1>7, <2>6 DEF n
<1> QED BY <1>2, <1>6, <1>7

\* No negative amount is signed for: ApplySignature refuses it.
Positive == \A s \in signed : Wei[s.tx.amount] >= 0

LEMMA NextPositive == Positive /\ [Next]_vars => Positive'
<1> SUFFICES ASSUME Positive, [Next]_vars PROVE Positive'
  OBVIOUS
<1>1. CASE signed' = signed
  BY <1>1 DEF Positive
<1>2. ASSUME NEW r \in Request, SigningEnds(r) PROVE Positive'
  <2> DEFINE new == [id |-> id[r], tx |-> tx[r], by |-> hash[r]]
  <2>1. \/ signed' = signed
        \/ signed' = signed \cup {new} /\ Verifies(tx[r], hash[r])
    BY <1>2 DEF SigningEnds, ApplySignature
  <2>2. new.tx = tx[r]
    OBVIOUS
  <2> HIDE DEF new
  <2> QED BY <1>1, <2>1, <2>2 DEF Positive, Verifies
<1>3. ASSUME NEW r \in Request, ~SigningEnds(r),
             \/ BuildTransaction(r) \/ StoreTransaction(r) \/ SignTransaction(r) \/ Rehash(r)
             \/ CreateSigning(r) \/ QuickSend(r) \/ QuickBroadcast(r) \/ \E q \in Request : MapRace(r, q)
      PROVE  Positive'
  BY <1>1, <1>3 DEF BuildTransaction, StoreTransaction, SignTransaction, Rehash, CreateSigning,
                    QuickSend, QuickBroadcast, MapRace
<1>4. CASE UNCHANGED vars
  BY <1>1, <1>4 DEF vars
<1> QED BY <1>2, <1>3, <1>4 DEF Next

LEMMA InvKeepsAmounts ==
  ASSUME Converts, Inv, Positive
  PROVE  AmountKept
<1>1. ConversionsKeep
  BY ConversionKeeps
<1>2. ASSUME NEW s \in signed
      PROVE  /\ s.by.digest.value >= 0
             /\ IF s.tx.amount[1] = "wei" THEN s.by.digest.value = s.tx.amount[2]
                ELSE LastWei(s.tx.amount[2], s.by.digest.value)
  <2>1. s.tx \in Transaction /\ s.by.digest = Hash(s.tx) /\ Wei[s.tx.amount] >= 0
    BY DEF Inv, SignedAsAsked, Positive
  <2>2. s.tx.amount \in Amount
    BY <2>1 DEF Transaction
  <2>3. s.by.digest.value = Wei[s.tx.amount]
    BY <2>1 DEF Hash
  <2> QED BY <2>1, <2>2, <2>3, WeiKeeps
<1> QED BY <1>1, <1>2 DEF AmountKept

\* What is signed for is what the client asked for in Wei, and what it asked for in
\* Ether or a Wei nearer to zero, whoever asks for what, as long as amounts in Ether
\* are below half of what the mantissa holds (for the code, 2^255 Wei).
THEOREM KeepsAmounts ==
  ASSUME Converts
  PROVE  Spec => []AmountKept
<1>1. Init => Positive
  BY DEF Init, Positive
<1>2. Inv /\ Positive => AmountKept
  BY InvKeepsAmounts
<1> QED BY <1>1, <1>2, NextPositive, Invariance, PTL DEF Spec
=============================================================================
