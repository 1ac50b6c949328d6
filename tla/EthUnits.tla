------------------------------ MODULE EthUnits ------------------------------
(***************************************************************************)
(* Amounts of Ether as the handlers convert them: a decimal is parsed into   *)
(* a binary floating point number (big.ParseFloat), multiplied by the number *)
(* of Wei in an Ether, and cut off (EtherToWei).  An amount is the number n  *)
(* of Wei the decimal stands for; 10^Digits Wei make one Ether.  The code    *)
(* has 18 digits and 256 bits.                                              *)
(***************************************************************************)
EXTENDS Naturals

CONSTANTS
  Digits,    \* the decimals of an Ether
  Precision  \* the bits of a mantissa

ASSUME UnitsAssumption == Digits \in Nat /\ Precision \in Nat \ {0}

\* b to the k-th, as a recursive function that can be reasoned about.
Power(b, k) == LET f[i \in Nat] == IF i = 0 THEN 1 ELSE b * f[i - 1] IN f[k]

\* num / den to the nearest integer, half way to the even one.
Nearest(num, den) ==
  LET low == num \div den
      over == 2 * (num % den)
  IN  IF over > den \/ (over = den /\ low % 2 = 1) THEN low + 1 ELSE low

\* The places a fraction below 2^Precision is shifted by until its mantissa has
\* the given number of bits.
Shift(num, den, bits) ==
  CHOOSE e \in 0..(2 * bits + 4 * Digits) :
     /\ Power(2, bits - 1) * den <= num * Power(2, e)
     /\ num * Power(2, e) < Power(2, bits) * den

\* The nearest floating point number, to nearest even.
Float(num, den, bits) ==
  LET e == Shift(num, den, bits)
  IN  [mantissa |-> Nearest(num * Power(2, e), den), shift |-> e]

\* Parsed with so many bits, times 10^Digits with the same precision, cut off.
Converted(n, bits) ==
  LET ether == Float(n, Power(10, Digits), bits)
      wei   == Float(ether.mantissa * Power(10, Digits), Power(2, ether.shift), bits)
  IN  wei.mantissa \div Power(2, wei.shift)

\* Mutant: the decimal is parsed with half the precision.
EtherToWeiHalf(n) == IF n = 0 THEN 0 ELSE Converted(n, Precision \div 2)

EtherToWei(n) == IF n = 0 THEN 0 ELSE Converted(n, Precision)

\* No amount gains a Wei, and none loses more than one.
ConversionsKeep == \A n \in 0..Power(2, Precision - 1) : EtherToWei(n) \in {n, n - 1}
=============================================================================
