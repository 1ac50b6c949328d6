--------------------------- MODULE MCRateLimiter ---------------------------
(* The limiters with small rates.  A dropped bucket is full on the global     *)
(* route and not on the strict one.                                          *)
EXTENDS RateLimiter, TLC

CONSTANTS k1, strict, r1, r2

Rates1 == [t \in Route |-> 1]
Bursts == [t \in Route |-> 2]

Symmetry == Permutations({r1, r2})
=============================================================================
