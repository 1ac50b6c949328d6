CONSTANTS
  k1 = k1
  strict = strict
  r1 = r1
  r2 = r2
  Key = {k1}
  Request = {r1, r2}
  Strict = {strict}
  Rps <- Rates1
  Burst <- Bursts
  KeyRps = {2}
  Second = 2
  Idle = 2
  MaxTime = 3
  NoLimiter = NoLimiter
  NoBucket = NoBucket
SPECIFICATION Spec
INVARIANTS TypeOK RateBound RetryAdmitted
SYMMETRY Symmetry
