\* Two requests at a time over two nonces; clients may stop.
CONSTANTS
  w1 = w1
  w2 = w2
  sepolia = sepolia
  mainnet = mainnet
  Account <- MCAccount
  Ask <- MCAsk
  r1 = r1
  r2 = r2
  Request = {r1, r2}
  MaxNonce = 1
  MaxAsked = 2
  MaxSessions = 2
  NoTx = NoTx
  Digits = 2
  Precision = 9
SPECIFICATION Spec
SYMMETRY MCSymmetry
CHECK_DEADLOCK FALSE
INVARIANTS TypeOK SignedAsAsked SignedOncePerNonce AmountKept
PROPERTIES ImplementsPayments
