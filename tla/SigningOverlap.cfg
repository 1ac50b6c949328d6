\* Two sessions with a signer in common, each in the keygen order.
CONSTANTS
  p1 = p1
  p2 = p2
  p3 = p3
  s1 = s1
  s2 = s2
  KeygenParties <- MCKeygenParties
  SignerLists <- MCSortedLists
  SigningId = {s1, s2}
  Emits <- MCEmits
  Threshold = 2
  MaxLost = 1
SPECIFICATION Spec
CHECK_DEADLOCK FALSE
PROPERTY MessagesReachRecipients
