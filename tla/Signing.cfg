\* Two sessions over a 2-of-3 key.
CONSTANTS
  p1 = p1
  p2 = p2
  p3 = p3
  s1 = s1
  s2 = s2
  KeygenParties <- MCKeygenParties
  SignerLists <- MCSignerLists
  SigningId = {s1, s2}
  Emits <- MCEmits
  Threshold = 2
  MaxLost = 1
SYMMETRY MCSym
SPECIFICATION Spec
CHECK_DEADLOCK FALSE
INVARIANTS TypeOK CompletedIsSigned NeverStalls
PROPERTIES Answered
