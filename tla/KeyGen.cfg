\* Three parties, the rounds of the library, two Updates that fail.
CONSTANTS
  p1 = p1
  p2 = p2
  p3 = p3
  PartyId = {p1, p2, p3}
  PartyLists <- MCPartyLists
  Emits <- MCEmits
  Threshold = 2
  MaxLost = 2
SPECIFICATION FairSpec
CHECK_DEADLOCK FALSE
INVARIANTS TypeOK CompletedHasShares NeverStalls
PROPERTIES Answered Executes
