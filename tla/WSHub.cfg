\* Two connections of one device, a channel of one message.  Every connection can end.
CONSTANTS
  Device = {d1}
  Client = {c1, c2}
  Identity <- MCIdentity
  Session = {s1}
  Party <- MCParty
  Sender = {h1}
  Cap = 1
  None = None
SPECIFICATION FairSpec
CHECK_DEADLOCK FALSE
INVARIANTS TypeOK TableIsOpen NoGhostOnline
PROPERTIES GoneIsUnregistered
