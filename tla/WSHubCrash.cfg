\* One connection of one device.
CONSTANTS
  Device = {d1}
  Client = {c1}
  Identity <- MCIdentity
  Session = {s1}
  Party <- MCParty
  Sender = {h1}
  Cap = 1
  None = None
SPECIFICATION Spec
CHECK_DEADLOCK FALSE
INVARIANTS NeverCrashes
