\* Two connections of one device.
CONSTANTS
  Device = {d1}
  Client = {c1, c2}
  Identity <- MCIdentity
  Session = {s1}
  Party <- MCParty
  Sender = {h1}
  Cap = 1
  None = None
SPECIFICATION Spec
CHECK_DEADLOCK FALSE
PROPERTIES StaysRegistered
