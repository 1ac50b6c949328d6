\* Two requests at a time on one session of two parties.
CONSTANTS
  d1 = d1
  d2 = d2
  Device = {d1, d2}
  NoSession = NoSession
  MaxRound = 1
  Session = {s1}
  Handler = {h1, h2}
  PartyLists <- MCPartyLists
  PatchStatus = {"paused"}
SPECIFICATION Spec
SYMMETRY Symmetry
PROPERTIES JoinsAreKept
