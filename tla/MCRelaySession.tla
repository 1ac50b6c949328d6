--------------------------- MODULE MCRelaySession ---------------------------
(* A small instance of RelaySession: one session id, since nothing relates *)
(* two, and a party list with a duplicate beside the ordinary one.          *)
EXTENDS RelaySession, TLC

CONSTANTS d1, d2

MCPartyLists == {<<d1, d2>>, <<d1, d1>>}

Symmetry == Permutations(Handler)
=============================================================================
