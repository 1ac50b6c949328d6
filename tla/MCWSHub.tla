------------------------------ MODULE MCWSHub ------------------------------
(* Small instances of WSHub: a device that connects once, and one that       *)
(* reconnects.                                                              *)
EXTENDS WSHub, TLC

\* Every connection authenticates as any of the devices there are.
MCIdentity == [c \in Client |-> Device]
MCParty == [s \in Session |-> Device]
=============================================================================
