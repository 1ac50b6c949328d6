-------------------------- MODULE MCRelayMessages --------------------------
(* A small instance of RelayMessages.  MaxNow = TTL, so that a queue and a  *)
(* message can end, and a later message outlive them.                       *)
EXTENDS RelayMessages, TLC

CONSTANTS d1, d2, u1, u2

MCParties == [s \in Session |-> <<d1, d2>>]
\* A send of d2 to both or to the other party, and one of d1 to d2, who acknowledges.
MCFrom == u1 :> d2 @@ u2 :> d1
MCBy == [a \in Ack |-> d2]
MCToLists == u1 :> {<<d1, d2>>} @@ u2 :> {<<d2>>}
=============================================================================
