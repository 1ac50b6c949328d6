------------------------------ MODULE MCKeyGen ------------------------------
(* A small instance of KeyGen, with the rounds of tss-lib's ECDSA keygen. *)
EXTENDS KeyGen, TLC

CONSTANTS p1, p2, p3

MCEmits == <<{"broadcast"}, {"p2p", "broadcast"}, {"broadcast"}>>

\* An ordinary list, and one that names a party twice.
MCPartyLists == {<<p1, p2, p3>>, <<p1, p2, p1>>}
=============================================================================
