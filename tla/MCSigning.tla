----------------------------- MODULE MCSigning -----------------------------
(* Small instances of Signing.  The rounds of the library's ECDSA signing: a *)
(* first of both kinds, a second to one party each, and broadcasts, of which *)
(* one stands for the seven.                                                  *)
EXTENDS Signing, TLC

CONSTANTS p1, p2, p3, s1, s2

MCEmits == <<{"p2p", "broadcast"}, {"p2p"}, {"broadcast"}>>

MCKeygenParties == <<p1, p2, p3>>

\* In the keygen order, in another, with a party in common, and a party twice.
MCSignerLists == {<<p1, p2>>, <<p2, p1>>, <<p2, p3>>, <<p1, p1>>}

\* All in the keygen order.
MCSortedLists == {<<p1, p2>>, <<p2, p3>>}
\* Sessions are alike.
MCSym == Permutations(SigningId)
=============================================================================
