------------------------------ MODULE Payments ------------------------------
(***************************************************************************)
(* What sign-tx and quick-send promise, one step an event: a transaction is  *)
(* asked for, is signed under an id that serves once, and is handed to the   *)
(* network at most once, if it is signed.                                   *)
(***************************************************************************)
CONSTANTS Tx, Id

VARIABLES
  asked,   \* the transactions that were built
  signed,  \* the signed ones, with the id they were signed under
  sent     \* the ones that were handed to the network, likewise

vars == <<asked, signed, sent>>

Init == asked = {} /\ signed = {} /\ sent = {}

Build(t) == asked' = asked \cup {t} /\ UNCHANGED <<signed, sent>>

Sign(t, i) == /\ t \in asked
              /\ \A s \in signed : s.id # i
              /\ signed' = signed \cup {[id |-> i, tx |-> t]}
              /\ UNCHANGED <<asked, sent>>

Send(s) == /\ s \in signed \ sent
           /\ sent' = sent \cup {s}
           /\ UNCHANGED <<asked, signed>>

Next == \/ \E t \in Tx : Build(t) \/ \E i \in Id : Sign(t, i)
        \/ \E s \in signed : Send(s)

Spec == Init /\ [][Next]_vars
=============================================================================
