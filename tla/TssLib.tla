------------------------------- MODULE TssLib -------------------------------
(***************************************************************************)
(* What the services rely on of a local party of tss-lib (external): it     *)
(* takes messages through Update and puts messages into its out channel;    *)
(* once it has the messages of its round from everybody else it goes on to  *)
(* the next round in the same call, and after the last round it puts its    *)
(* result into its end channel.  Messages that arrive early are kept.        *)
(*                                                                         *)
(* Contents are left out.  Senders are known by their slot, the index of     *)
(* their PartyID at the time of the Update, and a message to one party names *)
(* the place of its PartyID in the sorted list.                              *)
(***************************************************************************)
EXTENDS Naturals, Sequences, SequencesExt

CONSTANT Emits  \* round -> the kinds of messages a party sends in it

ASSUME EmitsAssumption ==
  Emits \in Seq((SUBSET {"p2p", "broadcast"}) \ {{}}) /\ Len(Emits) >= 2

Rounds == Len(Emits)

Everybody == 0

\* A party, and what it sends and keeps, when slots and places are up to k.
MessageSet(k) == [round : 1..Rounds, to : 0..k]
KeptSet(k)    == [round : 1..Rounds, kind : {"p2p", "broadcast"}, slot : 1..k]
PartySet(k)   == [round : 0..(Rounds + 1), got : SUBSET KeptSet(k), out : Seq(MessageSet(k)), end : BOOLEAN]

NewParty == [round |-> 0, got |-> {}, out |-> <<>>, end |-> FALSE]

\* What the party with index me of n sends in a round.
Sent(r, me, n) ==
     (IF "p2p" \in Emits[r]
      THEN FlattenSeq([j \in 1..n |-> IF j = me THEN <<>> ELSE <<[round |-> r, to |-> j]>>])
      ELSE <<>>)
  \o (IF "broadcast" \in Emits[r] THEN <<[round |-> r, to |-> Everybody]>> ELSE <<>>)

KindOf(m) == IF m.to = Everybody THEN "broadcast" ELSE "p2p"

\* The message as the receiver keeps it.
Kept(m, slot) == [round |-> m.round, kind |-> KindOf(m), slot |-> slot]

HasAll(got, r, me, n) ==
  \A kind \in Emits[r], slot \in (1..n) \ {me} :
     [round |-> r, kind |-> kind, slot |-> slot] \in got

\* The round the party gets to, from one that has begun.
Reached(round, got, me, n) ==
  CHOOSE r \in round..(Rounds + 1) :
     /\ \A q \in round..(r - 1) : HasAll(got, q, me, n)
     /\ r <= Rounds => ~HasAll(got, r, me, n)

\* Start
Started(p, me, n) == [p EXCEPT !.round = 1, !.out = @ \o Sent(1, me, n)]

\* Update
Updated(p, m, me, n) ==
  LET got == p.got \cup {m}
      r   == IF p.round = 0 THEN 0 ELSE Reached(p.round, got, me, n)
      new == [i \in 1..(r - p.round) |->
                IF p.round + i <= Rounds THEN Sent(p.round + i, me, n) ELSE <<>>]
  IN  [round |-> r, got |-> got, out |-> p.out \o FlattenSeq(new),
       end |-> p.end \/ (r > Rounds /\ p.round <= Rounds)]
=============================================================================
