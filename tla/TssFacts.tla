------------------------------ MODULE TssFacts ------------------------------
(* What the parties of one run of the library's protocol are to each other,    *)
(* for any number of parties and any rounds.  The services that route their     *)
(* messages cite it.                                                          *)
EXTENDS TssLib, Integers, FiniteSetTheorems, SequenceTheorems, WellFoundedInduction, TLAPS

-----------------------------------------------------------------------------
(* Numbers and lists *)

\* A set of naturals has a least one, if it has any.
LEMMA LeastNatural ==
  ASSUME NEW T \in SUBSET Nat, T # {}
  PROVE  \E x \in T : \A y \in T : x <= y
<1> DEFINE R == OpToRel(<, Nat)
<1>1. \A x, y \in Nat : y < x => <<y, x>> \in R
  BY DEF OpToRel
<1>2. IsWellFoundedOn(R, Nat)
  BY NatLessThanWellFounded, Zenon
<1> HIDE DEF R
<1>3. PICK x \in T : \A y \in T : ~ (<<y, x>> \in R)
  BY <1>2, WFMin
<1>4. \A y \in T : ~(y < x)
  BY <1>1, <1>3
<1> QED BY <1>4

\* There are n numbers from 1 to n.
LEMMA FirstNumbers ==
  ASSUME NEW n \in Nat
  PROVE  IsFiniteSet(1..n) /\ Cardinality(1..n) = n
BY FS_Interval

\* A list names no more members than it is long.
LEMMA NamesOfList ==
  ASSUME NEW S, NEW seq \in Seq(S)
  PROVE  /\ IsFiniteSet(ToSet(seq))
         /\ Cardinality(ToSet(seq)) \in Nat
         /\ Cardinality(ToSet(seq)) <= Len(seq)
<1> DEFINE f == [i \in 1..Len(seq) |-> seq[i]]
<1>1. Len(seq) \in Nat /\ DOMAIN seq = 1..Len(seq)
  OBVIOUS
<1>2. IsFiniteSet(1..Len(seq)) /\ Cardinality(1..Len(seq)) = Len(seq)
  BY <1>1, FS_Interval
<1>3. f \in Surjection(1..Len(seq), ToSet(seq))
  BY <1>1 DEF Surjection, ToSet
<1>4. IsFiniteSet(ToSet(seq)) /\ Cardinality(ToSet(seq)) <= Cardinality(1..Len(seq))
  BY <1>2, <1>3, FS_Surjection
<1> QED BY <1>2, <1>4, FS_CardinalityType

\* A list that names as many as it is long names each once.
LEMMA NamedOnce ==
  ASSUME NEW S, NEW seq \in Seq(S), Cardinality(ToSet(seq)) = Len(seq)
  PROVE  \A i, j \in DOMAIN seq : seq[i] = seq[j] => i = j
<1> DEFINE f == [i \in 1..Len(seq) |-> seq[i]]
<1>1. Len(seq) \in Nat /\ DOMAIN seq = 1..Len(seq)
  OBVIOUS
<1>2. IsFiniteSet(1..Len(seq)) /\ Cardinality(1..Len(seq)) = Len(seq)
  BY <1>1, FirstNumbers
<1>3. f \in Surjection(1..Len(seq), ToSet(seq))
  BY <1>1 DEF Surjection, ToSet
<1>4. f \in Injection(1..Len(seq), ToSet(seq))
  <2> HIDE DEF f
  <2> QED BY <1>2, <1>3, FS_SurjSameCardinalityImpliesInj
<1> QED BY <1>1, <1>4 DEF Injection, IsInjective

\* Where a list has a member last.
LastPlace(seq, e) == CHOOSE i \in DOMAIN seq : seq[i] = e /\ \A j \in DOMAIN seq : seq[j] = e => j <= i

\* Every member has a last place.
LEMMA LastPlaceIsOne ==
  ASSUME NEW S, NEW seq \in Seq(S), NEW e \in ToSet(seq)
  PROVE  LastPlace(seq, e) \in 1..Len(seq) /\ seq[LastPlace(seq, e)] = e
<1>1. Len(seq) \in Nat /\ DOMAIN seq = 1..Len(seq)
  OBVIOUS
<1> DEFINE T == {d \in 0..Len(seq) : d < Len(seq) /\ seq[Len(seq) - d] = e}
<1>2. PICK i \in 1..Len(seq) : seq[i] = e
  BY <1>1 DEF ToSet
<1>3. PICK d \in T : \A x \in T : d <= x
  <2>1. Len(seq) - i \in T /\ T \in SUBSET Nat
    BY <1>1, <1>2
  <2> HIDE DEF T
  <2> QED BY <2>1, LeastNatural
<1>4. Len(seq) - d \in 1..Len(seq) /\ seq[Len(seq) - d] = e
  BY <1>1, <1>3
<1>5. ASSUME NEW j \in 1..Len(seq), seq[j] = e PROVE j <= Len(seq) - d
  <2>1. Len(seq) - j \in T
    BY <1>1, <1>5
  <2> QED BY <1>1, <1>3, <2>1
<1>6. \E k \in DOMAIN seq : seq[k] = e /\ \A j \in DOMAIN seq : seq[j] = e => j <= k
  BY <1>1, <1>4, <1>5
<1> QED BY <1>1, <1>6 DEF LastPlace

\* Two lists, one after the other, name what either names.
LEMMA NamesOfBoth ==
  ASSUME NEW S, NEW a \in Seq(S), NEW b \in Seq(S)
  PROVE  a \o b \in Seq(S) /\ ToSet(a \o b) = ToSet(a) \cup ToSet(b)
<1>1. /\ a \o b \in Seq(S) /\ Len(a \o b) = Len(a) + Len(b)
      /\ \A i \in 1..(Len(a) + Len(b)) :
           (a \o b)[i] = IF i <= Len(a) THEN a[i] ELSE b[i - Len(a)]
  BY ConcatProperties
<1>2. Len(a) \in Nat /\ Len(b) \in Nat
  OBVIOUS
<1>3. ASSUME NEW x \in ToSet(a \o b) PROVE x \in ToSet(a) \cup ToSet(b)
  <2>1. PICK i \in 1..(Len(a) + Len(b)) : x = (a \o b)[i]
    BY <1>1 DEF ToSet
  <2>2. CASE i <= Len(a)
    BY <1>1, <1>2, <2>1, <2>2 DEF ToSet
  <2>3. CASE ~(i <= Len(a))
    <3>1. i - Len(a) \in 1..Len(b) /\ x = b[i - Len(a)]
      BY <1>1, <1>2, <2>1, <2>3
    <3> QED BY <3>1 DEF ToSet
  <2> QED BY <2>2, <2>3
<1>4. ASSUME NEW i \in 1..Len(a) PROVE a[i] \in ToSet(a \o b)
  <2>1. i \in 1..(Len(a) + Len(b)) /\ (a \o b)[i] = a[i]
    BY <1>1, <1>2
  <2> QED BY <1>1, <2>1 DEF ToSet
<1>5. ASSUME NEW i \in 1..Len(b) PROVE b[i] \in ToSet(a \o b)
  <2>1. /\ Len(a) + i \in 1..(Len(a) + Len(b)) /\ ~(Len(a) + i <= Len(a))
        /\ Len(a) + i - Len(a) = i
    BY <1>2
  <2>2. (a \o b)[Len(a) + i] = b[i]
    BY <1>1, <2>1
  <2> QED BY <1>1, <2>1, <2>2 DEF ToSet
<1>6. ToSet(a) \cup ToSet(b) \subseteq ToSet(a \o b)
  <2>1. ASSUME NEW x \in ToSet(a) PROVE x \in ToSet(a \o b)
    BY <1>4, <2>1 DEF ToSet
  <2>2. ASSUME NEW x \in ToSet(b) PROVE x \in ToSet(a \o b)
    <3>1. PICK i \in 1..Len(b) : x = b[i]
      BY <2>2 DEF ToSet
    <3> QED BY <1>5, <3>1
  <2> QED BY <2>1, <2>2
<1> QED BY <1>1, <1>3, <1>6

\* The lists laid end to end, up to each of the first k.
Chained(g, ss, k) == g = [i \in 1..k |-> IF i = 1 THEN ss[i] ELSE g[i - 1] \o ss[i]]

LEMMA ChainStep ==
  ASSUME NEW ss, NEW k \in Nat, k >= 1, NEW h, Chained(h, ss, k)
  PROVE  \E g : Chained(g, ss, k + 1)
<1> DEFINE g == [i \in 1..(k + 1) |-> IF i <= k THEN h[i] ELSE h[k] \o ss[k + 1]]
           G == [i \in 1..(k + 1) |-> IF i = 1 THEN ss[i] ELSE g[i - 1] \o ss[i]]
<1>1. \A i \in 1..k : h[i] = IF i = 1 THEN ss[i] ELSE h[i - 1] \o ss[i]
  BY DEF Chained
<1>2. ASSUME NEW i \in 1..(k + 1) PROVE g[i] = G[i]
  <2>1. CASE i = 1
    BY <1>1, <2>1
  <2>2. CASE i # 1 /\ i <= k
    <3>1. i \in 1..k /\ i - 1 \in 1..(k + 1) /\ i - 1 <= k
      BY <2>2
    <3>2. g[i] = h[i] /\ g[i - 1] = h[i - 1]
      BY <3>1
    <3> HIDE DEF g
    <3> QED BY <1>1, <2>2, <3>1, <3>2
  <2>3. CASE i = k + 1
    <3>1. k \in 1..(k + 1) /\ i - 1 = k /\ i # 1 /\ ~(i <= k)
      BY <2>3
    <3>2. g[k + 1] = h[k] \o ss[k + 1]
      <4>1. k + 1 \in 1..(k + 1) /\ ~(k + 1 <= k)
        OBVIOUS
      <4> QED BY <4>1
    <3>3. g[k] = h[k]
      BY <3>1
    <3>4. G[k + 1] = g[k] \o ss[k + 1]
      BY <2>3, <3>1
    <3> HIDE DEF g, G
    <3> QED BY <2>3, <3>2, <3>3, <3>4
  <2> QED BY <2>1, <2>2, <2>3
<1>3. g = G
  BY <1>2
<1> QED BY <1>3 DEF Chained

LEMMA ChainExists ==
  ASSUME NEW ss, NEW n \in Nat, n >= 1
  PROVE  \E g : Chained(g, ss, n)
<1> DEFINE T == {k \in Nat : k >= 1 /\ ~ \E g : Chained(g, ss, k)}
<1>1. SUFFICES ASSUME T # {} PROVE FALSE
  OBVIOUS
<1>2. PICK k \in T : \A y \in T : k <= y
  <2>1. T \in SUBSET Nat
    OBVIOUS
  <2> HIDE DEF T
  <2> QED BY <1>1, <2>1, LeastNatural
<1>3. k # 1
  <2>1. Chained([i \in 1..1 |-> ss[1]], ss, 1)
    BY DEF Chained
  <2> QED BY <1>2, <2>1
<1>4. k - 1 \in Nat /\ k - 1 >= 1 /\ k - 1 \notin T
  BY <1>2, <1>3
<1>5. PICK h : Chained(h, ss, k - 1)
  BY <1>4
<1>6. \E g : Chained(g, ss, k - 1 + 1)
  BY <1>4, <1>5, ChainStep
<1> QED BY <1>2, <1>6

\* What the first k lists name.
NamesUpTo(ss, k) == UNION {ToSet(ss[i]) : i \in 1..k}

\* A list of lists, laid end to end, names what any of them names.
LEMMA NamesOfAll ==
  ASSUME NEW S, NEW ss \in Seq(Seq(S))
  PROVE  /\ FlattenSeq(ss) \in Seq(S)
         /\ ToSet(FlattenSeq(ss)) = UNION {ToSet(ss[i]) : i \in DOMAIN ss}
<1> DEFINE n == Len(ss)
           flat == CHOOSE g : Chained(g, ss, n)
<1>0. n \in Nat /\ DOMAIN ss = 1..n /\ \A i \in 1..n : ss[i] \in Seq(S)
  OBVIOUS
<1>1. CASE n = 0
  <2>1. FlattenSeq(ss) = ss /\ ss = <<>> /\ DOMAIN ss = {}
    BY <1>0, <1>1 DEF FlattenSeq
  <2> QED BY <2>1 DEF ToSet
<1>2. CASE n # 0
  <2>1. FlattenSeq(ss) = flat[n]
    BY <1>2 DEF FlattenSeq, Chained
  <2>2. Chained(flat, ss, n)
    <3>1. n >= 1
      BY <1>0, <1>2
    <3> HIDE DEF n
    <3>2. \E g : Chained(g, ss, n)
      BY <1>0, <3>1, ChainExists
    <3> QED BY <3>2
  <2> HIDE DEF flat, n
  <2>3. \A i \in 1..n : flat[i] = IF i = 1 THEN ss[i] ELSE flat[i - 1] \o ss[i]
    BY <2>2 DEF Chained
  <2> DEFINE Fits(k) == flat[k] \in Seq(S) /\ ToSet(flat[k]) = NamesUpTo(ss, k)
             T == {k \in 1..n : ~Fits(k)}
  <2>4. Fits(1)
    <3>1. flat[1] = ss[1] /\ ss[1] \in Seq(S) /\ 1..1 = {1}
      BY <1>0, <1>2, <2>3
    <3> QED BY <3>1 DEF NamesUpTo
  <2>5. ASSUME NEW k \in 1..n, k # 1, Fits(k - 1) PROVE Fits(k)
    <3>1. flat[k] = flat[k - 1] \o ss[k] /\ ss[k] \in Seq(S)
      BY <1>0, <2>3, <2>5
    <3>2. flat[k] \in Seq(S) /\ ToSet(flat[k]) = ToSet(flat[k - 1]) \cup ToSet(ss[k])
      BY <2>5, <3>1, NamesOfBoth
    <3>3. 1..k = (1..(k - 1)) \cup {k}
      BY <1>0, <2>5
    <3>4. NamesUpTo(ss, k) = NamesUpTo(ss, k - 1) \cup ToSet(ss[k])
      BY <3>3 DEF NamesUpTo
    <3> QED BY <2>5, <3>2, <3>4
  <2> HIDE DEF Fits
  <2>6. T = {}
    <3>1. SUFFICES ASSUME T # {} PROVE FALSE
      OBVIOUS
    <3>2. PICK k \in T : \A y \in T : k <= y
      <4>1. T \in SUBSET Nat
        BY <1>0
      <4> HIDE DEF T
      <4> QED BY <3>1, <4>1, LeastNatural
    <3>3. k \in 1..n /\ ~Fits(k) /\ k # 1
      BY <2>4, <3>2
    <3>4. k - 1 \in 1..n /\ k - 1 \notin T
      BY <1>0, <3>2, <3>3
    <3> QED BY <2>5, <3>3, <3>4
  <2>7. Fits(n)
    BY <1>0, <1>2, <2>6
  <2> QED BY <1>0, <2>1, <2>7 DEF Fits, NamesUpTo
<1> QED BY <1>1, <1>2

-----------------------------------------------------------------------------
(* One party *)

\* What carries a round's message of a kind to the party at a place.
Letter(r, kind, j) == [round |-> r, to |-> IF kind = "p2p" THEN j ELSE Everybody]

\* A party sends a message of each kind of the round to every other one, and no
\* message of another round or to itself.
LEMMA SentNames ==
  ASSUME NEW r \in 1..Rounds, NEW n \in Nat, NEW me \in Nat \ {0}
  PROVE  /\ Sent(r, me, n) \in Seq(MessageSet(n))
         /\ \A kind \in Emits[r], j \in (1..n) \ {me} : Letter(r, kind, j) \in ToSet(Sent(r, me, n))
         /\ \A m \in ToSet(Sent(r, me, n)) : m.round = r /\ m.to # me
<1> DEFINE to == [j \in 1..n |-> IF j = me THEN <<>> ELSE <<[round |-> r, to |-> j]>>]
           a == IF "p2p" \in Emits[r] THEN FlattenSeq(to) ELSE <<>>
           b == IF "broadcast" \in Emits[r] THEN <<[round |-> r, to |-> Everybody]>> ELSE <<>>
<1>1. Sent(r, me, n) = a \o b
  BY DEF Sent
<1>2. \A j \in 0..n : [round |-> r, to |-> j] \in MessageSet(n)
  BY DEF MessageSet
<1>3. to \in Seq(Seq(MessageSet(n))) /\ DOMAIN to = 1..n
  <2>1. ASSUME NEW j \in 1..n PROVE to[j] \in Seq(MessageSet(n))
    BY <1>2
  <2>2. DOMAIN to = 1..n
    OBVIOUS
  <2>3. to = [j \in 1..n |-> to[j]]
    OBVIOUS
  <2> HIDE DEF to
  <2> QED BY <2>1, <2>2, <2>3
<1>4. FlattenSeq(to) \in Seq(MessageSet(n)) /\ ToSet(FlattenSeq(to)) = UNION {ToSet(to[j]) : j \in 1..n}
  <2> HIDE DEF to
  <2> QED BY <1>3, NamesOfAll
<1>5. ASSUME NEW x PROVE ToSet(<<x>>) = {x} /\ ToSet(<<>>) = {}
  BY DEF ToSet
<1>6. ASSUME NEW j \in 1..n PROVE ToSet(to[j]) = IF j = me THEN {} ELSE {[round |-> r, to |-> j]}
  <2>1. to[j] = IF j = me THEN <<>> ELSE <<[round |-> r, to |-> j]>>
    OBVIOUS
  <2> HIDE DEF to
  <2> QED BY <1>5, <2>1
<1>7. a \in Seq(MessageSet(n))
  BY <1>4
<1>8. b \in Seq(MessageSet(n))
  BY <1>2 DEF Everybody
<1>9. ToSet(b) = IF "broadcast" \in Emits[r] THEN {[round |-> r, to |-> 0]} ELSE {}
  BY <1>5 DEF Everybody
<1> HIDE DEF to
<1>10. /\ "p2p" \in Emits[r] => \A j \in (1..n) \ {me} : [round |-> r, to |-> j] \in ToSet(a)
       /\ \A m \in ToSet(a) : \E j \in (1..n) \ {me} : m = [round |-> r, to |-> j]
  <2>1. CASE "p2p" \notin Emits[r]
    BY <1>5, <2>1
  <2>2. CASE "p2p" \in Emits[r]
    <3>1. ToSet(a) = UNION {ToSet(to[j]) : j \in 1..n}
      BY <1>4, <2>2
    <3> HIDE DEF a
    <3>2. ASSUME NEW j \in (1..n) \ {me} PROVE [round |-> r, to |-> j] \in ToSet(a)
      <4>1. [round |-> r, to |-> j] \in ToSet(to[j])
        BY <1>6
      <4> QED BY <3>1, <4>1
    <3>3. ASSUME NEW m \in ToSet(a) PROVE \E j \in (1..n) \ {me} : m = [round |-> r, to |-> j]
      <4>1. PICK j \in 1..n : m \in ToSet(to[j])
        BY <3>1
      <4> QED BY <1>6, <4>1
    <3> QED BY <3>2, <3>3
  <2> QED BY <2>1, <2>2
<1> HIDE DEF a, b
<1>11. Sent(r, me, n) \in Seq(MessageSet(n)) /\ ToSet(Sent(r, me, n)) = ToSet(a) \cup ToSet(b)
  BY <1>1, <1>7, <1>8, NamesOfBoth
<1>12. Emits[r] \subseteq {"p2p", "broadcast"}
  BY EmitsAssumption DEF Rounds
<1>13. ASSUME NEW kind \in Emits[r], NEW j \in (1..n) \ {me}
       PROVE  Letter(r, kind, j) \in ToSet(Sent(r, me, n))
  BY <1>9, <1>10, <1>11, <1>12 DEF Letter, Everybody
<1>14. ASSUME NEW m \in ToSet(Sent(r, me, n)) PROVE m.round = r /\ m.to # me
  <2>1. CASE m \in ToSet(a)
    BY <1>10, <2>1
  <2>2. CASE m \in ToSet(b)
    BY <1>9, <2>2
  <2> QED BY <1>11, <2>1, <2>2
<1> QED BY <1>11, <1>13, <1>14

\* A party goes on for as long as it has what it waits for, and no further.
LEMMA ReachedRound ==
  ASSUME NEW round \in 1..(Rounds + 1), NEW got, NEW me, NEW n
  PROVE  LET r == Reached(round, got, me, n)
         IN  /\ r \in round..(Rounds + 1)
             /\ \A q \in round..(r - 1) : HasAll(got, q, me, n)
             /\ r <= Rounds => ~HasAll(got, r, me, n)
<1> DEFINE T == {r \in round..(Rounds + 1) : r <= Rounds => ~HasAll(got, r, me, n)}
<1>0. Rounds \in Nat
  BY EmitsAssumption DEF Rounds
<1>1. Rounds + 1 \in T
  BY <1>0
<1>2. PICK r \in T : \A y \in T : r <= y
  <2>1. T \in SUBSET Nat
    BY <1>0
  <2> HIDE DEF T
  <2> QED BY <1>1, <2>1, LeastNatural
<1>3. ASSUME NEW q \in round..(r - 1) PROVE HasAll(got, q, me, n)
  <2>1. q \in round..(Rounds + 1) /\ q \notin T
    BY <1>0, <1>2
  <2> QED BY <2>1
<1>4. \E s \in round..(Rounds + 1) :
        /\ \A q \in round..(s - 1) : HasAll(got, q, me, n)
        /\ s <= Rounds => ~HasAll(got, s, me, n)
  BY <1>2, <1>3
<1> QED BY <1>4, Zenon DEF Reached

\* The messages of a round are for everybody but the sender, and of that round.
LEMMA SentByPlace ==
  ASSUME NEW n \in Nat, NEW q \in 1..n, NEW r \in 1..Rounds
  PROVE  /\ \A kind \in Emits[r], j \in (1..n) \ {q} : Letter(r, kind, j) \in ToSet(Sent(r, q, n))
         /\ \A x \in ToSet(Sent(r, q, n)) : x.round = r /\ x.to # q
<1>0. q \in Nat \ {0}
  OBVIOUS
<1>1. /\ \A kind \in Emits[r], j \in (1..n) \ {q} : Letter(r, kind, j) \in ToSet(Sent(r, q, n))
      /\ \A m \in ToSet(Sent(r, q, n)) : m.round = r /\ m.to # q
  BY <1>0, SentNames, ZenonT(60)
<1> QED BY <1>1, Zenon

\* What goes to fewer parties is among what goes to more.
LEMMA MessagesGrow ==
  ASSUME NEW k \in Nat, NEW n \in 0..k
  PROVE  Seq(MessageSet(n)) \subseteq Seq(MessageSet(k))
<1>1. MessageSet(n) \subseteq MessageSet(k)
  BY DEF MessageSet
<1> QED BY <1>1, SeqMonotonic

\* Start: the party is in the first round and has sent its messages.
LEMMA StartedParty ==
  ASSUME NEW k \in Nat, NEW n \in 0..k, NEW me \in Nat \ {0}, NEW p \in PartySet(k)
  PROVE  LET u == Started(p, me, n)
         IN  /\ u \in PartySet(k)
             /\ u.round = 1 /\ u.got = p.got /\ u.end = p.end
             /\ ToSet(u.out) = ToSet(p.out) \cup ToSet(Sent(1, me, n))
<1>1. 1 \in 1..Rounds /\ 1 \in 0..(Rounds + 1)
  BY EmitsAssumption DEF Rounds
<1>2. Sent(1, me, n) \in Seq(MessageSet(k))
  <2>1. n \in Nat
    OBVIOUS
  <2>2. Sent(1, me, n) \in Seq(MessageSet(n))
    BY <1>1, <2>1, SentNames, ZenonT(60)
  <2>3. Seq(MessageSet(n)) \subseteq Seq(MessageSet(k))
    BY MessagesGrow
  <2> QED BY <2>2, <2>3
<1>3. p.out \in Seq(MessageSet(k))
  BY DEF PartySet
<1> DEFINE out == p.out \o Sent(1, me, n)
<1>4. out \in Seq(MessageSet(k)) /\ ToSet(out) = ToSet(p.out) \cup ToSet(Sent(1, me, n))
  BY <1>2, <1>3, NamesOfBoth
<1>5. Started(p, me, n) = [p EXCEPT !.round = 1, !.out = out]
  BY DEF Started, PartySet
<1> HIDE DEF out
<1> QED BY <1>1, <1>4, <1>5 DEF PartySet

\* u is p after an Update with m, at place me of n.
Grows(p, u, m, me, n, k) ==
  /\ u \in PartySet(k)
  /\ u.got = p.got \cup {m}
  /\ p.round = 0 => u.round = 0
  /\ p.round # 0 =>
       /\ u.round \in p.round..(Rounds + 1)
       /\ \A q \in p.round..(u.round - 1) : HasAll(u.got, q, me, n)
       /\ u.round <= Rounds => ~HasAll(u.got, u.round, me, n)
  /\ u.end <=> p.end \/ (u.round = Rounds + 1 /\ p.round # Rounds + 1)
  /\ ToSet(p.out) \subseteq ToSet(u.out)
  /\ \A q \in (p.round + 1)..u.round : q <= Rounds => ToSet(Sent(q, me, n)) \subseteq ToSet(u.out)
  /\ \A x \in ToSet(u.out) :
       \/ x \in ToSet(p.out)
       \/ \E q \in (p.round + 1)..u.round : q <= Rounds /\ x \in ToSet(Sent(q, me, n))

\* Update: the party keeps the message, gets as far as what it keeps allows, and sends
\* the messages of the rounds it gets to.
LEMMA UpdatedParty ==
  ASSUME NEW k \in Nat, NEW n \in 0..k, NEW me \in Nat \ {0}, NEW p \in PartySet(k), NEW m \in KeptSet(k)
  PROVE  Grows(p, Updated(p, m, me, n), m, me, n, k)
<1> DEFINE got == p.got \cup {m}
           r   == IF p.round = 0 THEN 0 ELSE Reached(p.round, got, me, n)
           len == r - p.round
           new == [i \in 1..len |-> IF p.round + i <= Rounds THEN Sent(p.round + i, me, n) ELSE <<>>]
           out == p.out \o FlattenSeq(new)
           u   == [round |-> r, got |-> got, out |-> out, end |-> p.end \/ (r > Rounds /\ p.round <= Rounds)]
<1>0. Updated(p, m, me, n) = u
  BY DEF Updated
<1>1. /\ Rounds \in Nat /\ Rounds >= 2
      /\ p.round \in 0..(Rounds + 1) /\ p.got \in SUBSET KeptSet(k)
      /\ p.out \in Seq(MessageSet(k)) /\ p.end \in BOOLEAN
  BY EmitsAssumption DEF Rounds, PartySet
<1>2. /\ p.round = 0 => r = 0
      /\ p.round # 0 =>
           /\ r \in p.round..(Rounds + 1)
           /\ \A q \in p.round..(r - 1) : HasAll(got, q, me, n)
           /\ r <= Rounds => ~HasAll(got, r, me, n)
  <2> HIDE DEF got
  <2> QED BY <1>1, ReachedRound
<1> HIDE DEF r
<1>3. r \in 0..(Rounds + 1) /\ r >= p.round /\ len \in Nat
  BY <1>1, <1>2
<1>4. ASSUME NEW q \in 1..Rounds PROVE Sent(q, me, n) \in Seq(MessageSet(k))
  BY SentNames, MessagesGrow
<1>5. /\ DOMAIN new = 1..len /\ new \in Seq(Seq(MessageSet(k)))
      /\ \A i \in 1..len : new[i] = IF p.round + i <= Rounds THEN Sent(p.round + i, me, n) ELSE <<>>
  <2>1. ASSUME NEW i \in 1..len PROVE new[i] \in Seq(MessageSet(k))
    BY <1>1, <1>3, <1>4
  <2>2. DOMAIN new = 1..len /\ new = [i \in 1..len |-> new[i]]
    OBVIOUS
  <2>3. new \in Seq(Seq(MessageSet(k)))
    <3> HIDE DEF new, len
    <3> QED BY <1>3, <2>1, <2>2
  <2> QED BY <2>2, <2>3
<1> HIDE DEF new
<1>6. /\ FlattenSeq(new) \in Seq(MessageSet(k))
      /\ ToSet(FlattenSeq(new)) = UNION {ToSet(new[i]) : i \in 1..len}
  BY <1>5, NamesOfAll
<1>7. out \in Seq(MessageSet(k)) /\ ToSet(out) = ToSet(p.out) \cup ToSet(FlattenSeq(new))
  BY <1>1, <1>6, NamesOfBoth
<1> HIDE DEF out
<1>8. ASSUME NEW q \in (p.round + 1)..r, q <= Rounds PROVE ToSet(Sent(q, me, n)) \subseteq ToSet(out)
  <2>1. q - p.round \in 1..len /\ p.round + (q - p.round) = q
    BY <1>1, <1>3
  <2>2. new[q - p.round] = Sent(q, me, n)
    BY <1>5, <1>8, <2>1
  <2> QED BY <1>6, <1>7, <2>1, <2>2
<1>9. ASSUME NEW x \in ToSet(out), x \notin ToSet(p.out)
      PROVE  \E q \in (p.round + 1)..r : q <= Rounds /\ x \in ToSet(Sent(q, me, n))
  <2>1. PICK i \in 1..len : x \in ToSet(new[i])
    BY <1>6, <1>7, <1>9
  <2>2. ToSet(<<>>) = {}
    BY DEF ToSet
  <2>3. p.round + i <= Rounds /\ x \in ToSet(Sent(p.round + i, me, n))
    BY <1>5, <2>1, <2>2
  <2>4. p.round + i \in (p.round + 1)..r
    BY <1>1, <1>3
  <2> QED BY <2>3, <2>4
<1>10. u \in PartySet(k)
  BY <1>1, <1>3, <1>7 DEF PartySet
<1>11. u.round = r /\ u.got = got /\ u.out = out
  OBVIOUS
<1>12. u.end <=> p.end \/ (r = Rounds + 1 /\ p.round # Rounds + 1)
  <2>1. (r > Rounds /\ p.round <= Rounds) <=> (r = Rounds + 1 /\ p.round # Rounds + 1)
    BY <1>1, <1>3
  <2>2. u.end = (p.end \/ (r > Rounds /\ p.round <= Rounds))
    OBVIOUS
  <2> HIDE DEF u
  <2> QED BY <2>1, <2>2, Zenon
<1> HIDE DEF u, len
<1>13. Grows(p, u, m, me, n, k)
  BY <1>2, <1>7, <1>8, <1>9, <1>10, <1>11, <1>12 DEF Grows
<1> QED BY <1>0, <1>13

\* The oldest message of a party is one, and so is what its receivers keep of it.
LEMMA HeadIsMessage ==
  ASSUME NEW k \in Nat, NEW p \in PartySet(k), p.out # <<>>, NEW slot \in 1..k
  PROVE  /\ [p EXCEPT !.out = Tail(@)] \in PartySet(k)
         /\ Kept(Head(p.out), slot) \in KeptSet(k)
<1>1. p.out \in Seq(MessageSet(k))
  BY DEF PartySet
<1>2. Tail(p.out) \in Seq(MessageSet(k)) /\ Head(p.out) \in MessageSet(k)
  BY <1>1
<1>3. Kept(Head(p.out), slot) \in KeptSet(k)
  BY <1>2 DEF Kept, KindOf, KeptSet, MessageSet
<1> QED BY <1>2, <1>3 DEF PartySet

-----------------------------------------------------------------------------
(* All parties of one run: P has the party at each of the n places, and D the  *)
(* places whose result has been taken.                                        *)

\* What a party has sent, the others have or will get.
NothingLost(P, n) ==
  \A q \in 1..n : \A p \in (1..n) \ {q}, r \in 1..Rounds : \A kind \in Emits[r] :
     r <= P[q].round => \/ [round |-> r, kind |-> kind, slot |-> q] \in P[p].got
                        \/ Letter(r, kind, p) \in ToSet(P[q].out)

\* Nobody has a message of a round its sender has not reached.
NothingEarly(P, n) ==
  \A q \in 1..n :
     /\ \A m \in ToSet(P[q].out) : m.round <= P[q].round /\ m.to # q
     /\ \A p \in 1..n : \A m \in P[p].got : m.slot = q => m.round <= P[q].round

\* Who is past a round has had all its messages.
RoundsPassed(P, n) ==
  \A p \in 1..n : \A r \in 1..(P[p].round - 1) : HasAll(P[p].got, r, p, n)

\* A party that has all messages of its round, and does not know, ...
Unaware(P, p, n) == P[p].round \in 1..Rounds /\ HasAll(P[p].got, P[p].round, p, n)

\* ... was started last, and has heard nothing since.
OnlyTheLast(P, n) ==
  /\ \A p \in 1..n : Unaware(P, p, n) => P[p].round = 1 /\ \A m \in P[p].got : m.round = 1
  /\ \A p, q \in 1..n : Unaware(P, p, n) /\ Unaware(P, q, n) => p = q

\* The result of a party that is through is there or has been taken.
ResultsKept(P, n, D) == \A p \in 1..n : P[p].round = Rounds + 1 => P[p].end \/ p \in D

Protocol(P, n, D) ==
  /\ P \in [1..n -> PartySet(n)]
  /\ NothingLost(P, n) /\ NothingEarly(P, n) /\ RoundsPassed(P, n)
  /\ OnlyTheLast(P, n) /\ ResultsKept(P, n, D)

\* A party has been made and not started.
LEMMA NewIsParty ==
  ASSUME NEW k \in Nat
  PROVE  NewParty \in PartySet(k) /\ NewParty.round = 0 /\ NewParty.got = {} /\ ToSet(NewParty.out) = {}
<1>1. Rounds \in Nat
  BY EmitsAssumption DEF Rounds
<1> QED BY <1>1 DEF NewParty, PartySet, ToSet

\* What a party has to send is a message.
LEMMA LettersAreMessages ==
  ASSUME NEW k \in Nat, NEW p \in PartySet(k), NEW m \in ToSet(p.out)
  PROVE  m \in MessageSet(k) /\ m.round \in 1..Rounds /\ m.to \in 0..k
<1>1. p.out \in Seq(MessageSet(k))
  BY DEF PartySet
<1>2. PICK j \in DOMAIN p.out : m = p.out[j]
  BY DEF ToSet
<1>3. m \in MessageSet(k)
  BY <1>1, <1>2
<1> QED BY <1>3 DEF MessageSet

\* The parties as they are made.
LEMMA ProtocolBegins ==
  ASSUME NEW n \in Nat
  PROVE  Protocol([i \in 1..n |-> NewParty], n, {})
<1> DEFINE P == [i \in 1..n |-> NewParty]
<1>1. Rounds \in Nat
  BY EmitsAssumption DEF Rounds
<1>2. NewParty \in PartySet(n)
  BY NewIsParty
<1>3. \A p \in 1..n : P[p].round = 0 /\ P[p].got = {} /\ ToSet(P[p].out) = {}
  BY NewIsParty
<1>4. P \in [1..n -> PartySet(n)]
  BY <1>2
<1> HIDE DEF P
<1>5. NothingLost(P, n)
  BY <1>3 DEF NothingLost
<1>6. NothingEarly(P, n) /\ RoundsPassed(P, n)
  BY <1>3 DEF NothingEarly, RoundsPassed
<1>7. OnlyTheLast(P, n) /\ ResultsKept(P, n, {})
  BY <1>1, <1>3 DEF OnlyTheLast, Unaware, ResultsKept
<1>8. Protocol(P, n, {})
  BY <1>4, <1>5, <1>6, <1>7 DEF Protocol
<1> QED BY <1>8 DEF P

\* Whoever has all messages of a round has one of everybody else.
LEMMA AllMeansEach ==
  ASSUME NEW got, NEW r \in 1..Rounds, NEW n, NEW me \in 1..n, HasAll(got, r, me, n), NEW q \in (1..n) \ {me}
  PROVE  \E m \in got : m.round = r /\ m.slot = q
<1>1. PICK kind : kind \in Emits[r]
  BY EmitsAssumption DEF Rounds
<1>2. [round |-> r, kind |-> kind, slot |-> q] \in got
  BY <1>1 DEF HasAll
<1> QED BY <1>2

\* The start of a party that has not been started.
LEMMA ProtocolStarts ==
  ASSUME NEW n \in Nat, NEW P, NEW D, Protocol(P, n, D), NEW i \in 1..n, P[i].round = 0
  PROVE  Protocol([P EXCEPT ![i] = Started(@, i, n)], n, D)
<1> DEFINE u == Started(P[i], i, n)
           Q == [P EXCEPT ![i] = u]
<1>0. /\ P \in [1..n -> PartySet(n)] /\ NothingLost(P, n) /\ NothingEarly(P, n)
      /\ RoundsPassed(P, n) /\ OnlyTheLast(P, n) /\ ResultsKept(P, n, D)
  BY DEF Protocol
<1>1. /\ u \in PartySet(n) /\ u.round = 1 /\ u.got = P[i].got /\ u.end = P[i].end
      /\ ToSet(u.out) = ToSet(P[i].out) \cup ToSet(Sent(1, i, n))
  BY <1>0, StartedParty
<1> HIDE DEF u
<1>2. /\ Rounds \in Nat /\ Rounds >= 2 /\ 1 \in 1..Rounds
      /\ \A p \in 1..n : P[p].round \in 0..(Rounds + 1) /\ P[p].got \subseteq KeptSet(n)
  BY <1>0, EmitsAssumption DEF Rounds, PartySet
<1>3. Q \in [1..n -> PartySet(n)] /\ Q[i] = u /\ \A p \in (1..n) \ {i} : Q[p] = P[p]
  BY <1>0, <1>1
<1> HIDE DEF Q
<1>4. \A p \in 1..n : Q[p].got = P[p].got /\ P[p].round <= Q[p].round
  BY <1>1, <1>2, <1>3
<1>5. /\ \A kind \in Emits[1], j \in (1..n) \ {i} : Letter(1, kind, j) \in ToSet(Sent(1, i, n))
      /\ \A m \in ToSet(Sent(1, i, n)) : m.round = 1 /\ m.to # i
  BY <1>2, SentByPlace
<1>6. NothingLost(Q, n)
  <2> SUFFICES ASSUME NEW q \in 1..n, NEW p \in (1..n) \ {q}, NEW r \in 1..Rounds, NEW kind \in Emits[r],
                      r <= Q[q].round
               PROVE  \/ [round |-> r, kind |-> kind, slot |-> q] \in Q[p].got
                      \/ Letter(r, kind, p) \in ToSet(Q[q].out)
    BY DEF NothingLost
  <2>1. CASE q = i
    <3>1. r = 1
      BY <1>1, <1>3, <2>1
    <3> QED BY <1>1, <1>3, <1>5, <2>1, <3>1
  <2>2. CASE q # i
    BY <1>0, <1>3, <1>4, <2>2 DEF NothingLost
  <2> QED BY <2>1, <2>2
<1>7. NothingEarly(Q, n)
  <2>1. ASSUME NEW q \in 1..n, NEW m \in ToSet(Q[q].out) PROVE m.round <= Q[q].round /\ m.to # q
    <3>1. CASE q = i
      <4>1. CASE m \in ToSet(P[i].out)
        <5>1. m.round <= P[i].round /\ m.to # i
          BY <1>0, <4>1 DEF NothingEarly
        <5>2. m.round \in Nat
          <6>1. m.round \in 1..Rounds
            BY <1>0, <4>1, LettersAreMessages
          <6> QED BY <6>1
        <5> QED BY <1>1, <1>3, <3>1, <5>1, <5>2
      <4>2. CASE m \in ToSet(Sent(1, i, n))
        BY <1>1, <1>3, <1>5, <3>1, <4>2
      <4> QED BY <1>1, <1>3, <2>1, <3>1, <4>1, <4>2
    <3>2. CASE q # i
      BY <1>0, <1>3, <2>1, <3>2 DEF NothingEarly
    <3> QED BY <3>1, <3>2
  <2>2. ASSUME NEW q \in 1..n, NEW p \in 1..n, NEW m \in Q[p].got, m.slot = q PROVE m.round <= Q[q].round
    <3>1. m \in P[p].got /\ m \in KeptSet(n)
      BY <1>2, <1>4, <2>2
    <3>2. m.round <= P[q].round /\ m.round \in Nat
      BY <1>0, <2>2, <3>1 DEF NothingEarly, KeptSet
    <3> QED BY <1>1, <1>2, <1>3, <3>2
  <2> QED BY <2>1, <2>2 DEF NothingEarly
<1>8. RoundsPassed(Q, n)
  <2> SUFFICES ASSUME NEW p \in 1..n, NEW r \in 1..(Q[p].round - 1) PROVE HasAll(Q[p].got, r, p, n)
    BY DEF RoundsPassed
  <2>1. p # i
    BY <1>1, <1>3
  <2> QED BY <1>0, <1>3, <2>1 DEF RoundsPassed
<1>9. ASSUME NEW q \in (1..n) \ {i}, NEW r \in 1..Rounds PROVE ~HasAll(P[q].got, r, q, n)
  <2>1. SUFFICES ASSUME HasAll(P[q].got, r, q, n) PROVE FALSE
    OBVIOUS
  <2>2. PICK m \in P[q].got : m.round = r /\ m.slot = i
    BY <2>1, AllMeansEach
  <2>3. m.round <= P[i].round
    BY <1>0, <2>2 DEF NothingEarly
  <2> QED BY <2>2, <2>3
<1>10. OnlyTheLast(Q, n)
  <2>1. ASSUME NEW p \in 1..n, Unaware(Q, p, n) PROVE p = i
    BY <1>3, <1>9, <2>1 DEF Unaware
  <2>2. ASSUME NEW m \in P[i].got PROVE m.round = 1
    <3>1. m.round \in 1..Rounds /\ m.slot \in 1..n
      BY <1>2, <2>2 DEF KeptSet
    <3>2. m.round <= P[m.slot].round
      BY <1>0, <2>2, <3>1 DEF NothingEarly
    <3>3. m.slot # i
      BY <3>1, <3>2
    <3>4. ASSUME m.round # 1 PROVE FALSE
      <4>1. 1 \in 1..(P[m.slot].round - 1)
        BY <1>2, <3>1, <3>2, <3>4
      <4>2. HasAll(P[m.slot].got, 1, m.slot, n)
        BY <1>0, <3>1, <4>1 DEF RoundsPassed
      <4> QED BY <1>2, <1>9, <3>1, <3>3, <4>2
    <3> QED BY <3>4
  <2> QED BY <1>1, <1>3, <2>1, <2>2 DEF OnlyTheLast
<1>11. ResultsKept(Q, n, D)
  BY <1>0, <1>1, <1>2, <1>3 DEF ResultsKept
<1>12. Protocol(Q, n, D)
  BY <1>3, <1>6, <1>7, <1>8, <1>10, <1>11 DEF Protocol
<1> QED BY <1>0, <1>12 DEF Q, u

\* What a party with more messages has.
LEMMA HasAllGrows ==
  ASSUME NEW got, NEW more, got \subseteq more, NEW r, NEW me, NEW n, HasAll(got, r, me, n)
  PROVE  HasAll(more, r, me, n)
BY DEF HasAll

\* The oldest message of the party at i goes to everybody else, or to the one it is for.
Routed(P, i, n) ==
  LET m == Head(P[i].out)
  IN  [j \in 1..n |-> IF j = i THEN [P[j] EXCEPT !.out = Tail(@)]
                      ELSE IF m.to \in {Everybody, j} THEN Updated(P[j], Kept(m, i), j, n) ELSE P[j]]

\* Routing one message leaves the protocol in order.
LEMMA ProtocolRoutes ==
  ASSUME NEW n \in Nat, NEW P, NEW D, Protocol(P, n, D), NEW i \in 1..n, P[i].out # <<>>
  PROVE  Protocol(Routed(P, i, n), n, D)
<1> DEFINE Q == Routed(P, i, n)
           m == Head(P[i].out)
           k == Kept(m, i)
           At(j) == j # i /\ m.to \in {Everybody, j}
<1>0. /\ P \in [1..n -> PartySet(n)] /\ NothingLost(P, n) /\ NothingEarly(P, n)
      /\ RoundsPassed(P, n) /\ OnlyTheLast(P, n) /\ ResultsKept(P, n, D)
  BY DEF Protocol
<1>1. /\ Rounds \in Nat /\ Rounds >= 2
      /\ \A p \in 1..n : /\ P[p].round \in 0..(Rounds + 1) /\ P[p].got \subseteq KeptSet(n)
                         /\ P[p].out \in Seq(MessageSet(n))
  BY <1>0, EmitsAssumption DEF Rounds, PartySet
<1>2. /\ m \in ToSet(P[i].out) /\ Tail(P[i].out) \in Seq(MessageSet(n))
      /\ ToSet(Tail(P[i].out)) \subseteq ToSet(P[i].out)
      /\ \A x \in ToSet(P[i].out) : x = m \/ x \in ToSet(Tail(P[i].out))
  <2> DEFINE out == P[i].out
  <2>1. out \in Seq(MessageSet(n)) /\ out # <<>>
    BY <1>1
  <2> HIDE DEF out
  <2>2. /\ Len(out) \in Nat /\ Len(out) >= 1 /\ DOMAIN out = 1..Len(out) /\ Head(out) = out[1]
        /\ Tail(out) \in Seq(MessageSet(n)) /\ Len(Tail(out)) = Len(out) - 1
        /\ DOMAIN Tail(out) = 1..(Len(out) - 1)
        /\ \A j \in 1..(Len(out) - 1) : Tail(out)[j] = out[j + 1]
    BY <2>1
  <2>3. Head(out) \in ToSet(out)
    BY <2>2 DEF ToSet
  <2>4. ASSUME NEW x \in ToSet(Tail(out)) PROVE x \in ToSet(out)
    BY <2>2, <2>4 DEF ToSet
  <2>5. ASSUME NEW x \in ToSet(out) PROVE x = Head(out) \/ x \in ToSet(Tail(out))
    <3>1. PICK j \in 1..Len(out) : x = out[j]
      BY <2>2 DEF ToSet
    <3>2. CASE j = 1
      BY <2>2, <3>1, <3>2
    <3>3. CASE j # 1
      <4>1. j - 1 \in 1..(Len(out) - 1) /\ Tail(out)[j - 1] = x
        BY <2>2, <3>1, <3>3
      <4> QED BY <2>2, <4>1 DEF ToSet
    <3> QED BY <3>2, <3>3
  <2> QED BY <2>2, <2>3, <2>4, <2>5 DEF out
<1>3. /\ m.round \in 1..Rounds /\ m.to \in 0..n
      /\ m.round <= P[i].round /\ m.to # i
  BY <1>0, <1>2, LettersAreMessages DEF NothingEarly
<1> HIDE DEF m
<1>4. k \in KeptSet(n) /\ k.round = m.round /\ k.slot = i /\ k.kind = KindOf(m)
  BY <1>3 DEF Kept, KindOf, KeptSet
<1>5. Q = [j \in 1..n |-> IF j = i THEN [P[j] EXCEPT !.out = Tail(@)]
                          ELSE IF m.to \in {Everybody, j} THEN Updated(P[j], k, j, n) ELSE P[j]]
  BY DEF Routed, m
<1> HIDE DEF Q, k
\* the sender
<1>6. /\ Q[i] = [P[i] EXCEPT !.out = Tail(@)]
      /\ Q[i] \in PartySet(n) /\ Q[i].out = Tail(P[i].out)
      /\ Q[i].round = P[i].round /\ Q[i].got = P[i].got /\ Q[i].end = P[i].end
  BY <1>0, <1>2, <1>5 DEF PartySet
\* whom the message is not for
<1>7. ASSUME NEW j \in 1..n, j # i, ~At(j) PROVE Q[j] = P[j]
  BY <1>5, <1>7
\* whom it is for
<1>8. ASSUME NEW j \in 1..n, At(j) PROVE Grows(P[j], Q[j], k, j, n, n)
  <2>1. Q[j] = Updated(P[j], k, j, n)
    BY <1>5, <1>8
  <2>2. j \in Nat \ {0} /\ n \in 0..n /\ P[j] \in PartySet(n)
    BY <1>0
  <2>3. Grows(P[j], Updated(P[j], k, j, n), k, j, n, n)
    BY <1>4, <2>2, UpdatedParty
  <2> QED BY <2>1, <2>3
<1>9. ASSUME NEW j \in 1..n
      PROVE  /\ Q[j] \in PartySet(n) /\ Q[j].round \in 0..(Rounds + 1) /\ P[j].round <= Q[j].round
             /\ P[j].got \subseteq Q[j].got
             /\ \A x \in Q[j].got : x \in P[j].got \/ x = k
  <2>1. CASE j = i
    <3>1. P[i].round \in 0..(Rounds + 1) /\ P[i].round <= P[i].round
      BY <1>1
    <3> QED BY <1>6, <2>1, <3>1
  <2>2. CASE j # i /\ ~At(j)
    BY <1>0, <1>1, <1>7, <2>2
  <2>3. CASE At(j)
    <3>1. P[j].round = 0 \/ P[j].round # 0
      OBVIOUS
    <3>2. Q[j].round \in 0..(Rounds + 1) /\ P[j].round <= Q[j].round
      BY <1>1, <1>8, <2>3, <3>1 DEF Grows
    <3>3. Q[j] \in PartySet(n) /\ Q[j].got = P[j].got \cup {k}
      BY <1>8, <2>3 DEF Grows
    <3> QED BY <3>2, <3>3
  <2> QED BY <2>1, <2>2, <2>3
<1>10. Q \in [1..n -> PartySet(n)]
  BY <1>5, <1>9
<1>11. ASSUME NEW q \in 1..n, NEW r \in 1..Rounds
       PROVE  /\ \A kind \in Emits[r], j \in (1..n) \ {q} : Letter(r, kind, j) \in ToSet(Sent(r, q, n))
              /\ \A x \in ToSet(Sent(r, q, n)) : x.round = r /\ x.to # q
  BY SentByPlace
<1>12. NothingLost(Q, n)
  <2> SUFFICES ASSUME NEW q \in 1..n, NEW p \in (1..n) \ {q}, NEW r \in 1..Rounds, NEW kind \in Emits[r],
                      r <= Q[q].round
               PROVE  \/ [round |-> r, kind |-> kind, slot |-> q] \in Q[p].got
                      \/ Letter(r, kind, p) \in ToSet(Q[q].out)
    BY DEF NothingLost
  <2>1. CASE r <= P[q].round
    <3>1. \/ [round |-> r, kind |-> kind, slot |-> q] \in P[p].got
          \/ Letter(r, kind, p) \in ToSet(P[q].out)
      BY <1>0, <2>1 DEF NothingLost
    <3>2. CASE [round |-> r, kind |-> kind, slot |-> q] \in P[p].got
      BY <1>9, <3>2
    <3>3. CASE Letter(r, kind, p) \in ToSet(P[q].out)
      <4>1. CASE q = i /\ Letter(r, kind, p) = m
        <5>1. kind \in {"p2p", "broadcast"}
          BY EmitsAssumption DEF Rounds
        <5>2. At(p) /\ KindOf(m) = kind /\ m.round = r
          BY <4>1, <5>1 DEF Letter, KindOf, Everybody
        <5>3. k \in Q[p].got
          BY <1>8, <5>2 DEF Grows
        <5>4. k = [round |-> r, kind |-> kind, slot |-> q]
          BY <4>1, <5>2 DEF k, Kept
        <5> QED BY <5>3, <5>4
      <4>2. CASE q = i /\ Letter(r, kind, p) # m
        BY <1>2, <1>6, <3>3, <4>2
      <4>3. CASE q # i
        BY <1>7, <1>8, <3>3, <4>3 DEF Grows
      <4> QED BY <4>1, <4>2, <4>3
    <3> QED BY <3>1, <3>2, <3>3
  <2>2. CASE ~(r <= P[q].round)
    <3>0. Q[q].round # P[q].round /\ r \in (P[q].round + 1)..Q[q].round
      BY <1>1, <1>9, <2>2
    <3>1. At(q)
      BY <1>6, <1>7, <3>0
    <3>2. ToSet(Sent(r, q, n)) \subseteq ToSet(Q[q].out)
      BY <1>8, <3>0, <3>1 DEF Grows
    <3> QED BY <1>11, <3>2
  <2> QED BY <2>1, <2>2
<1>13. NothingEarly(Q, n)
  <2>1. ASSUME NEW q \in 1..n, NEW x \in ToSet(Q[q].out) PROVE x.round <= Q[q].round /\ x.to # q
    <3>1. CASE x \in ToSet(P[q].out)
      <4>1. x.round <= P[q].round /\ x.to # q /\ x.round \in 1..Rounds
        BY <1>0, <3>1, LettersAreMessages DEF NothingEarly
      <4> QED BY <1>1, <1>9, <4>1
    <3>2. CASE x \notin ToSet(P[q].out)
      <4>1. At(q)
        BY <1>2, <1>6, <1>7, <2>1, <3>2
      <4>2. PICK r \in (P[q].round + 1)..Q[q].round : r <= Rounds /\ x \in ToSet(Sent(r, q, n))
        BY <1>8, <2>1, <3>2, <4>1 DEF Grows
      <4>3. r \in 1..Rounds /\ r <= Q[q].round
        BY <1>1, <1>9, <4>2
      <4> QED BY <1>11, <4>2, <4>3
    <3> QED BY <3>1, <3>2
  <2>2. ASSUME NEW q \in 1..n, NEW p \in 1..n, NEW x \in Q[p].got, x.slot = q PROVE x.round <= Q[q].round
    <3>1. CASE x \in P[p].got
      <4>1. x.round <= P[q].round /\ x.round \in 1..Rounds
        BY <1>0, <1>1, <2>2, <3>1 DEF NothingEarly, KeptSet
      <4> QED BY <1>1, <1>9, <4>1
    <3>2. CASE x = k
      BY <1>3, <1>4, <1>6, <2>2, <3>2
    <3> QED BY <1>9, <2>2, <3>1, <3>2
  <2> QED BY <2>1, <2>2 DEF NothingEarly
<1>14. RoundsPassed(Q, n)
  <2> SUFFICES ASSUME NEW p \in 1..n, NEW r \in 1..(Q[p].round - 1) PROVE HasAll(Q[p].got, r, p, n)
    BY DEF RoundsPassed
  <2>1. CASE r \in 1..(P[p].round - 1)
    <3>1. HasAll(P[p].got, r, p, n)
      BY <1>0, <2>1 DEF RoundsPassed
    <3> QED BY <1>9, <3>1, HasAllGrows
  <2>2. CASE r \notin 1..(P[p].round - 1)
    <3>1. Q[p].round # P[p].round /\ Q[p].round # 0
      BY <1>1, <1>9, <2>2
    <3>2. At(p)
      BY <1>6, <1>7, <3>1
    <3>3. P[p].round # 0
      BY <1>8, <3>1, <3>2 DEF Grows
    <3>4. r \in P[p].round..(Q[p].round - 1)
      BY <1>1, <1>9, <2>2, <3>3
    <3> QED BY <1>8, <3>2, <3>3, <3>4 DEF Grows
  <2> QED BY <2>1, <2>2
<1>15. OnlyTheLast(Q, n)
  <2>1. ASSUME NEW p \in 1..n, Unaware(Q, p, n)
        PROVE  Unaware(P, p, n) /\ Q[p].round = P[p].round /\ Q[p].got = P[p].got
    <3>1. Q[p].round \in 1..Rounds /\ HasAll(Q[p].got, Q[p].round, p, n)
      BY <2>1 DEF Unaware
    <3>2. ASSUME At(p) PROVE FALSE
      <4>1. Grows(P[p], Q[p], k, p, n, n)
        BY <1>8, <3>2
      <4>2. Q[p].round \in 1..Rounds => ~HasAll(Q[p].got, Q[p].round, p, n)
        BY <4>1 DEF Grows
      <4> QED BY <3>1, <4>2
    <3>3. Q[p].round = P[p].round /\ Q[p].got = P[p].got
      BY <1>6, <1>7, <3>2
    <3> QED BY <3>1, <3>3 DEF Unaware
  <2> QED BY <1>0, <2>1 DEF OnlyTheLast
<1>16. ResultsKept(Q, n, D)
  <2> SUFFICES ASSUME NEW p \in 1..n, Q[p].round = Rounds + 1 PROVE Q[p].end \/ p \in D
    BY DEF ResultsKept
  <2>1. CASE At(p) /\ P[p].round # Rounds + 1
    BY <1>8, <2>1 DEF Grows
  <2>2. CASE P[p].round = Rounds + 1
    <3>1. P[p].end \/ p \in D
      BY <1>0, <2>2 DEF ResultsKept
    <3> QED BY <1>6, <1>7, <1>8, <3>1 DEF Grows
  <2>3. CASE ~At(p)
    BY <1>6, <1>7, <2>2, <2>3
  <2> QED BY <2>1, <2>2, <2>3
<1> QED BY <1>10, <1>12, <1>13, <1>14, <1>15, <1>16 DEF Protocol, Q

\* The result of the party at i is taken.
LEMMA ProtocolEnds ==
  ASSUME NEW n \in Nat, NEW P, NEW D, Protocol(P, n, D), NEW i \in 1..n
  PROVE  Protocol([P EXCEPT ![i].end = FALSE], n, D \cup {i})
<1> DEFINE Q == [P EXCEPT ![i].end = FALSE]
<1>0. /\ P \in [1..n -> PartySet(n)] /\ NothingLost(P, n) /\ NothingEarly(P, n)
      /\ RoundsPassed(P, n) /\ OnlyTheLast(P, n) /\ ResultsKept(P, n, D)
  BY DEF Protocol
<1>1. Q \in [1..n -> PartySet(n)]
  BY <1>0 DEF PartySet
<1>2. \A p \in 1..n : /\ Q[p].round = P[p].round /\ Q[p].got = P[p].got /\ Q[p].out = P[p].out
                      /\ p # i => Q[p] = P[p]
  BY <1>0 DEF PartySet
<1> HIDE DEF Q
<1>3. NothingLost(Q, n)
  BY <1>0, <1>2 DEF NothingLost
<1>4. NothingEarly(Q, n) /\ RoundsPassed(Q, n)
  BY <1>0, <1>2 DEF NothingEarly, RoundsPassed
<1>5. ASSUME NEW p \in 1..n PROVE Unaware(Q, p, n) <=> Unaware(P, p, n)
  BY <1>2 DEF Unaware
<1>6. OnlyTheLast(Q, n)
  BY <1>0, <1>2, <1>5 DEF OnlyTheLast
<1>7. ResultsKept(Q, n, D \cup {i})
  BY <1>0, <1>2 DEF ResultsKept
<1> QED BY <1>1, <1>3, <1>4, <1>6, <1>7 DEF Protocol, Q

\* Parties that have all been started, with nothing under way, are all through: one that
\* waits in a round waits for a message somebody else has sent or will send.
LEMMA NobodyWaits ==
  ASSUME NEW n \in Nat, n >= 2, NEW P, NEW D, Protocol(P, n, D),
         \A p \in 1..n : P[p].out = <<>> /\ ~P[p].end /\ P[p].round # 0
  PROVE  \A p \in 1..n : p \in D
<1> SUFFICES ASSUME NEW late \in 1..n, late \notin D PROVE FALSE
  OBVIOUS
<1>0. /\ P \in [1..n -> PartySet(n)] /\ NothingLost(P, n) /\ OnlyTheLast(P, n) /\ ResultsKept(P, n, D)
  BY DEF Protocol
<1>1. /\ Rounds \in Nat /\ Rounds >= 2
      /\ \A p \in 1..n : P[p].round \in 1..(Rounds + 1)
  BY <1>0, EmitsAssumption DEF Rounds, PartySet
<1>2. P[late].round \in 1..Rounds
  BY <1>0, <1>1 DEF ResultsKept
<1> DEFINE T == {r \in 1..(Rounds + 1) : \E p \in 1..n : P[p].round = r}
<1>3. PICK R \in T : \A r \in T : R <= r
  <2>1. T \in SUBSET Nat /\ P[late].round \in T
    BY <1>1
  <2> HIDE DEF T
  <2> QED BY <2>1, LeastNatural
<1>4. PICK p \in 1..n : P[p].round = R
  BY <1>3
<1>5. /\ \A q \in 1..n : R <= P[q].round
      /\ R \in 1..Rounds
  <2>1. \A q \in 1..n : P[q].round \in T
    BY <1>1
  <2>2. \A q \in 1..n : R <= P[q].round
    BY <1>3, <2>1
  <2> QED BY <1>1, <1>2, <1>3, <2>2
\* what has been sent has come
<1>6. ASSUME NEW q \in 1..n, NEW o \in (1..n) \ {q}, NEW r \in 1..Rounds, NEW kind \in Emits[r], r <= P[q].round
      PROVE  [round |-> r, kind |-> kind, slot |-> q] \in P[o].got
  <2>1. ToSet(P[q].out) = {}
    BY DEF ToSet
  <2> QED BY <1>0, <1>6, <2>1 DEF NothingLost
<1>7. ASSUME NEW o \in 1..n, P[o].round = R PROVE Unaware(P, o, n)
  <2>1. HasAll(P[o].got, R, o, n)
    BY <1>5, <1>6 DEF HasAll
  <2> QED BY <1>5, <1>7, <2>1 DEF Unaware
<1>8. R = 1 /\ \A m \in P[p].got : m.round = 1
  BY <1>0, <1>4, <1>7 DEF OnlyTheLast
<1>9. PICK q \in 1..n : q # p
  <2>1. 1 \in 1..n /\ 2 \in 1..n
    OBVIOUS
  <2> QED BY <2>1
<1>10. P[q].round = 1
  <2>1. SUFFICES ASSUME P[q].round # 1 PROVE FALSE
    OBVIOUS
  <2>2. 2 \in 1..Rounds /\ 2 <= P[q].round
    BY <1>1, <2>1
  <2>3. PICK kind : kind \in Emits[2]
    BY <2>2, EmitsAssumption DEF Rounds
  <2>4. [round |-> 2, kind |-> kind, slot |-> q] \in P[p].got
    BY <1>6, <1>9, <2>2, <2>3
  <2> QED BY <1>8, <2>4
<1>11. Unaware(P, p, n) /\ Unaware(P, q, n)
  BY <1>4, <1>7, <1>8, <1>10
<1> QED BY <1>0, <1>9, <1>11 DEF OnlyTheLast
=============================================================================
