------------------------ MODULE RelayMessages_proofs ------------------------
(* Queues of message ids, for any devices, sessions, sends, acknowledgements,  *)
(* TTLs and failures.                                                         *)
EXTENDS RelayMessages, Integers, FiniteSetTheorems, SequenceTheorems, WellFoundedInduction, TLAPS

\* A set of naturals has a least one, if it has any.
LEMMA LeastNatural ==
  ASSUME NEW T \in SUBSET Nat, T # {}
  PROVE  \E x \in T : \A y \in T : x <= y
<1> DEFINE R == OpToRel(<, Nat)
<1>1. \A x, y \in Nat : y < x => <<y, x>> \in R
  BY DEF OpToRel
<1>2. IsWellFoundedOn(R, Nat)
  BY NatLessThanWellFounded, Zenon
<1> HIDE DEF R
<1>3. PICK x \in T : \A y \in T : ~ (<<y, x>> \in R)
  BY <1>2, WFMin
<1>4. \A y \in T : ~(y < x)
  BY <1>1, <1>3
<1> QED BY <1>4

\* The lists laid end to end, up to each of the first k.
Chained(g, ss, k) == g = [i \in 1..k |-> IF i = 1 THEN ss[i] ELSE g[i - 1] \o ss[i]]

LEMMA ChainStep ==
  ASSUME NEW ss, NEW k \in Nat, k >= 1, NEW h, Chained(h, ss, k)
  PROVE  \E g : Chained(g, ss, k + 1)
<1> DEFINE g == [i \in 1..(k + 1) |-> IF i <= k THEN h[i] ELSE h[k] \o ss[k + 1]]
           G == [i \in 1..(k + 1) |-> IF i = 1 THEN ss[i] ELSE g[i - 1] \o ss[i]]
<1>1. \A i \in 1..k : h[i] = IF i = 1 THEN ss[i] ELSE h[i - 1] \o ss[i]
  BY DEF Chained
<1>2. ASSUME NEW i \in 1..(k + 1) PROVE g[i] = G[i]
  <2>1. CASE i = 1
    BY <1>1, <2>1
  <2>2. CASE i # 1 /\ i <= k
    <3>1. i \in 1..k /\ i - 1 \in 1..(k + 1) /\ i - 1 <= k
      BY <2>2
    <3>2. g[i] = h[i] /\ g[i - 1] = h[i - 1]
      BY <3>1
    <3> HIDE DEF g
    <3> QED BY <1>1, <2>2, <3>1, <3>2
  <2>3. CASE i = k + 1
    <3>1. k \in 1..(k + 1) /\ i - 1 = k /\ i # 1 /\ ~(i <= k)
      BY <2>3
    <3>2. g[k + 1] = h[k] \o ss[k + 1]
      <4>1. k + 1 \in 1..(k + 1) /\ ~(k + 1 <= k)
        OBVIOUS
      <4> QED BY <4>1
    <3>3. g[k] = h[k]
      BY <3>1
    <3>4. G[k + 1] = g[k] \o ss[k + 1]
      BY <2>3, <3>1
    <3> HIDE DEF g, G
    <3> QED BY <2>3, <3>2, <3>3, <3>4
  <2> QED BY <2>1, <2>2, <2>3
<1>3. g = G
  BY <1>2
<1> QED BY <1>3 DEF Chained

LEMMA ChainExists ==
  ASSUME NEW ss, NEW n \in Nat, n >= 1
  PROVE  \E g : Chained(g, ss, n)
<1> DEFINE T == {k \in Nat : k >= 1 /\ ~ \E g : Chained(g, ss, k)}
<1>1. SUFFICES ASSUME T # {} PROVE FALSE
  OBVIOUS
<1>2. PICK k \in T : \A y \in T : k <= y
  <2>1. T \in SUBSET Nat
    OBVIOUS
  <2> HIDE DEF T
  <2> QED BY <1>1, <2>1, LeastNatural
<1>3. k # 1
  <2>1. Chained([i \in 1..1 |-> ss[1]], ss, 1)
    BY DEF Chained
  <2> QED BY <1>2, <2>1
<1>4. k - 1 \in Nat /\ k - 1 >= 1 /\ k - 1 \notin T
  BY <1>2, <1>3
<1>5. PICK h : Chained(h, ss, k - 1)
  BY <1>4
<1>6. \E g : Chained(g, ss, k - 1 + 1)
  BY <1>4, <1>5, ChainStep
<1> QED BY <1>2, <1>6

\* Lists of members, laid end to end, are a list of members.
LEMMA ListOfLists ==
  ASSUME NEW S, NEW ss \in Seq(Seq(S))
  PROVE  FlattenSeq(ss) \in Seq(S)
<1> DEFINE n == Len(ss)
           flat == CHOOSE g : Chained(g, ss, n)
<1>0. n \in Nat /\ DOMAIN ss = 1..n /\ \A i \in 1..n : ss[i] \in Seq(S)
  OBVIOUS
<1>1. CASE n = 0
  <2>1. FlattenSeq(ss) = ss /\ ss = <<>>
    BY <1>0, <1>1 DEF FlattenSeq
  <2> QED BY <2>1
<1>2. CASE n # 0
  <2>1. FlattenSeq(ss) = flat[n]
    BY <1>2 DEF FlattenSeq, Chained
  <2>2. Chained(flat, ss, n)
    <3>1. n >= 1
      BY <1>0, <1>2
    <3> HIDE DEF n
    <3>2. \E g : Chained(g, ss, n)
      BY <1>0, <3>1, ChainExists
    <3> QED BY <3>2
  <2> HIDE DEF flat, n
  <2>3. \A i \in 1..n : flat[i] = IF i = 1 THEN ss[i] ELSE flat[i - 1] \o ss[i]
    BY <2>2 DEF Chained
  <2> DEFINE T == {k \in 1..n : flat[k] \notin Seq(S)}
  <2>4. T = {}
    <3>1. SUFFICES ASSUME T # {} PROVE FALSE
      OBVIOUS
    <3>2. PICK k \in T : \A y \in T : k <= y
      <4>1. T \in SUBSET Nat
        BY <1>0
      <4> HIDE DEF T
      <4> QED BY <3>1, <4>1, LeastNatural
    <3>3. k \in 1..n /\ k # 1
      BY <1>0, <2>3, <3>2
    <3>4. k - 1 \in 1..n /\ k - 1 \notin T
      BY <1>0, <3>2, <3>3
    <3>5. flat[k - 1] \in Seq(S) /\ ss[k] \in Seq(S)
      BY <1>0, <3>3, <3>4
    <3>6. flat[k] = flat[k - 1] \o ss[k]
      BY <2>3, <3>3
    <3>7. flat[k] \in Seq(S)
      BY <3>5, <3>6, ConcatProperties
    <3> QED BY <3>2, <3>7
  <2> QED BY <1>0, <1>2, <2>1, <2>4
<1> QED BY <1>1, <1>2

\* Whoever a send goes to is a device.
LEMMA RecipientsAreDevices ==
  ASSUME NEW snd \in Send, NEW s \in Session,
         NEW list \in ToLists[snd], NEW broadcast \in BOOLEAN
  PROVE  Recipients(s, From[snd], list, broadcast) \in Seq(Device)
<1> DEFINE ps == Parties[s]
           others == [i \in DOMAIN ps |-> IF ps[i] = From[snd] THEN <<>> ELSE <<ps[i]>>]
<1>1. ps \in Seq(Device) /\ list \in Seq(Device)
  BY ListsAssumption
<1>2. FlattenSeq(others) \in Seq(Device)
  <2>1. Len(ps) \in Nat /\ DOMAIN ps = 1..Len(ps) /\ \A i \in 1..Len(ps) : ps[i] \in Device
    BY <1>1
  <2>2. \A i \in 1..Len(ps) : others[i] \in Seq(Device)
    BY <2>1
  <2>3. others \in Seq(Seq(Device))
    <3> DEFINE len == Len(ps)
    <3>1. others \in [1..len -> Seq(Device)] /\ len \in Nat
      BY <2>1, <2>2
    <3> HIDE DEF others, len
    <3> QED BY <3>1
  <2> HIDE DEF others
  <2> QED BY <2>3, ListOfLists
<1>3. Recipients(s, From[snd], list, broadcast) = IF broadcast THEN FlattenSeq(others) ELSE list
  BY DEF Recipients
<1> HIDE DEF others
<1> QED BY <1>1, <1>2, <1>3

\* A list without its k-th member has the others in their order.
LEMMA WithoutOne ==
  ASSUME NEW S, NEW seq \in Seq(S), NEW k \in 1..Len(seq)
  PROVE  /\ RemoveAt(seq, k) \in Seq(S)
         /\ Len(RemoveAt(seq, k)) = Len(seq) - 1
         /\ \A i \in 1..(Len(seq) - 1) : RemoveAt(seq, k)[i] = seq[IF i < k THEN i ELSE i + 1]
<1> DEFINE n == Len(seq)
           a == SubSeq(seq, 1, k - 1)
           b == SubSeq(seq, k + 1, n)
<1>1. n \in Nat /\ k \in 1..n
  OBVIOUS
<1>2. a \in Seq(S) /\ Len(a) = k - 1 /\ \A i \in 1..(k - 1) : a[i] = seq[i]
  OBVIOUS
<1>3. b \in Seq(S) /\ Len(b) = n - k /\ \A i \in 1..(n - k) : b[i] = seq[k + i]
  OBVIOUS
<1>4. RemoveAt(seq, k) = a \o b
  BY DEF RemoveAt
<1> HIDE DEF n, a, b
<1>5. Len(a \o b) = n - 1 /\ a \o b \in Seq(S)
  <2>1. a \o b \in Seq(S) /\ Len(a \o b) = Len(a) + Len(b)
    BY <1>2, <1>3, ConcatProperties
  <2> QED BY <1>1, <1>2, <1>3, <2>1
<1>6. ASSUME NEW i \in 1..(n - 1) PROVE (a \o b)[i] = seq[IF i < k THEN i ELSE i + 1]
  <2>1. CASE i < k
    <3>1. i \in 1..(k - 1) /\ i <= Len(a) /\ i \in 1..(Len(a) + Len(b))
      BY <1>1, <1>2, <1>3, <2>1
    <3>2. (a \o b)[i] = a[i]
      BY <1>2, <1>3, <3>1
    <3> QED BY <1>2, <2>1, <3>1, <3>2
  <2>2. CASE ~(i < k)
    <3>1. i - (k - 1) \in 1..(n - k) /\ i > Len(a) /\ i \in 1..(Len(a) + Len(b))
      BY <1>1, <1>2, <1>3, <2>2
    <3>2. (a \o b)[i] = b[i - Len(a)]
      BY <1>2, <1>3, <3>1
    <3>3. b[i - Len(a)] = seq[k + (i - (k - 1))]
      BY <1>2, <1>3, <3>1
    <3> QED BY <1>1, <2>2, <3>2, <3>3
  <2> QED BY <2>1, <2>2
<1> QED BY <1>4, <1>5, <1>6 DEF n

\* RemoveFirst finds a place of the member, or leaves a list without it alone.
LEMMA RemovedFirst ==
  ASSUME NEW S, NEW seq \in Seq(S), NEW e
  PROVE  \/ e \notin ToSet(seq) /\ RemoveFirst(seq, e) = seq
         \/ \E k \in 1..Len(seq) : seq[k] = e /\ RemoveFirst(seq, e) = RemoveAt(seq, k)
<1> DEFINE I == {i \in 1..Len(seq) : seq[i] = e}
<1>0. RemoveFirst(seq, e) = IF \E i \in 1..Len(seq) : seq[i] = e
                            THEN RemoveAt(seq, IF I # {} THEN Min(I) ELSE 0) ELSE seq
  BY DEF RemoveFirst, SelectInSeq
<1>1. CASE I = {}
  BY <1>0, <1>1 DEF ToSet
<1>2. CASE I # {}
  <2>1. \E x \in I : \A y \in I : x <= y
    <3>1. I \in SUBSET Nat
      OBVIOUS
    <3> HIDE DEF I
    <3> QED BY <1>2, <3>1, LeastNatural
  <2>2. Min(I) \in I
    <3> HIDE DEF I
    <3> QED BY <2>1 DEF Min
  <2>3. RemoveFirst(seq, e) = RemoveAt(seq, Min(I))
    BY <1>0, <1>2
  <2> QED BY <2>2, <2>3
<1> QED BY <1>1, <1>2

-----------------------------------------------------------------------------

USE DEF To

\* The places a send is at, and the TTLs of what is stored.
PlacesOK ==
  /\ \A s \in Send : /\ at[s] >= 1
                     /\ spc[s] = "new" => rcpt[s] = <<>> /\ at[s] = 1
                     /\ spc[s] \in {"store", "push", "expire", "publish"} => at[s] <= Len(rcpt[s])
                     /\ spc[s] = "sent" => Len(rcpt[s]) <= at[s]
  /\ \A a \in Ack : apc[a] # "idle" => areq[a] \in MsgId
  /\ \A m \in MsgId : msg[m] # NoMessage => msg[m].exp = Never \/ msg[m].exp > now

TypeInv == TypeOK /\ PlacesOK

\* The initial state has its types.
LEMMA InitType == Init => TypeInv
<1> SUFFICES ASSUME Init PROVE TypeInv
  OBVIOUS
<1>1. TypeOK
  BY SizeAssumption DEF Init, TypeOK, Never
<1>2. PlacesOK
  BY DEF Init, PlacesOK, TypeOK
<1> QED BY <1>1, <1>2 DEF TypeInv

\* The recipient a send is at is a device.
LEMMA DestIsDevice ==
  ASSUME TypeInv, NEW s \in Send, spc[s] \in {"store", "push", "expire", "publish"}
  PROVE  /\ at[s] \in DOMAIN rcpt[s] /\ Dest(s) \in Device
         /\ <<s, Dest(s)>> \in MsgId
BY DEF TypeInv, TypeOK, PlacesOK, Dest, MsgId

\* Commands whose failure nobody sees are counted by their devices.
LEMMA UncheckedDropped ==
  ASSUME TypeInv, NEW d \in Device,
         UNCHANGED dropped \/ (Len(dropped) < MaxDropped /\ dropped' = Append(dropped, d))
  PROVE  /\ dropped' \in Seq(Device) /\ Len(dropped') <= MaxDropped
         /\ ToSet(dropped) \subseteq ToSet(dropped')
<1>1. dropped \in Seq(Device) /\ Len(dropped) \in Nat /\ Len(dropped) <= MaxDropped
  BY DEF TypeInv, TypeOK
<1>2. CASE UNCHANGED dropped
  BY <1>1, <1>2
<1>3. CASE Len(dropped) < MaxDropped /\ dropped' = Append(dropped, d)
  <2>1. /\ dropped' \in Seq(Device) /\ Len(dropped') = Len(dropped) + 1
        /\ \A i \in 1..Len(dropped) : dropped'[i] = dropped[i]
    BY <1>1, <1>3
  <2>2. ToSet(dropped) \subseteq ToSet(dropped')
    BY <1>1, <2>1 DEF ToSet
  <2> QED BY <1>1, <1>3, <2>1, <2>2, SizeAssumption
<1> QED BY <1>2, <1>3

\* A queue without one id is a queue.
LEMMA RemovedIsQueue ==
  ASSUME NEW q \in Seq(MsgId), NEW m
  PROVE  RemoveFirst(q, m) \in Seq(MsgId)
BY RemovedFirst, WithoutOne

\* Every action keeps the types.
LEMMA NextType == TypeInv /\ [Next]_vars => TypeInv'
<1> SUFFICES ASSUME TypeInv, [Next]_vars PROVE TypeInv'
  OBVIOUS
<1>0. TypeOK /\ PlacesOK /\ now \in Nat /\ TTL \in Nat \ {0}
  BY SizeAssumption DEF TypeInv, TypeOK
<1> USE DEF sending, acking, redis, Never
<1>1. CASE Tick
  <2>1. now' \in 0..MaxNow /\ now' = now + 1
    BY <1>0, <1>1, SizeAssumption DEF Tick
  <2>2. \A m \in MsgId : /\ msg'[m] \in {msg[m], NoMessage}
                         /\ msg'[m] # NoMessage => msg'[m].exp = Never \/ msg'[m].exp > now'
    <3> TAKE m \in MsgId
    <3>1. CASE msg[m] = NoMessage
      BY <1>1, <3>1 DEF Tick
    <3>2. CASE msg[m] # NoMessage
      <4>1. msg[m].exp \in Nat /\ (msg[m].exp = Never \/ msg[m].exp > now)
        BY <1>0, <3>2 DEF TypeOK, PlacesOK, Message
      <4> QED BY <1>0, <1>1, <2>1, <3>2, <4>1 DEF Tick, Ends
    <3> QED BY <3>1, <3>2
  <2>3. TypeOK'
    <3>1. msg' \in [MsgId -> Message \cup {NoMessage}]
      BY <1>0, <1>1, <2>2 DEF Tick, TypeOK
    <3>2. queue' \in [Device -> Seq(MsgId)] /\ qexp' \in [Device -> Nat]
      BY <1>0, <1>1 DEF Tick, TypeOK
    <3>3. cut' \subseteq MsgId
      <4>1. \A s \in Send : spc[s] = "expire" => <<s, Dest(s)>> \in MsgId
        BY DestIsDevice
      <4> QED BY <1>0, <1>1, <4>1 DEF Tick, TypeOK
    <3> QED BY <1>0, <1>1, <2>1, <3>1, <3>2, <3>3 DEF Tick, TypeOK
  <2> QED BY <1>0, <1>1, <2>2, <2>3 DEF Tick, TypeInv, PlacesOK
<1>2. ASSUME NEW s \in Send, Accept(s) PROVE TypeInv'
  <2>1. PICK list \in ToLists[s], broadcast \in BOOLEAN :
          rcpt' = [rcpt EXCEPT ![s] = Recipients(sid[s], From[s], list, broadcast)]
    BY <1>2 DEF Accept
  <2>2. Recipients(sid[s], From[s], list, broadcast) \in Seq(Device)
    BY <1>0, RecipientsAreDevices DEF TypeOK
  <2>3. rcpt' \in [Send -> Seq(Device)]
    BY <1>0, <2>1, <2>2 DEF TypeOK
  <2>4. TypeOK'
    BY <1>0, <1>2, <2>3 DEF Accept, TypeOK
  <2>5. \A t \in Send \ {s} : rcpt'[t] = rcpt[t] /\ spc'[t] = spc[t]
    BY <1>0, <1>2, <2>1 DEF Accept, TypeOK
  <2>6. spc'[s] = IF rcpt'[s] = <<>> THEN "sent" ELSE "store"
    BY <1>0, <1>2 DEF Accept, TypeOK
  <2>7. rcpt'[s] \in Seq(Device) /\ at[s] = 1 /\ UNCHANGED at
    BY <1>0, <1>2, <2>3 DEF Accept, PlacesOK
  <2>8. rcpt'[s] # <<>> => 1 <= Len(rcpt'[s])
    BY <2>7
  <2>9. PlacesOK'
    BY <1>0, <1>2, <2>5, <2>6, <2>7, <2>8 DEF PlacesOK, Accept
  <2> QED BY <2>4, <2>9 DEF TypeInv
<1>3. ASSUME NEW s \in Send, Refuse(s) PROVE TypeInv'
  BY <1>0, <1>3 DEF Refuse, TypeInv, TypeOK, PlacesOK
<1>4. ASSUME NEW s \in Send, SetMessage(s) PROVE TypeInv'
  <2>1. <<s, Dest(s)>> \in MsgId
    BY <1>4, DestIsDevice DEF SetMessage
  <2> DEFINE new == [sid |-> sid[s], delivered |-> FALSE, exp |-> now + TTL]
  <2>2. new \in Message /\ new.exp > now
    BY <1>0 DEF Message, TypeOK
  <2>3. msg' = [msg EXCEPT ![<<s, Dest(s)>>] = new]
    BY <1>4 DEF SetMessage
  <2> HIDE DEF new
  <2>4. TypeOK'
    BY <1>0, <1>4, <2>2, <2>3 DEF SetMessage, TypeOK
  <2>5. \A m \in MsgId : msg'[m] # NoMessage => msg'[m].exp = Never \/ msg'[m].exp > now
    BY <1>0, <2>1, <2>2, <2>3 DEF PlacesOK, TypeOK
  <2> QED BY <1>0, <1>4, <2>4, <2>5 DEF SetMessage, TypeInv, PlacesOK, TypeOK
<1>5. ASSUME NEW s \in Send, PushId(s) PROVE TypeInv'
  <2>1. <<s, Dest(s)>> \in MsgId /\ Dest(s) \in Device
    BY <1>5, DestIsDevice DEF PushId
  <2>2. queue' \in [Device -> Seq(MsgId)]
    <3>1. Append(queue[Dest(s)], <<s, Dest(s)>>) \in Seq(MsgId)
      BY <1>0, <2>1, AppendProperties DEF TypeOK
    <3> QED BY <1>0, <1>5, <2>1, <3>1 DEF PushId, TypeOK
  <2>3. spc' = [spc EXCEPT ![s] = "expire"] /\ spc[s] = "push"
    BY <1>5 DEF PushId
  <2>4. TypeOK'
    BY <1>0, <1>5, <2>2, <2>3 DEF PushId, TypeOK
  <2> QED BY <1>0, <1>5, <2>3, <2>4 DEF PushId, TypeInv, TypeOK, PlacesOK
<1>6. ASSUME NEW s \in Send, ExpireQueue(s) PROVE TypeInv'
  <2>1. Dest(s) \in Device
    BY <1>6, DestIsDevice DEF ExpireQueue
  <2>2. qexp' \in [Device -> Nat]
    <3>1. \/ qexp' = qexp
          \/ qexp' = [qexp EXCEPT ![Dest(s)] =
                        IF queue[Dest(s)] = <<>> THEN Never ELSE now + TTL]
      BY <1>6 DEF ExpireQueue, Unchecked
    <3>2. now + TTL \in Nat /\ qexp \in [Device -> Nat]
      BY <1>0 DEF TypeOK
    <3> QED BY <3>1, <3>2
  <2>3. dropped' \in Seq(Device) /\ Len(dropped') <= MaxDropped
    BY <1>6, <2>1, UncheckedDropped DEF ExpireQueue, Unchecked
  <2> QED BY <1>0, <1>6, <2>2, <2>3 DEF ExpireQueue, TypeInv, TypeOK, PlacesOK
<1>7. ASSUME NEW s \in Send, Publish(s) PROVE TypeInv'
  <2>1. at[s] \in Nat /\ Len(rcpt[s]) \in Nat /\ at[s] <= Len(rcpt[s])
    BY <1>0, <1>7 DEF Publish, TypeOK, PlacesOK
  <2>2. CASE at[s] = Len(rcpt[s])
    BY <1>0, <1>7, <2>1, <2>2 DEF Publish, TypeInv, TypeOK, PlacesOK
  <2>3. CASE at[s] # Len(rcpt[s])
    <3>1. at[s] + 1 \in Nat /\ at[s] + 1 <= Len(rcpt[s]) /\ at[s] + 1 >= 1
      BY <2>1, <2>3
    <3> QED BY <1>0, <1>7, <2>3, <3>1 DEF Publish, TypeInv, TypeOK, PlacesOK
  <2> QED BY <2>2, <2>3
<1>8. ASSUME NEW s \in Send, FailSend(s) PROVE TypeInv'
  BY <1>0, <1>8 DEF FailSend, TypeInv, TypeOK, PlacesOK
<1>9. ASSUME NEW a \in Ack, AckGet(a) PROVE TypeInv'
  BY <1>0, <1>9 DEF AckGet, AckGoto, TypeInv, TypeOK, PlacesOK
<1>10. ASSUME NEW a \in Ack, AckTTL(a) PROVE TypeInv'
  <2>1. areq[a] \in MsgId
    BY <1>0, <1>10 DEF AckTTL, PlacesOK
  <2>2. Left(areq[a]) \subseteq Nat
    <3>1. CASE msg[areq[a]] = NoMessage
      BY <3>1 DEF Left
    <3>2. CASE msg[areq[a]] # NoMessage
      <4>1. msg[areq[a]].exp \in Nat /\ (msg[areq[a]].exp = Never \/ msg[areq[a]].exp > now)
        BY <1>0, <2>1, <3>2 DEF TypeOK, PlacesOK, Message
      <4> QED BY <1>0, <4>1 DEF Left
    <3> QED BY <3>1, <3>2
  <2>3. attl' \in [Ack -> Nat]
    BY <1>0, <1>10, <2>2 DEF AckTTL, TypeOK
  <2> QED BY <1>0, <1>10, <2>3 DEF AckTTL, AckGoto, TypeInv, TypeOK, PlacesOK
<1>11. ASSUME NEW a \in Ack, AckSet(a) PROVE TypeInv'
  <2>1. areq[a] \in MsgId /\ areq[a][1] \in Send /\ areq[a][2] \in Device /\ attl[a] \in Nat
    BY <1>0, <1>11 DEF AckSet, PlacesOK, MsgId, TypeOK
  <2> DEFINE new == [sid |-> sid[areq[a][1]], delivered |-> TRUE,
                     exp |-> IF attl[a] = Never THEN Never ELSE now + attl[a]]
  <2>2. new \in Message /\ (new.exp = Never \/ new.exp > now)
    BY <1>0, <2>1 DEF Message, TypeOK
  <2>3. UNCHANGED msg \/ msg' = [msg EXCEPT ![areq[a]] = new]
    BY <1>11 DEF AckSet, Unchecked
  <2> HIDE DEF new
  <2>4. msg' \in [MsgId -> Message \cup {NoMessage}]
    BY <1>0, <2>2, <2>3 DEF TypeOK
  <2>5. \A m \in MsgId : msg'[m] # NoMessage => msg'[m].exp = Never \/ msg'[m].exp > now
    BY <1>0, <2>1, <2>2, <2>3 DEF PlacesOK, TypeOK
  <2>6. dropped' \in Seq(Device) /\ Len(dropped') <= MaxDropped
    BY <1>11, <2>1, UncheckedDropped DEF AckSet, Unchecked
  <2>7. apc' \in [Ack -> {"idle", "ttl", "set", "remove"}] /\ attl' \in [Ack -> Nat]
    BY <1>0, <1>11 DEF AckSet, AckGoto, TypeOK
  <2>8. TypeOK'
    BY <1>0, <1>11, <2>4, <2>6, <2>7 DEF AckSet, TypeOK
  <2> QED BY <1>0, <1>11, <2>5, <2>8 DEF AckSet, AckGoto, TypeInv, PlacesOK, TypeOK
<1>12. ASSUME NEW a \in Ack, AckRemove(a) PROVE TypeInv'
  <2>1. areq[a] \in MsgId /\ areq[a][2] \in Device
    BY <1>0, <1>12 DEF AckRemove, PlacesOK, MsgId
  <2>2. RemoveFirst(queue[areq[a][2]], areq[a]) \in Seq(MsgId)
    BY <1>0, <2>1, RemovedIsQueue DEF TypeOK
  <2>3. queue' \in [Device -> Seq(MsgId)]
    BY <1>0, <1>12, <2>1, <2>2 DEF AckRemove, TypeOK, Unchecked
  <2>4. qexp' \in [Device -> Nat]
    <3>1. qexp' = qexp \/ \E e \in {Never, qexp[areq[a][2]]} : qexp' = [qexp EXCEPT ![areq[a][2]] = e]
      BY <1>12 DEF AckRemove, Unchecked
    <3>2. qexp \in [Device -> Nat] /\ \A e \in {Never, qexp[areq[a][2]]} : e \in Nat
      BY <1>0, <2>1 DEF TypeOK
    <3> QED BY <3>1, <3>2
  <2>5. dropped' \in Seq(Device) /\ Len(dropped') <= MaxDropped
    BY <1>12, <2>1, UncheckedDropped DEF AckRemove, Unchecked
  <2>6. /\ apc' \in [Ack -> {"idle", "ttl", "set", "remove"}] /\ areq' \in [Ack -> MsgId \cup {NoMessage}]
        /\ attl' \in [Ack -> Nat] /\ acked' \subseteq MsgId
    BY <1>0, <1>12, <2>1 DEF AckRemove, AckDone, AckGoto, TypeOK
  <2>7. TypeOK'
    BY <1>0, <1>12, <2>3, <2>4, <2>5, <2>6 DEF AckRemove, TypeOK
  <2> QED BY <1>0, <1>12, <2>7 DEF AckRemove, AckDone, AckGoto, TypeInv, PlacesOK, TypeOK
<1>13. ASSUME NEW a \in Ack, FailAck(a) PROVE TypeInv'
  BY <1>0, <1>13 DEF FailAck, AckDone, AckGoto, TypeInv, TypeOK, PlacesOK
<1>14. CASE UNCHANGED vars
  BY <1>0, <1>14 DEF vars, TypeInv, TypeOK, PlacesOK
<1> QED BY <1>1, <1>2, <1>3, <1>4, <1>5, <1>6, <1>7, <1>8, <1>9, <1>10, <1>11, <1>12, <1>13, <1>14 DEF Next

\* Every variable keeps its type; what is stored has not ended, so no TTL is negative
\* when an acknowledgement writes a message back.
THEOREM TypeCorrectness == Spec => []TypeOK
<1>1. Spec => []TypeInv
  BY InitType, NextType, PTL DEF Spec
<1> QED BY <1>1, PTL DEF TypeInv

-----------------------------------------------------------------------------
(* Which ids have been pushed                                                 *)

PushedAt(s, k) == k < at[s] \/ (k = at[s] /\ spc[s] \notin {"new", "store", "push"})

\* The id may be known: StoreMessage has pushed it, unless it failed there.
Pushed(m) == \E k \in DOMAIN rcpt[m[1]] : rcpt[m[1]][k] = To(m) /\ PushedAt(m[1], k)

\* A recipient that is named once has nothing before its turn.
LEMMA NotYetPushed ==
  ASSUME TypeInv, NEW s \in Send, spc[s] \in {"store", "push"}, IsInjective(rcpt[s])
  PROVE  ~Pushed(<<s, Dest(s)>>)
<1>1. at[s] \in DOMAIN rcpt[s] /\ rcpt[s][at[s]] = Dest(s) /\ at[s] \in Nat
  BY DestIsDevice DEF Dest, TypeInv, TypeOK
<1>2. \A k \in DOMAIN rcpt[s] : rcpt[s][k] = Dest(s) => k = at[s]
  BY <1>1 DEF IsInjective
<1> QED BY <1>1, <1>2 DEF Pushed, PushedAt

\* A send does not come back to a recipient it names once.
LEMMA NotStoredAgain ==
  ASSUME TypeInv, NEW m \in MsgId, Pushed(m), IsInjective(rcpt[m[1]]),
         spc[m[1]] \in {"store", "push"}
  PROVE  Dest(m[1]) # m[2]
<1>1. PICK s \in Send, h \in Device : s = m[1] /\ h = m[2] /\ m = <<s, h>>
  BY DEF MsgId
<1>2. ASSUME h = Dest(s) PROVE FALSE
  BY <1>1, <1>2, NotYetPushed
<1> QED BY <1>1, <1>2

\* A message that is stored to the end was pushed.
LEMMA StoredIsPushed ==
  ASSUME TypeInv, NEW m \in MsgId, Stored(m)
  PROVE  Pushed(m)
<1>1. m[1] \in Send
  BY DEF MsgId
<1>2. PICK k \in DOMAIN rcpt[m[1]] : rcpt[m[1]][k] = To(m) /\ (k < at[m[1]] \/ spc[m[1]] = "sent")
  BY DEF Stored
<1>3. k \in 1..Len(rcpt[m[1]]) /\ at[m[1]] \in Nat /\ Len(rcpt[m[1]]) \in Nat
  BY <1>1, <1>2 DEF TypeInv, TypeOK
<1>4. spc[m[1]] = "sent" => k <= at[m[1]]
  BY <1>1, <1>3 DEF TypeInv, PlacesOK
<1> QED BY <1>2, <1>3, <1>4 DEF Pushed, PushedAt

\* Who has pushed anything has its recipients.
LEMMA PushedIsUnderWay ==
  ASSUME TypeInv, NEW m \in MsgId, Pushed(m)
  PROVE  spc[m[1]] # "new"
BY DEF Pushed, TypeInv, PlacesOK, MsgId

\* What has been pushed stays so, and its send keeps its recipients and what was before it.
LEMMA PushedStays ==
  ASSUME TypeInv, [Next]_vars, NEW m \in MsgId, Pushed(m)
  PROVE  Pushed(m)' /\ rcpt'[m[1]] = rcpt[m[1]] /\ before'[m[1]] = before[m[1]]
<1> DEFINE s == m[1]
<1>0. s \in Send /\ spc[s] # "new" /\ TypeOK /\ PlacesOK
  BY PushedIsUnderWay DEF MsgId, TypeInv
<1>1. PICK k \in DOMAIN rcpt[s] : rcpt[s][k] = m[2] /\ PushedAt(s, k)
  BY DEF Pushed
<1>2. k \in Nat /\ at[s] \in Nat
  BY <1>0, <1>1 DEF TypeOK
<1>3. ASSUME rcpt'[s] = rcpt[s], before'[s] = before[s], PushedAt(s, k)' PROVE
        Pushed(m)' /\ rcpt'[m[1]] = rcpt[m[1]] /\ before'[m[1]] = before[m[1]]
  BY <1>1, <1>3 DEF Pushed
<1> USE DEF redis, sending, acking
<1>4. CASE UNCHANGED <<spc, rcpt, at, before>>
  BY <1>1, <1>3, <1>4 DEF PushedAt
<1>5. ASSUME NEW t \in Send,
             \/ Accept(t) \/ Refuse(t) \/ SetMessage(t) \/ PushId(t)
             \/ ExpireQueue(t) \/ Publish(t) \/ FailSend(t)
      PROVE  rcpt'[s] = rcpt[s] /\ before'[s] = before[s] /\ PushedAt(s, k)'
  <2>1. CASE t # s
    <3>1. spc'[s] = spc[s] /\ rcpt'[s] = rcpt[s] /\ at'[s] = at[s] /\ before'[s] = before[s]
      BY <1>0, <1>5, <2>1
         DEF Accept, Refuse, SetMessage, PushId, ExpireQueue, Publish, FailSend, TypeOK
    <3> QED BY <1>1, <3>1 DEF PushedAt
  <2>2. CASE t = s
    <3>1. ~Accept(s) /\ ~Refuse(s)
      BY <1>0 DEF Accept, Refuse
    <3>2. rcpt' = rcpt /\ before' = before
      BY <1>5, <2>2, <3>1 DEF SetMessage, PushId, ExpireQueue, Publish, FailSend
    <3>3. CASE Publish(s) /\ at[s] # Len(rcpt[s])
      <4>1. at'[s] = at[s] + 1
        BY <1>0, <3>3 DEF Publish, TypeOK
      <4> QED BY <1>1, <1>2, <3>2, <4>1 DEF PushedAt
    <3>4. CASE ~(Publish(s) /\ at[s] # Len(rcpt[s]))
      <4>1. at' = at /\ (spc[s] \notin {"store", "push"} => spc'[s] \notin {"new", "store", "push"})
        BY <1>0, <1>5, <2>2, <3>1, <3>4 DEF SetMessage, PushId, ExpireQueue, Publish, FailSend, TypeOK
      <4> QED BY <1>0, <1>1, <3>2, <4>1 DEF PushedAt
    <3> QED BY <3>3, <3>4
  <2> QED BY <2>1, <2>2
<1>6. CASE Tick
  BY <1>4, <1>6 DEF Tick
<1>7. ASSUME NEW a \in Ack, AckGet(a) \/ AckTTL(a) \/ AckSet(a) \/ AckRemove(a) \/ FailAck(a)
      PROVE  Pushed(m)' /\ rcpt'[m[1]] = rcpt[m[1]] /\ before'[m[1]] = before[m[1]]
  BY <1>4, <1>7 DEF AckGet, AckTTL, AckSet, AckRemove, FailAck
<1> QED BY <1>3, <1>4, <1>5, <1>6, <1>7 DEF Next, vars

-----------------------------------------------------------------------------
(* The order of the queues                                                    *)

\* Ids are in the queue of their recipient once they are pushed, and in order.
QueueOK ==
  /\ \A d \in Device : \A i \in DOMAIN queue[d] : queue[d][i][2] = d /\ Pushed(queue[d][i])
  /\ \A t \in Send : \A s \in before[t] : spc[s] = "sent"
  /\ FifoPerQueue

\* A queue that loses ids, or all of them, or none.
Shrinks(q, new) == new \in {q, <<>>} \/ \E k \in 1..Len(q) : new = RemoveAt(q, k)

\* What is left of it is in the order it was in.
LEMMA ShrunkIsOrdered ==
  ASSUME NEW q \in Seq(MsgId), NEW new, Shrinks(q, new)
  PROVE  \E f \in [DOMAIN new -> DOMAIN q] :
            \A i, j \in DOMAIN new : new[i] = q[f[i]] /\ (f[i] < f[j] => i < j) /\ (f[i] = f[j] => i = j)
<1>1. CASE new = q
  <2> DEFINE f == [i \in DOMAIN new |-> i]
  <2>1. f \in [DOMAIN new -> DOMAIN q] /\ \A i, j \in DOMAIN new : new[i] = q[f[i]] /\ (f[i] < f[j] => i < j) /\ (f[i] = f[j] => i = j)
    BY <1>1
  <2> QED BY <2>1
<1>2. CASE new = <<>>
  <2> DEFINE f == [i \in DOMAIN new |-> i]
  <2>1. DOMAIN new = {}
    BY <1>2
  <2>2. f \in [DOMAIN new -> DOMAIN q]
    BY <2>1
  <2> QED BY <2>1, <2>2
<1>3. ASSUME NEW k \in 1..Len(q), new = RemoveAt(q, k)
      PROVE  \E f \in [DOMAIN new -> DOMAIN q] :
               \A i, j \in DOMAIN new : new[i] = q[f[i]] /\ (f[i] < f[j] => i < j) /\ (f[i] = f[j] => i = j)
  <2> DEFINE f == [i \in DOMAIN new |-> IF i < k THEN i ELSE i + 1]
  <2>1. Len(q) \in Nat /\ DOMAIN q = 1..Len(q) /\ DOMAIN new = 1..(Len(q) - 1)
    BY <1>3, WithoutOne
  <2>2. \A i \in DOMAIN new : new[i] = q[IF i < k THEN i ELSE i + 1]
    BY <1>3, <2>1, WithoutOne
  <2>3. f \in [DOMAIN new -> DOMAIN q]
    BY <2>1
  <2>4. \A i, j \in DOMAIN new : (f[i] < f[j] => i < j) /\ (f[i] = f[j] => i = j)
    BY <2>1
  <2>5. \A i \in DOMAIN new : new[i] = q[f[i]]
    BY <2>2
  <2> QED BY <2>3, <2>4, <2>5
<1> QED BY <1>1, <1>2, <1>3 DEF Shrinks

\* Every step but a push leaves queues as they are, or takes ids out.
LEMMA QueuesShrink ==
  ASSUME TypeInv, [Next]_vars, \A s \in Send : ~PushId(s), NEW d \in Device
  PROVE  Shrinks(queue[d], queue'[d])
<1>0. queue \in [Device -> Seq(MsgId)]
  BY DEF TypeInv, TypeOK
<1> USE DEF sending, acking, redis
<1>1. CASE UNCHANGED queue
  BY <1>1 DEF Shrinks
<1>2. CASE Tick
  BY <1>0, <1>2 DEF Tick, Shrinks
<1>3. ASSUME NEW a \in Ack, AckRemove(a) PROVE Shrinks(queue[d], queue'[d])
  <2>1. RemoveFirst(queue[d], areq[a]) = queue[d] \/ \E k \in 1..Len(queue[d]) : RemoveFirst(queue[d], areq[a]) = RemoveAt(queue[d], k)
    BY <1>0, RemovedFirst
  <2>2. queue'[d] = queue[d] \/ queue'[d] = RemoveFirst(queue[d], areq[a])
    BY <1>0, <1>3 DEF AckRemove, Unchecked
  <2> QED BY <2>1, <2>2 DEF Shrinks
<1>4. ASSUME NEW s \in Send,
             Accept(s) \/ Refuse(s) \/ SetMessage(s) \/ ExpireQueue(s) \/ Publish(s) \/ FailSend(s)
      PROVE  UNCHANGED queue
  BY <1>4 DEF Accept, Refuse, SetMessage, ExpireQueue, Publish, FailSend
<1>5. ASSUME NEW a \in Ack, AckGet(a) \/ AckTTL(a) \/ AckSet(a) \/ FailAck(a)
      PROVE  UNCHANGED queue
  BY <1>5 DEF AckGet, AckTTL, AckSet, FailAck
<1> QED BY <1>1, <1>2, <1>3, <1>4, <1>5 DEF Next, vars

\* Who was answered before another arrived stays answered.
LEMMA BeforeIsSent ==
  ASSUME TypeInv, QueueOK, [Next]_vars, NEW t \in Send, NEW s \in before'[t]
  PROVE  spc'[s] = "sent"
<1>0. TypeOK
  BY DEF TypeInv
<1> USE DEF sending, acking, redis
<1>1. s \in Send /\ spc[s] = "sent"
  <2>1. CASE s \in before[t]
    BY <1>0, <2>1 DEF QueueOK, TypeOK
  <2>2. CASE s \notin before[t]
    <3>1. \E u \in Send : Accept(u)
      BY <2>2 DEF Next, vars, Tick, Refuse, SetMessage, PushId, ExpireQueue, Publish, FailSend,
                  AckGet, AckTTL, AckSet, AckRemove, FailAck
    <3> QED BY <1>0, <2>2, <3>1 DEF Accept, TypeOK
  <2> QED BY <2>1, <2>2
<1>2. ASSUME NEW u \in Send,
             \/ Accept(u) \/ Refuse(u) \/ SetMessage(u) \/ PushId(u)
             \/ ExpireQueue(u) \/ Publish(u) \/ FailSend(u)
      PROVE  spc'[s] = "sent"
  <2>1. u # s
    BY <1>1, <1>2 DEF Accept, Refuse, SetMessage, PushId, ExpireQueue, Publish, FailSend
  <2> QED BY <1>0, <1>1, <1>2, <2>1
          DEF Accept, Refuse, SetMessage, PushId, ExpireQueue, Publish, FailSend, TypeOK
<1>3. CASE UNCHANGED spc
  BY <1>1, <1>3
<1>4. CASE Tick
  BY <1>3, <1>4 DEF Tick
<1>5. ASSUME NEW a \in Ack, AckGet(a) \/ AckTTL(a) \/ AckSet(a) \/ AckRemove(a) \/ FailAck(a)
      PROVE  UNCHANGED spc
  BY <1>5 DEF AckGet, AckTTL, AckSet, AckRemove, FailAck
<1> QED BY <1>2, <1>3, <1>4, <1>5 DEF Next, vars

\* What a push does to the queues.
LEMMA PushEffect ==
  ASSUME TypeInv, NEW s \in Send, PushId(s)
  PROVE  /\ spc[s] = "push" /\ spc' = [spc EXCEPT ![s] = "expire"]
         /\ UNCHANGED <<rcpt, at, before>>
         /\ Dest(s) \in Device /\ <<s, Dest(s)>> \in MsgId
         /\ \A d \in Device \ {Dest(s)} : queue'[d] = queue[d]
         /\ LET q == queue[Dest(s)]
                new == queue'[Dest(s)]
            IN  /\ Len(q) \in Nat /\ DOMAIN q = 1..Len(q) /\ DOMAIN new = 1..(Len(q) + 1)
                /\ new[Len(q) + 1] = <<s, Dest(s)>> /\ \A i \in 1..Len(q) : new[i] = q[i]
<1>1. spc[s] = "push" /\ spc' = [spc EXCEPT ![s] = "expire"] /\ UNCHANGED <<rcpt, at, before>>
      /\ queue' = [queue EXCEPT ![Dest(s)] = Append(queue[Dest(s)], <<s, Dest(s)>>)]
  BY DEF PushId
<1>2. Dest(s) \in Device /\ <<s, Dest(s)>> \in MsgId /\ queue \in [Device -> Seq(MsgId)]
  BY <1>1, DestIsDevice DEF TypeInv, TypeOK
<1>3. queue[Dest(s)] \in Seq(MsgId) /\ queue'[Dest(s)] = Append(queue[Dest(s)], <<s, Dest(s)>>)
  BY <1>1, <1>2
<1> QED BY <1>1, <1>2, <1>3, AppendProperties

\* A push leaves every other id where it was.
LEMMA PushedOnly ==
  ASSUME TypeInv, NEW s \in Send, PushId(s), NEW h \in Device, h = Dest(s),
         NEW m \in MsgId, ~(m[1] = s /\ m[2] = h)
  PROVE  \A i \in DOMAIN queue'[m[2]] : queue'[m[2]][i] = m =>
            i \in DOMAIN queue[m[2]] /\ queue[m[2]][i] = m
<1>1. m[2] \in Device /\ m # <<s, h>>
  BY DEF MsgId
<1>2. CASE m[2] = h
  <2>1. /\ Len(queue[h]) \in Nat /\ DOMAIN queue[h] = 1..Len(queue[h])
        /\ DOMAIN queue'[h] = 1..(Len(queue[h]) + 1) /\ queue'[h][Len(queue[h]) + 1] = <<s, h>>
        /\ \A i \in 1..Len(queue[h]) : queue'[h][i] = queue[h][i]
    BY PushEffect
  <2> QED BY <1>1, <1>2, <2>1
<1>3. CASE m[2] # h
  BY <1>1, <1>3, PushEffect
<1> QED BY <1>2, <1>3

\* A push comes after whatever was sent before its send arrived, and before whatever
\* arrives once its send is answered.
LEMMA PushKeepsOrder ==
  ASSUME TypeInv, QueueOK, [Next]_vars, NEW s \in Send, PushId(s)
  PROVE  QueueOK'
<1>a. PICK h \in Device : h = Dest(s)
  BY PushEffect
<1>b. PICK e \in MsgId : e = <<s, h>>
  BY <1>a, PushEffect
<1>c. PICK n \in Nat : n = Len(queue[h]) + 1
  BY <1>a, PushEffect
<1>1. \A t \in Send : \A u \in before'[t] : spc'[u] = "sent"
  BY BeforeIsSent
<1>2. TypeOK
  BY DEF TypeInv
<1>3. Pushed(e)'
  <2>1. PICK k \in DOMAIN rcpt[s] : k = at[s] /\ rcpt[s][k] = h
    BY <1>a, PushEffect, DestIsDevice DEF Dest
  <2>2. spc'[s] = "expire" /\ rcpt' = rcpt /\ at' = at
    BY <1>2, PushEffect DEF TypeOK
  <2>3. PushedAt(s, k)'
    BY <2>1, <2>2 DEF PushedAt
  <2> QED BY <1>b, <2>1, <2>2, <2>3 DEF Pushed
<1>4. \A d \in Device : \A i \in DOMAIN queue'[d] :
         \/ d = h /\ i = n /\ queue'[d][i] = e
         \/ i \in DOMAIN queue[d] /\ queue'[d][i] = queue[d][i] /\ (d = h => i < n)
  <2> TAKE d \in Device
  <2>1. CASE d = h
    <3>1. /\ DOMAIN queue[d] = 1..(n - 1) /\ DOMAIN queue'[d] = 1..n /\ queue'[d][n] = e
          /\ \A i \in 1..(n - 1) : queue'[d][i] = queue[d][i]
      BY <1>a, <1>b, <1>c, <2>1, PushEffect
    <3> QED BY <1>c, <2>1, <3>1
  <2>2. CASE d # h
    BY <1>a, <2>2, PushEffect
  <2> QED BY <2>1, <2>2
<1>5. \A d \in Device : \A i \in DOMAIN queue[d] : queue[d][i] \in MsgId
  BY <1>2 DEF TypeOK
<1>6. ASSUME NEW d \in Device, NEW i \in DOMAIN queue'[d]
      PROVE  queue'[d][i][2] = d /\ Pushed(queue[d][i])'
  <2>1. CASE queue'[d][i] = e /\ d = h
    BY <1>3, <1>b, <2>1
  <2>2. CASE i \in DOMAIN queue[d] /\ queue'[d][i] = queue[d][i]
    <3>1. PICK m \in MsgId : m = queue[d][i]
      BY <1>5, <2>2
    <3>2. m[2] = d /\ Pushed(m)
      BY <2>2, <3>1 DEF QueueOK
    <3>3. Pushed(m)'
      BY <3>2, PushedStays
    <3>4. m' = queue'[d][i]
      BY <2>2, <3>1
    <3> QED BY <2>2, <3>1, <3>2, <3>3, <3>4
  <2> QED BY <1>4, <2>1, <2>2
<1>7. s \notin before[s] /\ \A t \in Send : s \notin before[t]
  BY PushEffect DEF QueueOK
<1>8. FifoPerQueue'
  <2> SUFFICES ASSUME NEW d \in Device, NEW i \in DOMAIN queue'[d], NEW j \in DOMAIN queue'[d],
                      queue'[d][i][1] \in before'[queue'[d][j][1]]
               PROVE  i < j
    BY DEF FifoPerQueue
  <2>1. before' = before
    BY PushEffect
  <2>2. queue'[d][j] \in MsgId
    BY <1>4, <1>5
  <2>3. queue'[d][i][1] # s
    BY <1>7, <2>1, <2>2 DEF MsgId
  <2>4. i \in DOMAIN queue[d] /\ queue'[d][i] = queue[d][i] /\ (d = h => i < n)
    BY <1>4, <1>b, <2>3
  <2>5. CASE j = n /\ d = h
    BY <2>4, <2>5
  <2>6. CASE j \in DOMAIN queue[d] /\ queue'[d][j] = queue[d][j]
    BY <2>1, <2>4, <2>6 DEF QueueOK, FifoPerQueue
  <2> QED BY <1>4, <2>5, <2>6
<1> QED BY <1>1, <1>6, <1>8 DEF QueueOK

\* A queue that loses ids keeps the order of the others.
LEMMA ShrinkKeepsOrder ==
  ASSUME TypeInv, QueueOK, [Next]_vars, \A d \in Device : Shrinks(queue[d], queue'[d])
  PROVE  QueueOK'
<1>1. \A t \in Send : \A u \in before'[t] : spc'[u] = "sent"
  BY BeforeIsSent
<1>2. ASSUME NEW d \in Device
      PROVE  \E f \in [DOMAIN queue'[d] -> DOMAIN queue[d]] :
                \A i, j \in DOMAIN queue'[d] : queue'[d][i] = queue[d][f[i]] /\ (f[i] < f[j] => i < j)
  <2>1. queue[d] \in Seq(MsgId)
    BY DEF TypeInv, TypeOK
  <2> QED BY <2>1, ShrunkIsOrdered
<1>3. ASSUME NEW d \in Device, NEW i \in DOMAIN queue[d]
      PROVE  /\ queue[d][i] \in MsgId /\ queue[d][i][2] = d /\ Pushed(queue[d][i])
  BY DEF TypeInv, TypeOK, QueueOK
<1>4. ASSUME NEW d \in Device, NEW i \in DOMAIN queue'[d]
      PROVE  queue'[d][i][2] = d /\ Pushed(queue[d][i])'
  <2>1. PICK k \in DOMAIN queue[d] : queue'[d][i] = queue[d][k]
    BY <1>2
  <2>2. PICK m \in MsgId : m = queue[d][k]
    BY <1>3
  <2>3. m[2] = d /\ Pushed(m)
    BY <1>3, <2>2
  <2>4. Pushed(m)' /\ m = queue'[d][i]
    BY <2>1, <2>2, <2>3, PushedStays
  <2> QED BY <2>3, <2>4
<1>5. FifoPerQueue'
  <2> SUFFICES ASSUME NEW d \in Device, NEW i \in DOMAIN queue'[d], NEW j \in DOMAIN queue'[d],
                      queue'[d][i][1] \in before'[queue'[d][j][1]]
               PROVE  i < j
    BY DEF FifoPerQueue
  <2>1. PICK f \in [DOMAIN queue'[d] -> DOMAIN queue[d]] :
          \A k, l \in DOMAIN queue'[d] : queue'[d][k] = queue[d][f[k]] /\ (f[k] < f[l] => k < l)
    BY <1>2
  <2>2. PICK m \in MsgId : m = queue[d][f[j]] /\ Pushed(m)
    BY <1>3
  <2>3. before'[m[1]] = before[m[1]]
    BY <2>2, PushedStays
  <2>4. queue[d][f[i]][1] \in before[queue[d][f[j]][1]]
    BY <2>1, <2>2, <2>3
  <2>5. f[i] < f[j]
    BY <2>4 DEF QueueOK, FifoPerQueue
  <2> QED BY <2>1, <2>5
<1> QED BY <1>1, <1>4, <1>5 DEF QueueOK

\* The queues are empty to begin with, and every step keeps them in order.
LEMMA InitQueue == Init => QueueOK
BY DEF Init, QueueOK, FifoPerQueue

LEMMA NextQueue == TypeInv /\ QueueOK /\ [Next]_vars => QueueOK'
BY PushKeepsOrder, ShrinkKeepsOrder, QueuesShrink

\* Messages stay in the order of their sends in every queue, whatever fails, expires
\* or is acknowledged in between (RPUSH at the end, LREM of the first).
THEOREM AlwaysInOrder == Spec => []FifoPerQueue
<1>1. Spec => [](TypeInv /\ QueueOK)
  BY InitType, InitQueue, NextType, NextQueue, PTL DEF Spec
<1> QED BY <1>1, PTL DEF QueueOK

-----------------------------------------------------------------------------
(* Acknowledged messages                                                      *)

Once(m) == \A i, j \in DOMAIN queue[m[2]] : queue[m[2]][i] = m /\ queue[m[2]][j] = m => i = j

\* Only what was pushed is acknowledged, and that once only in a queue.
OnceOK ==
  /\ \A a \in Ack : apc[a] # "idle" => Pushed(areq[a])
  /\ \A m \in acked : Pushed(m)
  /\ \A m \in MsgId : IsInjective(rcpt[m[1]]) => Once(m)
  /\ AckedNotQueued

Inv == TypeInv /\ QueueOK /\ OnceOK

\* The id a client acknowledges was pushed.
LEMMA KnownIsPushed ==
  ASSUME TypeInv, QueueOK, NEW m \in MsgId, Known(m)
  PROVE  Pushed(m)
<1>1. CASE Stored(m)
  BY <1>1, StoredIsPushed
<1>2. CASE m \in ToSet(queue[To(m)])
  BY <1>2 DEF ToSet, QueueOK, MsgId
<1> QED BY <1>1, <1>2 DEF Known

\* What a request acknowledges stays the same until it is done.
LEMMA AcksStay ==
  ASSUME Inv, [Next]_vars, NEW a \in Ack, apc'[a] # "idle"
  PROVE  Pushed(areq[a])'
<1>0. TypeOK /\ PlacesOK
  BY DEF Inv, TypeInv
<1> USE DEF sending, acking, redis
<1>1. CASE areq'[a] = areq[a] /\ apc[a] # "idle"
  <2>1. PICK m \in MsgId : m = areq[a]
    BY <1>0, <1>1 DEF PlacesOK
  <2>2. Pushed(m)'
    BY <1>1, <2>1, PushedStays DEF Inv, OnceOK
  <2> QED BY <1>1, <2>1, <2>2 DEF Pushed
<1>2. CASE AckGet(a)
  <2>1. PICK m \in MsgId : Known(m) /\ areq' = [areq EXCEPT ![a] = m]
    BY <1>2 DEF AckGet
  <2>2. Pushed(m)' /\ areq'[a] = m
    BY <1>0, <2>1, KnownIsPushed, PushedStays DEF Inv, TypeOK
  <2> QED BY <2>2 DEF Pushed
<1>3. ASSUME NEW b \in Ack, b # a, AckGet(b) \/ AckTTL(b) \/ AckSet(b) \/ AckRemove(b) \/ FailAck(b)
      PROVE  areq'[a] = areq[a] /\ apc'[a] = apc[a]
  BY <1>0, <1>3 DEF AckGet, AckTTL, AckSet, AckRemove, FailAck, AckGoto, AckDone, TypeOK
<1>4. ASSUME AckTTL(a) \/ AckSet(a)
      PROVE  areq'[a] = areq[a] /\ apc[a] # "idle"
  BY <1>4 DEF AckTTL, AckSet
<1>5. ASSUME AckRemove(a) \/ FailAck(a)
      PROVE  apc'[a] = "idle"
  BY <1>0, <1>5 DEF AckRemove, FailAck, AckDone, AckGoto, TypeOK
<1>6. ASSUME Tick \/ UNCHANGED vars \/ \E s \in Send :
                \/ Accept(s) \/ Refuse(s) \/ SetMessage(s) \/ PushId(s)
                \/ ExpireQueue(s) \/ Publish(s) \/ FailSend(s)
      PROVE  areq'[a] = areq[a] /\ apc'[a] = apc[a]
  BY <1>6 DEF Tick, vars, Accept, Refuse, SetMessage, PushId, ExpireQueue, Publish, FailSend
<1> QED BY <1>1, <1>2, <1>3, <1>4, <1>5, <1>6 DEF Next

\* An id stays in a queue once at most, if its recipient is named once.
LEMMA OnceStays ==
  ASSUME Inv, [Next]_vars, NEW m \in MsgId, IsInjective(rcpt[m[1]])'
  PROVE  Once(m)'
<1>0. TypeInv /\ TypeOK /\ QueueOK /\ m[1] \in Send /\ m[2] \in Device /\ queue[m[2]] \in Seq(MsgId)
  BY DEF Inv, TypeInv, TypeOK, MsgId
<1>1. Pushed(m) => Once(m)
  BY PushedStays DEF Inv, OnceOK
<1>2. \A i \in DOMAIN queue[m[2]] : queue[m[2]][i] = m => Pushed(m)
  BY <1>0 DEF QueueOK
<1>3. ASSUME NEW s \in Send, PushId(s) PROVE Once(m)'
  <2>0. PICK h \in Device : h = Dest(s)
    BY <1>0, <1>3, PushEffect
  <2>1. CASE m[1] = s /\ m[2] = h
    <3>0. m = <<s, h>>
      BY <2>1 DEF MsgId
    <3>1. m = <<s, h>> /\ spc[s] = "push" /\ IsInjective(rcpt[s])
      <4>1. spc[s] = "push" /\ rcpt' = rcpt
        BY <1>0, <1>3, PushEffect
      <4> QED BY <2>1, <3>0, <4>1
    <3>2. ~Pushed(m)
      BY <1>0, <2>0, <3>1, NotYetPushed
    <3>3. \A i \in DOMAIN queue[h] : queue[h][i] # m
      BY <1>2, <2>1, <3>2
    <3>4. /\ Len(queue[h]) \in Nat /\ DOMAIN queue[h] = 1..Len(queue[h])
          /\ DOMAIN queue'[h] = 1..(Len(queue[h]) + 1)
          /\ \A i \in 1..Len(queue[h]) : queue'[h][i] = queue[h][i]
      BY <1>0, <1>3, <2>0, PushEffect
    <3>5. \A i \in DOMAIN queue'[h] : queue'[h][i] = m => i = Len(queue[h]) + 1
      BY <3>3, <3>4
    <3> QED BY <2>1, <3>5 DEF Once
  <2>2. CASE ~(m[1] = s /\ m[2] = h)
    <3>1. \A i \in DOMAIN queue'[m[2]] : queue'[m[2]][i] = m =>
             i \in DOMAIN queue[m[2]] /\ queue[m[2]][i] = m
      BY <1>0, <1>3, <2>0, <2>2, PushedOnly
    <3> QED BY <1>1, <1>2, <3>1 DEF Once
  <2> QED BY <2>1, <2>2
<1>4. CASE \A s \in Send : ~PushId(s)
  <2>1. PICK f \in [DOMAIN queue'[m[2]] -> DOMAIN queue[m[2]]] :
          \A i, j \in DOMAIN queue'[m[2]] : queue'[m[2]][i] = queue[m[2]][f[i]] /\ (f[i] = f[j] => i = j)
    BY <1>0, <1>4, QueuesShrink, ShrunkIsOrdered
  <2> QED BY <1>1, <1>2, <2>1 DEF Once
<1> QED BY <1>3, <1>4

\* The devices whose commands failed unseen stay listed.
LEMMA DroppedStays ==
  ASSUME TypeInv, [Next]_vars
  PROVE  ToSet(dropped) \subseteq ToSet(dropped')
<1>1. CASE UNCHANGED dropped
  BY <1>1
<1>2. ASSUME NEW s \in Send, ExpireQueue(s) PROVE ToSet(dropped) \subseteq ToSet(dropped')
  BY <1>2, DestIsDevice, UncheckedDropped DEF ExpireQueue, Unchecked
<1>3. ASSUME NEW a \in Ack, AckSet(a) \/ AckRemove(a) PROVE ToSet(dropped) \subseteq ToSet(dropped')
  <2>1. areq[a][2] \in Device
    BY <1>3 DEF AckSet, AckRemove, TypeInv, PlacesOK, MsgId
  <2> QED BY <1>3, <2>1, UncheckedDropped DEF AckSet, AckRemove, Unchecked
<1>4. CASE UNCHANGED vars
  BY <1>1, <1>4 DEF vars
<1> QED BY <1>1, <1>2, <1>3, <1>4
        DEF Next, Tick, Accept, Refuse, SetMessage, PushId, Publish, FailSend, AckGet, AckTTL, FailAck

\* A device that is not listed afterwards had no command fail just now.
LEMMA NotDropped ==
  ASSUME TypeInv, NEW d \in Device, d \notin ToSet(dropped')
  PROVE  dropped' # Append(dropped, d)
<1>1. dropped \in Seq(Device)
  BY DEF TypeInv, TypeOK
<1>2. ASSUME dropped' = Append(dropped, d) PROVE FALSE
  <2>1. Len(dropped) \in Nat /\ DOMAIN dropped' = 1..(Len(dropped) + 1) /\ dropped'[Len(dropped) + 1] = d
    BY <1>1, <1>2, AppendProperties
  <2> QED BY <2>1 DEF ToSet
<1> QED BY <1>2

\* An id that was pushed is not pushed again, if its recipient is named once.
LEMMA NotPushedAgain ==
  ASSUME TypeInv, QueueOK, [Next]_vars, NEW m \in MsgId, Pushed(m), IsInjective(rcpt[m[1]]),
         m \notin ToSet(queue[m[2]])
  PROVE  m \notin ToSet(queue'[m[2]])
<1>0. TypeOK /\ m[1] \in Send /\ m[2] \in Device /\ queue[m[2]] \in Seq(MsgId)
  BY DEF TypeInv, TypeOK, MsgId
<1>1. \A i \in DOMAIN queue[m[2]] : queue[m[2]][i] # m
  BY <1>0 DEF ToSet
<1>2. ASSUME NEW s \in Send, PushId(s) PROVE \A i \in DOMAIN queue'[m[2]] : queue'[m[2]][i] # m
  <2>0. PICK h \in Device : h = Dest(s)
    BY <1>2, PushEffect
  <2>1. ~(m[1] = s /\ m[2] = h)
    <3>1. spc[s] = "push"
      BY <1>2, PushEffect
    <3> QED BY <2>0, <3>1, NotStoredAgain
  <2> QED BY <1>1, <1>2, <2>0, <2>1, PushedOnly
<1>3. CASE \A s \in Send : ~PushId(s)
  <2>1. PICK f \in [DOMAIN queue'[m[2]] -> DOMAIN queue[m[2]]] :
          \A i \in DOMAIN queue'[m[2]] : queue'[m[2]][i] = queue[m[2]][f[i]]
    BY <1>0, <1>3, QueuesShrink, ShrunkIsOrdered
  <2>2. \A i \in DOMAIN queue'[m[2]] : queue'[m[2]][i] # m
    BY <1>1, <2>1
  <2> QED BY <2>2 DEF ToSet
<1>4. CASE \E s \in Send : PushId(s)
  <2>1. \A i \in DOMAIN queue'[m[2]] : queue'[m[2]][i] # m
    BY <1>2, <1>4
  <2> QED BY <2>1 DEF ToSet
<1> QED BY <1>3, <1>4

\* Once it is acknowledged, an id is out of the queue for good.
LEMMA AckedStaysOut ==
  ASSUME Inv, [Next]_vars, NEW m \in MsgId, m \in acked'
  PROVE  Pushed(m)' /\ (Clean(m)' => m \notin ToSet(queue'[m[2]]))
<1>0. TypeInv /\ TypeOK /\ PlacesOK /\ QueueOK /\ m[2] \in Device /\ queue[m[2]] \in Seq(MsgId)
  BY DEF Inv, TypeInv, TypeOK, MsgId
<1>1. m \in acked \/ \E a \in Ack : AckRemove(a) /\ areq[a] = m
  BY <1>0 DEF Next, vars, sending, acking, redis, Tick, Accept, Refuse, SetMessage, PushId, ExpireQueue,
              Publish, FailSend, AckGet, AckTTL, AckSet, AckRemove, FailAck
<1>2. Pushed(m)
  <2>1. CASE m \in acked
    BY <2>1 DEF Inv, OnceOK
  <2>2. ASSUME NEW a \in Ack, AckRemove(a), areq[a] = m PROVE Pushed(m)
    BY <2>2 DEF Inv, OnceOK, AckRemove
  <2> QED BY <1>1, <2>1, <2>2
<1>3. Pushed(m)' /\ rcpt'[m[1]] = rcpt[m[1]]
  BY <1>0, <1>2, PushedStays
<1>4. ASSUME Clean(m)' PROVE m \notin ToSet(queue'[m[2]])
  <2>1. IsInjective(rcpt[m[1]]) /\ m[2] \notin ToSet(dropped) /\ m[2] \notin ToSet(dropped')
    BY <1>0, <1>3, <1>4, DroppedStays DEF Clean
  <2>2. CASE m \in acked
    <3>1. m \notin ToSet(queue[m[2]])
      BY <2>1, <2>2 DEF Inv, OnceOK, AckedNotQueued, Clean
    <3> QED BY <1>0, <1>2, <2>1, <3>1, NotPushedAgain
  <2>3. ASSUME NEW a \in Ack, AckRemove(a), areq[a] = m PROVE m \notin ToSet(queue'[m[2]])
    <3> DEFINE q == queue[m[2]]
    <3>1. queue'[m[2]] = RemoveFirst(q, m)
      <4>1. dropped' # Append(dropped, m[2])
        BY <1>0, <2>1, NotDropped
      <4>2. queue' = [queue EXCEPT ![m[2]] = RemoveFirst(queue[m[2]], m)]
        BY <2>3, <4>1 DEF AckRemove, Unchecked
      <4> QED BY <1>0, <4>2 DEF TypeOK
    <3>2. Once(m) /\ q \in Seq(MsgId)
      BY <1>0, <2>1 DEF Inv, OnceOK
    <3>3. \A i, j \in DOMAIN q : q[i] = m /\ q[j] = m => i = j
      BY <3>2 DEF Once
    <3> HIDE DEF q
    <3>4. ASSUME NEW k \in 1..Len(q), q[k] = m, queue'[m[2]] = RemoveAt(q, k)
          PROVE  m \notin ToSet(queue'[m[2]])
      <4>1. Len(q) \in Nat /\ DOMAIN q = 1..Len(q) /\ DOMAIN queue'[m[2]] = 1..(Len(q) - 1)
        BY <3>2, <3>4, WithoutOne
      <4>2. \A i \in 1..(Len(q) - 1) : queue'[m[2]][i] = q[IF i < k THEN i ELSE i + 1]
        BY <3>2, <3>4, WithoutOne
      <4>3. \A i \in 1..(Len(q) - 1) : queue'[m[2]][i] # m
        <5> TAKE i \in 1..(Len(q) - 1)
        <5>1. PICK j \in DOMAIN q : j = (IF i < k THEN i ELSE i + 1)
          BY <4>1
        <5>2. j # k
          BY <3>4, <4>1, <5>1
        <5>3. q[j] # m
          BY <3>3, <3>4, <4>1, <5>2
        <5> QED BY <4>2, <5>1, <5>3
      <4> QED BY <4>1, <4>3 DEF ToSet
    <3> QED BY <3>1, <3>2, <3>4, RemovedFirst
  <2> QED BY <1>1, <2>2, <2>3
<1> QED BY <1>3, <1>4

\* Nothing is acknowledged or queued to begin with, and every step keeps it so that an
\* id is queued once, and not after it is acknowledged.
LEMMA InitOnce == Init => OnceOK
BY DEF Init, OnceOK, Once, AckedNotQueued, MsgId

LEMMA NextOnce == Inv /\ [Next]_vars => OnceOK'
<1> SUFFICES ASSUME Inv, [Next]_vars PROVE OnceOK'
  OBVIOUS
<1>1. TypeOK'
  BY NextType DEF Inv, TypeInv
<1>2. \A a \in Ack : apc'[a] # "idle" => Pushed(areq[a])'
  BY AcksStay
<1>3. \A m \in MsgId : IsInjective(rcpt[m[1]])' => Once(m)'
  BY OnceStays
<1>4. \A m \in acked' : m \in MsgId
  BY <1>1 DEF TypeOK
<1>5. \A m \in acked' : Pushed(m)' /\ (Clean(m)' => m \notin ToSet(queue'[m[2]]))
  BY <1>4, AckedStaysOut
<1> QED BY <1>2, <1>3, <1>5 DEF OnceOK, AckedNotQueued

\* Whatever its send, its acknowledgement and the clock do meanwhile, a message that was
\* acknowledged is in no queue again: StoreMessage pushes its id before anybody learns it.
THEOREM AckedIsGone == Spec => []AckedNotQueued
<1>1. Init => Inv
  BY InitType, InitQueue, InitOnce DEF Inv
<1>2. Inv /\ [Next]_vars => Inv'
  BY NextType, NextQueue, NextOnce DEF Inv
<1>3. Spec => []Inv
  BY <1>1, <1>2, PTL DEF Spec
<1> QED BY <1>3, PTL DEF Inv, OnceOK

-----------------------------------------------------------------------------
(* Pending messages                                                           *)

Live(m) == msg[m] # NoMessage /\ ~msg[m].delivered

\* The send of the id has got past its recipient, or is there at one of the stages.
Reached(m, stages) == \E k \in DOMAIN rcpt[m[1]] :
                         /\ rcpt[m[1]][k] = m[2]
                         /\ \/ k < at[m[1]] \/ spc[m[1]] = "sent"
                            \/ k = at[m[1]] /\ spc[m[1]] \in stages

Held(m)    == Reached(m, {"expire", "publish"})
Covered(m) == Reached(m, {"publish"})

\* A message lives for a TTL at most; its id is queued from the push on unless the queue
\* ends before the EXPIRE, and from the EXPIRE on the queue outlives it; who is about to remove an id has marked its message.
PendingOK ==
  /\ \A m \in MsgId : Live(m) => msg[m].exp # Never /\ msg[m].exp <= now + TTL
  /\ \A m \in MsgId : Clean(m) /\ Live(m) =>
        /\ Held(m) /\ m \notin cut => \E i \in DOMAIN queue[m[2]] : queue[m[2]][i] = m
        /\ Covered(m) => qexp[m[2]] = Never \/ qexp[m[2]] >= msg[m].exp
  /\ \A a \in Ack : apc[a] = "remove" => ~Live(areq[a]) \/ ~Clean(areq[a])

\* A send reaches a stage by its own step there, with the recipients it had.
LEMMA ReachedBefore ==
  ASSUME TypeInv, [Next]_vars, NEW m \in MsgId,
         NEW stages \in {{"publish"}, {"expire", "publish"}}, Reached(m, stages)'
  PROVE  /\ rcpt'[m[1]] = rcpt[m[1]]
         /\ \/ Reached(m, stages)
            \/ stages = {"publish"} /\ ExpireQueue(m[1]) /\ Dest(m[1]) = m[2]
            \/ stages = {"expire", "publish"} /\ PushId(m[1]) /\ Dest(m[1]) = m[2]
<1> DEFINE s == m[1]
<1>0. TypeOK /\ PlacesOK /\ s \in Send
  BY DEF TypeInv, MsgId
<1> USE DEF sending, acking, redis
<1>1. PICK k \in DOMAIN rcpt'[s] :
         /\ rcpt'[s][k] = m[2]
         /\ k < at'[s] \/ spc'[s] = "sent" \/ (k = at'[s] /\ spc'[s] \in stages)
  BY DEF Reached
<1>2. rcpt'[s] \in Seq(Device) /\ k \in Nat /\ k >= 1 /\ at[s] \in Nat
  <2>1. TypeOK'
    BY NextType DEF TypeInv
  <2>2. rcpt'[s] \in Seq(Device) /\ at[s] \in Nat
    BY <1>0, <2>1 DEF TypeOK
  <2> HIDE DEF s
  <2> QED BY <1>1, <2>2
<1>3. CASE rcpt'[s] = rcpt[s] /\ at'[s] = at[s] /\ spc'[s] = spc[s]
  BY <1>1, <1>3 DEF Reached
<1>4. CASE Accept(s)
  <2>1. at'[s] = 1 /\ spc'[s] = IF rcpt'[s] = <<>> THEN "sent" ELSE "store"
    BY <1>0, <1>4 DEF Accept, PlacesOK, TypeOK
  <2> QED BY <1>1, <1>2, <2>1
<1>5. CASE Refuse(s)
  BY <1>0, <1>1, <1>2, <1>5 DEF Refuse, PlacesOK, TypeOK
<1>6. CASE SetMessage(s) \/ FailSend(s)
  <2>1. rcpt' = rcpt /\ at' = at /\ spc'[s] \in {"push", "failed"}
    BY <1>0, <1>6 DEF SetMessage, FailSend, TypeOK
  <2>2. k < at[s]
    BY <1>1, <2>1
  <2> QED BY <1>1, <2>1, <2>2 DEF Reached
<1>7. CASE PushId(s)
  <2>1. rcpt' = rcpt /\ at' = at /\ spc'[s] = "expire" /\ spc[s] = "push"
    BY <1>0, <1>7 DEF PushId, TypeOK
  <2>2. CASE k < at[s]
    BY <1>1, <2>1, <2>2 DEF Reached
  <2>3. CASE ~(k < at[s])
    <3>1. k = at[s] /\ "expire" \in stages
      BY <1>1, <2>1, <2>3
    <3> QED BY <1>1, <1>7, <2>1, <3>1 DEF Dest
  <2> QED BY <2>2, <2>3
<1>8. CASE ExpireQueue(s)
  <2>1. rcpt' = rcpt /\ at' = at /\ spc'[s] = "publish" /\ spc[s] = "expire"
    BY <1>0, <1>8 DEF ExpireQueue, TypeOK
  <2>2. CASE k < at[s]
    BY <1>1, <2>1, <2>2 DEF Reached
  <2>3. CASE ~(k < at[s])
    <3>1. k = at[s]
      BY <1>1, <2>1, <2>3
    <3>2. CASE stages = {"publish"}
      BY <1>1, <1>8, <2>1, <3>1, <3>2 DEF Dest
    <3>3. CASE stages = {"expire", "publish"}
      BY <1>1, <2>1, <3>1, <3>3 DEF Reached
    <3> QED BY <3>2, <3>3
  <2> QED BY <2>2, <2>3
<1>9. CASE Publish(s)
  <2>1. rcpt' = rcpt /\ spc[s] = "publish" /\ at[s] <= Len(rcpt[s]) /\ "publish" \in stages
    BY <1>0, <1>9 DEF Publish, PlacesOK
  <2>2. k <= at[s]
    <3>1. CASE at[s] = Len(rcpt[s])
      BY <1>1, <1>2, <2>1, <3>1
    <3>2. CASE at[s] # Len(rcpt[s])
      <4>1. at'[s] = at[s] + 1 /\ spc'[s] = "store"
        BY <1>0, <1>9, <3>2 DEF Publish, TypeOK
      <4> QED BY <1>1, <1>2, <4>1
    <3> QED BY <3>1, <3>2
  <2> QED BY <1>1, <1>2, <2>1, <2>2 DEF Reached
<1>10. ASSUME NEW t \in Send, t # s,
              \/ Accept(t) \/ Refuse(t) \/ SetMessage(t) \/ PushId(t)
              \/ ExpireQueue(t) \/ Publish(t) \/ FailSend(t)
       PROVE  rcpt'[s] = rcpt[s] /\ at'[s] = at[s] /\ spc'[s] = spc[s]
  BY <1>0, <1>10 DEF Accept, Refuse, SetMessage, PushId, ExpireQueue, Publish, FailSend, TypeOK
<1>11. CASE Tick \/ UNCHANGED vars
  BY <1>3, <1>11 DEF Tick, vars
<1>12. ASSUME NEW a \in Ack, AckGet(a) \/ AckTTL(a) \/ AckSet(a) \/ AckRemove(a) \/ FailAck(a)
       PROVE  rcpt'[s] = rcpt[s] /\ at'[s] = at[s] /\ spc'[s] = spc[s]
  BY <1>12 DEF AckGet, AckTTL, AckSet, AckRemove, FailAck
<1> QED BY <1>0, <1>3, <1>4, <1>5, <1>6, <1>7, <1>8, <1>9, <1>10, <1>11, <1>12 DEF Next

\* A message is alive because it was, with the TTL it had, or because it was just set.
LEMMA LiveBefore ==
  ASSUME TypeInv, [Next]_vars, NEW m \in MsgId, Live(m)'
  PROVE  \/ Live(m) /\ msg'[m] = msg[m]
         \/ /\ SetMessage(m[1]) /\ Dest(m[1]) = m[2]
            /\ msg'[m].exp = now + TTL
<1>0. TypeOK /\ PlacesOK
  BY DEF TypeInv
<1> USE DEF sending, acking, redis
<1>1. CASE UNCHANGED msg
  BY <1>1 DEF Live
<1>2. CASE Tick
  BY <1>0, <1>2 DEF Tick, Live, TypeOK
<1>3. ASSUME NEW s \in Send, SetMessage(s)
      PROVE  \/ Live(m) /\ msg'[m] = msg[m]
             \/ SetMessage(m[1]) /\ Dest(m[1]) = m[2] /\ msg'[m].exp = now + TTL
  <2>1. PICK e \in MsgId : e = <<s, Dest(s)>>
    BY <1>3, DestIsDevice DEF SetMessage
  <2>2. msg' = [msg EXCEPT ![e] = [sid |-> sid[s], delivered |-> FALSE, exp |-> now + TTL]]
    BY <1>3, <2>1 DEF SetMessage
  <2>3. CASE m = e
    <3>1. msg'[m].exp = now + TTL
      BY <1>0, <2>2, <2>3 DEF TypeOK
    <3>2. m[1] = s /\ m[2] = Dest(s)
      BY <2>1, <2>3
    <3> QED BY <1>3, <3>1, <3>2
  <2>4. CASE m # e
    <3>1. msg'[m] = msg[m]
      BY <1>0, <2>2, <2>4 DEF TypeOK
    <3> QED BY <3>1 DEF Live
  <2> QED BY <2>3, <2>4
<1>4. ASSUME NEW a \in Ack, AckSet(a) PROVE Live(m) /\ msg'[m] = msg[m]
  <2>1. PICK new : new.delivered /\ (UNCHANGED msg \/ msg' = [msg EXCEPT ![areq[a]] = new])
    <3> DEFINE n == [sid |-> sid[areq[a][1]], delivered |-> TRUE,
                     exp |-> IF attl[a] = Never THEN Never ELSE now + attl[a]]
    <3>1. n.delivered /\ (UNCHANGED msg \/ msg' = [msg EXCEPT ![areq[a]] = n])
      BY <1>4 DEF AckSet, Unchecked
    <3> QED BY <3>1
  <2>2. msg'[m] = msg[m]
    BY <1>0, <2>1 DEF TypeOK, Live
  <2> QED BY <2>2 DEF Live
<1>5. ASSUME NEW s \in Send,
             Accept(s) \/ Refuse(s) \/ PushId(s) \/ ExpireQueue(s) \/ Publish(s) \/ FailSend(s)
      PROVE  UNCHANGED msg
  BY <1>5 DEF Accept, Refuse, PushId, ExpireQueue, Publish, FailSend
<1>6. ASSUME NEW a \in Ack, AckGet(a) \/ AckTTL(a) \/ AckRemove(a) \/ FailAck(a)
      PROVE  UNCHANGED msg
  BY <1>6 DEF AckGet, AckTTL, AckRemove, FailAck
<1> QED BY <1>1, <1>2, <1>3, <1>4, <1>5, <1>6 DEF Next, vars

\* An id of a queue that is neither the one acknowledged nor in a queue that ends stays there.
LEMMA QueuedStays ==
  ASSUME TypeInv, [Next]_vars, NEW m \in MsgId, NEW i \in DOMAIN queue[m[2]], queue[m[2]][i] = m,
         ~(Tick /\ Ends(qexp[m[2]])), \A a \in Ack : AckRemove(a) => areq[a] # m
  PROVE  \E j \in DOMAIN queue'[m[2]] : queue'[m[2]][j] = m
<1>0. TypeOK /\ m[2] \in Device /\ queue[m[2]] \in Seq(MsgId)
  BY DEF TypeInv, TypeOK, MsgId
<1> USE DEF sending, acking, redis
<1>1. CASE queue'[m[2]] = queue[m[2]]
  BY <1>1
<1>2. CASE Tick
  BY <1>0, <1>1, <1>2 DEF Tick, TypeOK
<1>3. ASSUME NEW s \in Send, PushId(s) PROVE \E j \in DOMAIN queue'[m[2]] : queue'[m[2]][j] = m
  <2>1. PICK h \in Device : h = Dest(s)
    BY <1>3, PushEffect
  <2>2. CASE h = m[2]
    <3>1. /\ Len(queue[h]) \in Nat /\ DOMAIN queue[h] = 1..Len(queue[h])
          /\ DOMAIN queue'[h] = 1..(Len(queue[h]) + 1)
          /\ \A j \in 1..Len(queue[h]) : queue'[h][j] = queue[h][j]
      BY <1>3, <2>1, PushEffect
    <3>2. i \in DOMAIN queue'[h] /\ queue'[h][i] = m
      BY <2>2, <3>1
    <3> QED BY <2>2, <3>2
  <2>3. CASE h # m[2]
    <3>1. \A d \in Device \ {h} : queue'[d] = queue[d]
      BY <1>3, <2>1, PushEffect
    <3>2. queue'[m[2]] = queue[m[2]]
      BY <1>0, <2>3, <3>1
    <3> QED BY <1>1, <3>2
  <2> QED BY <2>2, <2>3
<1>4. ASSUME NEW a \in Ack, AckRemove(a) PROVE \E j \in DOMAIN queue'[m[2]] : queue'[m[2]][j] = m
  <2> DEFINE q == queue[m[2]]
  <2>1. queue'[m[2]] = q \/ queue'[m[2]] = RemoveFirst(q, areq[a])
    BY <1>0, <1>4 DEF AckRemove, Unchecked, TypeOK
  <2>2. q \in Seq(MsgId) /\ i \in DOMAIN q /\ q[i] = m /\ areq[a] # m
    BY <1>0, <1>4
  <2> HIDE DEF q
  <2>3. ASSUME NEW k \in 1..Len(q), q[k] = areq[a], queue'[m[2]] = RemoveAt(q, k)
        PROVE  \E j \in DOMAIN queue'[m[2]] : queue'[m[2]][j] = m
    <3>1. /\ Len(q) \in Nat /\ DOMAIN q = 1..Len(q) /\ DOMAIN queue'[m[2]] = 1..(Len(q) - 1)
          /\ \A j \in 1..(Len(q) - 1) : queue'[m[2]][j] = q[IF j < k THEN j ELSE j + 1]
      BY <2>2, <2>3, WithoutOne
    <3>2. i \in 1..Len(q) /\ i # k
      BY <2>2, <2>3, <3>1
    <3>3. PICK j \in 1..(Len(q) - 1) : i = IF j < k THEN j ELSE j + 1
      <4>1. CASE i < k
        BY <3>1, <3>2, <4>1
      <4>2. CASE i > k
        <5>1. i - 1 \in 1..(Len(q) - 1) /\ ~(i - 1 < k) /\ i = (i - 1) + 1
          BY <3>1, <3>2, <4>2
        <5> QED BY <5>1
      <4> QED BY <3>1, <3>2, <4>1, <4>2
    <3> QED BY <2>2, <3>1, <3>3
  <2>4. CASE queue'[m[2]] = q
    BY <2>2, <2>4
  <2> QED BY <2>1, <2>2, <2>3, <2>4, RemovedFirst
<1>5. ASSUME NEW s \in Send,
             Accept(s) \/ Refuse(s) \/ SetMessage(s) \/ ExpireQueue(s) \/ Publish(s) \/ FailSend(s)
      PROVE  queue'[m[2]] = queue[m[2]]
  BY <1>5 DEF Accept, Refuse, SetMessage, ExpireQueue, Publish, FailSend
<1>6. ASSUME NEW a \in Ack, AckGet(a) \/ AckTTL(a) \/ AckSet(a) \/ FailAck(a)
      PROVE  queue'[m[2]] = queue[m[2]]
  BY <1>6 DEF AckGet, AckTTL, AckSet, FailAck
<1> QED BY <1>1, <1>2, <1>3, <1>4, <1>5, <1>6 DEF Next, vars

\* What is held was pushed.
LEMMA ReachedIsPushed ==
  ASSUME TypeInv, NEW m \in MsgId, NEW stages \in {{"publish"}, {"expire", "publish"}},
         Reached(m, stages)
  PROVE  Pushed(m)
<1>1. PICK k \in DOMAIN rcpt[m[1]] :
        /\ rcpt[m[1]][k] = m[2]
        /\ k < at[m[1]] \/ spc[m[1]] = "sent" \/ (k = at[m[1]] /\ spc[m[1]] \in stages)
  BY DEF Reached
<1>2. m[1] \in Send /\ rcpt[m[1]] \in Seq(Device) /\ at[m[1]] \in Nat
  BY DEF MsgId, TypeInv, TypeOK
<1>3. k \in Nat /\ (spc[m[1]] = "sent" => k <= at[m[1]])
  BY <1>1, <1>2 DEF TypeInv, PlacesOK
<1> QED BY <1>1, <1>2, <1>3 DEF Pushed, PushedAt

\* Nothing becomes clean: recipients are settled once, failures are not undone.
LEMMA CleanBefore ==
  ASSUME TypeInv, [Next]_vars, NEW m \in MsgId, Clean(m)', rcpt'[m[1]] = rcpt[m[1]]
  PROVE  Clean(m)
BY DroppedStays DEF Clean

\* Messages live for a TTL at most.
LEMMA LivesForTTL ==
  ASSUME Inv, PendingOK, [Next]_vars, NEW m \in MsgId, Live(m)'
  PROVE  msg'[m].exp # Never /\ msg'[m].exp <= now' + TTL
<1>0. TypeInv /\ TypeOK /\ now \in Nat /\ TTL \in Nat \ {0}
  BY SizeAssumption DEF Inv, TypeInv, TypeOK
<1>1. now' \in {now, now + 1}
  BY DEF Next, vars, sending, acking, redis, Tick, Accept, Refuse, SetMessage, PushId, ExpireQueue,
         Publish, FailSend, AckGet, AckTTL, AckSet, AckRemove, FailAck
<1>2. CASE Live(m) /\ msg'[m] = msg[m]
  <2>1. msg[m].exp \in Nat /\ msg[m].exp # Never /\ msg[m].exp <= now + TTL
    BY <1>0, <1>2 DEF PendingOK, Live, TypeOK, Message
  <2> QED BY <1>0, <1>1, <1>2, <2>1
<1>3. CASE SetMessage(m[1]) /\ msg'[m].exp = now + TTL
  <2>1. now' = now
    BY <1>3 DEF SetMessage
  <2> QED BY <1>0, <1>3, <2>1 DEF Never
<1> QED BY <1>0, <1>2, <1>3, LiveBefore

\* A message is cut off by a tick alone, at the EXPIRE of its send, and for good.
LEMMA CutStep ==
  ASSUME TypeInv, [Next]_vars, NEW m \in MsgId
  PROVE  /\ m \in cut => m \in cut'
         /\ m \in cut' \ cut => Tick /\ spc[m[1]] = "expire" /\ Dest(m[1]) = m[2]
         /\ Tick /\ spc[m[1]] = "expire" /\ Dest(m[1]) = m[2] /\ Ends(qexp[m[2]]) => m \in cut'
<1>0. m[1] \in Send /\ m = <<m[1], m[2]>>
  BY DEF MsgId
<1>1. CASE Tick
  <2>1. \A s \in Send : \A d : <<s, d>> = m <=> s = m[1] /\ d = m[2]
    BY <1>0
  <2>2. cut' = cut \cup {<<s, Dest(s)>> : s \in {t \in Send : spc[t] = "expire" /\ Ends(qexp[Dest(t)])}}
    BY <1>1 DEF Tick
  <2> QED BY <1>0, <1>1, <2>1, <2>2
<1>2. CASE UNCHANGED cut
  BY <1>1, <1>2
<1> QED
  BY <1>1, <1>2 DEF Next, vars, Accept, Refuse, SetMessage, PushId, ExpireQueue, Publish, FailSend,
     AckGet, AckTTL, AckSet, AckRemove, FailAck

\* What is stored to the end, for a recipient named once, is cut off no more.
LEMMA StoredIsNotCut ==
  ASSUME TypeInv, [Next]_vars, NEW m \in MsgId, Clean(m), m \notin cut,
         Stored(m) \/ (Publish(m[1]) /\ Dest(m[1]) = m[2])
  PROVE  m \notin cut'
<1> SUFFICES ASSUME m \in cut' PROVE FALSE
  OBVIOUS
<1>1. spc[m[1]] = "expire" /\ Dest(m[1]) = m[2] /\ m[1] \in Send
  BY CutStep DEF MsgId
<1>2. at[m[1]] \in DOMAIN rcpt[m[1]] /\ rcpt[m[1]][at[m[1]]] = m[2] /\ at[m[1]] \in Nat
  BY <1>1, DestIsDevice DEF Dest, TypeInv, TypeOK
<1>3. \A k \in DOMAIN rcpt[m[1]] : rcpt[m[1]][k] = m[2] => k = at[m[1]]
  BY <1>2 DEF Clean, IsInjective
<1>4. ~Publish(m[1])
  BY <1>1 DEF Publish
<1> QED BY <1>1, <1>2, <1>3, <1>4 DEF Stored

\* A clean message that lives is queued from its push on, unless it is cut off.
LEMMA HeldIsQueued ==
  ASSUME Inv, PendingOK, [Next]_vars, NEW m \in MsgId, Clean(m)', Live(m)', Held(m)', m \notin cut'
  PROVE  \E i \in DOMAIN queue'[m[2]] : queue'[m[2]][i] = m
<1>0. TypeInv /\ TypeOK /\ m[1] \in Send /\ m[2] \in Device
  BY DEF Inv, TypeInv, MsgId
<1>1. rcpt'[m[1]] = rcpt[m[1]] /\ (Held(m) \/ (PushId(m[1]) /\ Dest(m[1]) = m[2]))
  BY <1>0, ReachedBefore DEF Held
<1>2. Clean(m)
  BY <1>0, <1>1, CleanBefore
<1>3. CASE PushId(m[1]) /\ Dest(m[1]) = m[2]
  <2>1. PICK s \in Send, h \in Device : s = m[1] /\ h = m[2] /\ m = <<s, h>>
    BY DEF MsgId
  <2>2. /\ Len(queue[h]) \in Nat /\ DOMAIN queue'[h] = 1..(Len(queue[h]) + 1)
        /\ queue'[h][Len(queue[h]) + 1] = <<s, h>>
    BY <1>0, <1>3, <2>1, PushEffect
  <2> QED BY <2>1, <2>2
<1>4. CASE Held(m)
  <2>1. Pushed(m)
    BY <1>0, <1>4, ReachedIsPushed DEF Held
  <2>2. Live(m) /\ msg'[m] = msg[m]
    BY <1>0, <1>2, <2>1, LiveBefore, NotStoredAgain DEF SetMessage, Clean
  <2>3. PICK i \in DOMAIN queue[m[2]] : queue[m[2]][i] = m
    BY <1>0, <1>2, <1>4, <2>2, CutStep DEF PendingOK
  <2>4. ~(Tick /\ Ends(qexp[m[2]]))
    <3> SUFFICES ASSUME Tick, Ends(qexp[m[2]]) PROVE FALSE
      OBVIOUS
    <3>1. Covered(m)
      <4>1. ~(spc[m[1]] = "expire" /\ Dest(m[1]) = m[2])
        BY <1>0, CutStep
      <4> QED BY <1>4, <4>1 DEF Held, Covered, Reached, Dest
    <3>2. qexp[m[2]] = Never \/ qexp[m[2]] >= msg[m].exp
      BY <1>2, <2>2, <3>1 DEF PendingOK
    <3>3. msg[m].exp \in Nat /\ qexp[m[2]] \in Nat /\ now \in Nat
      BY <1>0, <2>2, SizeAssumption DEF TypeOK, Message, Live
    <3>4. msg[m].exp # Never /\ msg[m].exp <= now + 1
      BY <2>2, <3>2, <3>3 DEF Ends, PendingOK
    <3>5. msg'[m] = NoMessage
      BY <2>2, <3>4 DEF Tick, Ends, Live
    <3> QED BY <2>2, <3>5 DEF Live
  <2>5. \A a \in Ack : AckRemove(a) => areq[a] # m
    BY <1>2, <2>2 DEF PendingOK, AckRemove
  <2> QED BY <1>0, <2>3, <2>4, <2>5, QueuedStays
<1> QED BY <1>1, <1>3, <1>4

\* The queue of a clean message that lives outlasts it, from the EXPIRE on.
LEMMA CoveredIsOutlasted ==
  ASSUME Inv, PendingOK, [Next]_vars, NEW m \in MsgId, Clean(m)', Live(m)', Covered(m)'
  PROVE  qexp'[m[2]] = Never \/ qexp'[m[2]] >= msg'[m].exp
<1>0. TypeInv /\ TypeOK /\ m[1] \in Send /\ m[2] \in Device
  BY DEF Inv, TypeInv, MsgId
<1>n. now \in Nat /\ TTL \in Nat
  BY <1>0, SizeAssumption DEF TypeOK
<1>1. rcpt'[m[1]] = rcpt[m[1]] /\ (Covered(m) \/ (ExpireQueue(m[1]) /\ Dest(m[1]) = m[2]))
  BY <1>0, ReachedBefore DEF Covered
<1>2. Clean(m) /\ Pushed(m)
  <2>1. Clean(m)
    BY <1>0, <1>1, CleanBefore
  <2>2. ASSUME ExpireQueue(m[1]), Dest(m[1]) = m[2] PROVE Held(m)
    <3>1. spc[m[1]] = "expire"
      BY <2>2 DEF ExpireQueue
    <3>2. at[m[1]] \in DOMAIN rcpt[m[1]] /\ rcpt[m[1]][at[m[1]]] = m[2]
      BY <1>0, <2>2, <3>1, DestIsDevice DEF Dest
    <3> QED BY <3>1, <3>2 DEF Held, Reached
  <2>3. Covered(m) => Held(m)
    BY DEF Covered, Held, Reached
  <2> QED BY <1>0, <1>1, <2>1, <2>2, <2>3, ReachedIsPushed DEF Held
<1>3. Live(m) /\ msg'[m] = msg[m]
  BY <1>0, <1>2, LiveBefore, NotStoredAgain DEF SetMessage, Clean
<1>4. /\ msg[m].exp \in Nat /\ qexp[m[2]] \in Nat
      /\ msg[m].exp # Never /\ msg[m].exp <= now + TTL
  BY <1>0, <1>3 DEF PendingOK, Live, TypeOK, Message
<1> USE DEF sending, acking, redis
<1>5. CASE qexp'[m[2]] \in {Never, now + TTL}
  BY <1>n, <1>3, <1>4, <1>5
<1>6. CASE qexp'[m[2]] = qexp[m[2]] /\ Covered(m)
  BY <1>2, <1>3, <1>6 DEF PendingOK
<1>7. CASE ExpireQueue(m[1]) /\ Dest(m[1]) = m[2]
  <2>1. dropped' # Append(dropped, m[2])
    BY <1>0, NotDropped DEF Clean
  <2>2. qexp' = [qexp EXCEPT ![m[2]] = IF queue[m[2]] = <<>> THEN Never ELSE now + TTL]
    BY <1>7, <2>1 DEF ExpireQueue, Unchecked
  <2> QED BY <1>0, <1>5, <2>2 DEF TypeOK
<1>8. CASE Covered(m)
  <2>1. CASE UNCHANGED qexp
    BY <1>6, <1>8, <2>1
  <2>2. CASE Tick
    <3>1. qexp'[m[2]] \in {Never, qexp[m[2]]}
      BY <1>0, <2>2 DEF Tick, TypeOK
    <3> QED BY <1>5, <1>6, <1>8, <3>1
  <2>3. ASSUME NEW s \in Send, ExpireQueue(s)
        PROVE  qexp'[m[2]] \in {Never, now + TTL, qexp[m[2]]}
    <3>1. qexp' = qexp \/ \E e \in {Never, now + TTL} : qexp' = [qexp EXCEPT ![Dest(s)] = e]
      BY <2>3 DEF ExpireQueue, Unchecked
    <3> QED BY <1>0, <3>1 DEF TypeOK
  <2>4. ASSUME NEW a \in Ack, AckRemove(a)
        PROVE  qexp'[m[2]] \in {Never, qexp[m[2]]}
    <3>1. qexp' = qexp \/ \E e \in {Never, qexp[areq[a][2]]} : qexp' = [qexp EXCEPT ![areq[a][2]] = e]
      BY <2>4 DEF AckRemove, Unchecked
    <3> QED BY <1>0, <3>1 DEF TypeOK
  <2>5. ASSUME NEW s \in Send, Accept(s) \/ Refuse(s) \/ SetMessage(s) \/ PushId(s) \/ Publish(s) \/ FailSend(s)
        PROVE  UNCHANGED qexp
    BY <2>5 DEF Accept, Refuse, SetMessage, PushId, Publish, FailSend
  <2>6. ASSUME NEW a \in Ack, AckGet(a) \/ AckTTL(a) \/ AckSet(a) \/ FailAck(a)
        PROVE  UNCHANGED qexp
    BY <2>6 DEF AckGet, AckTTL, AckSet, FailAck
  <2> QED BY <1>5, <1>6, <1>8, <2>1, <2>2, <2>3, <2>4, <2>5, <2>6 DEF Next, vars
<1> QED BY <1>1, <1>7, <1>8

\* Who is about to remove an id has marked its message, or failed to unseen.
LEMMA RemovedIsMarked ==
  ASSUME Inv, PendingOK, [Next]_vars, NEW a \in Ack, apc'[a] = "remove",
         NEW m \in MsgId, m = areq'[a], Clean(m)'
  PROVE  ~Live(m)'
<1>0. TypeInv /\ TypeOK /\ PlacesOK /\ m[1] \in Send /\ m[2] \in Device
  BY DEF Inv, TypeInv, MsgId
<1> USE DEF sending, acking, redis
<1>1. CASE apc[a] = "remove" /\ areq[a] = m
  <2>1. Pushed(m)
    BY <1>1 DEF Inv, OnceOK
  <2>2. rcpt'[m[1]] = rcpt[m[1]]
    BY <1>0, <2>1, PushedStays
  <2>3. Clean(m)
    BY <1>0, <2>2, CleanBefore
  <2>4. ~Live(m)
    BY <1>1, <2>3 DEF PendingOK
  <2>5. ~(SetMessage(m[1]) /\ Dest(m[1]) = m[2])
    BY <1>0, <2>1, <2>3, NotStoredAgain DEF SetMessage, Clean
  <2> QED BY <1>0, <2>4, <2>5, LiveBefore
<1>2. CASE AckSet(a)
  <2>1. areq[a] = m
    BY <1>2 DEF AckSet
  <2>2. dropped' # Append(dropped, m[2])
    BY <1>0, NotDropped DEF Clean
  <2>3. msg'[m].delivered
    BY <1>0, <1>2, <2>1, <2>2 DEF AckSet, Unchecked, TypeOK
  <2> QED BY <2>3 DEF Live
<1>3. ASSUME NEW b \in Ack, b # a, AckGet(b) \/ AckTTL(b) \/ AckSet(b) \/ AckRemove(b) \/ FailAck(b)
      PROVE  apc[a] = "remove" /\ areq[a] = m
  BY <1>0, <1>3 DEF AckGet, AckTTL, AckSet, AckRemove, FailAck, AckGoto, AckDone, TypeOK
<1>4. ASSUME AckGet(a) \/ AckTTL(a) \/ AckRemove(a) \/ FailAck(a)
      PROVE  FALSE
  BY <1>0, <1>4 DEF AckGet, AckTTL, AckRemove, FailAck, AckGoto, AckDone, TypeOK
<1>5. ASSUME Tick \/ UNCHANGED vars \/ \E s \in Send :
                \/ Accept(s) \/ Refuse(s) \/ SetMessage(s) \/ PushId(s)
                \/ ExpireQueue(s) \/ Publish(s) \/ FailSend(s)
      PROVE  apc[a] = "remove" /\ areq[a] = m
  BY <1>5 DEF Tick, vars, Accept, Refuse, SetMessage, PushId, ExpireQueue, Publish, FailSend
<1> QED BY <1>1, <1>2, <1>3, <1>4, <1>5 DEF Next

\* Nothing is pending to begin with, and every step keeps what is pending in its queue.
LEMMA InitPending == Init => PendingOK
BY DEF Init, PendingOK, Live

LEMMA NextPending == Inv /\ PendingOK /\ [Next]_vars => PendingOK'
<1> SUFFICES ASSUME Inv, PendingOK, [Next]_vars PROVE PendingOK'
  OBVIOUS
<1>1. \A m \in MsgId : Live(m)' => msg'[m].exp # Never /\ msg'[m].exp <= now' + TTL
  BY LivesForTTL
<1>2. \A m \in MsgId : Clean(m)' /\ Live(m)' /\ Held(m)' /\ m \notin cut' =>
         \E i \in DOMAIN queue'[m[2]] : queue'[m[2]][i] = m
  BY HeldIsQueued
<1>3. \A m \in MsgId : Clean(m)' /\ Live(m)' /\ Covered(m)' =>
         qexp'[m[2]] = Never \/ qexp'[m[2]] >= msg'[m].exp
  BY CoveredIsOutlasted
<1>4. ASSUME NEW a \in Ack, apc'[a] = "remove" PROVE ~Live(areq[a])' \/ ~Clean(areq[a])'
  <2>1. PICK m \in MsgId : m = areq'[a]
    BY <1>4, NextType DEF Inv, TypeInv, PlacesOK
  <2>2. Clean(m)' => ~Live(m)'
    BY <1>4, <2>1, RemovedIsMarked
  <2> QED BY <2>1, <2>2 DEF Live, Clean
<1> QED BY <1>1, <1>2, <1>3, <1>4 DEF PendingOK

\* What is in every queue: the whole invariant, from any state the relay starts in.
THEOREM Invariance == Spec => [](Inv /\ PendingOK)
<1>1. Init => Inv /\ PendingOK
  BY InitType, InitQueue, InitOnce, InitPending DEF Inv
<1>2. Inv /\ PendingOK /\ [Next]_vars => (Inv /\ PendingOK)'
  BY NextType, NextQueue, NextOnce, NextPending DEF Inv
<1> QED BY <1>1, <1>2, PTL DEF Spec

\* A stored message that nobody has acknowledged is found in its recipient's queue for as
\* long as it lives, unless the queue ended between its own RPUSH and EXPIRE: every push
\* renews the queue's TTL, and an id is only removed once its message is marked.
THEOREM PendingStaysQueued == Spec => []PendingIsQueued
<1>1. Inv /\ PendingOK => PendingIsQueued
  <2> SUFFICES ASSUME Inv, PendingOK, NEW m \in MsgId \ cut, Clean(m), Stored(m),
                      msg[m] # NoMessage, ~msg[m].delivered
               PROVE  m \in ToSet(queue[To(m)])
    BY DEF PendingIsQueued
  <2>1. Held(m)
    BY DEF Stored, Held, Reached
  <2>2. \E i \in DOMAIN queue[m[2]] : queue[m[2]][i] = m
    BY <2>1 DEF PendingOK, Live
  <2> QED BY <2>2 DEF ToSet
<1> QED BY <1>1, Invariance, PTL

-----------------------------------------------------------------------------
(* Mailboxes                                                                  *)

\* What waits in a mailbox; with PendingOK, what a poll finds is just this.
Waits(m) == Clean(m) /\ Stored(m) /\ Live(m) /\ m \notin cut

Box == {[id |-> m, to |-> To(m), end |-> msg[m].exp] : m \in {k \in MsgId : Pending(k)}}

Open == {m \in MsgId : spc[m[1]] \notin {"sent", "failed"} /\ ~Stored(m)}

LEMMA PollsFindWaiting == Inv /\ PendingOK => \A m \in MsgId : Pending(m) <=> Waits(m)
<1> SUFFICES ASSUME Inv, PendingOK, NEW m \in MsgId, Waits(m) PROVE Pending(m)
  BY DEF Pending, Waits, Live
<1>1. Held(m)
  BY DEF Waits, Stored, Held, Reached
<1>2. \E i \in DOMAIN queue[m[2]] : queue[m[2]][i] = m
  BY <1>1 DEF PendingOK, Waits
<1> QED BY <1>2 DEF Pending, Waits, Live, ToSet

\* The answer to a recipient's part of a send is what stores its message to the end.
LEMMA StoredStep ==
  ASSUME TypeInv, [Next]_vars, NEW m \in MsgId
  PROVE  Stored(m)' <=> Stored(m) \/ (Publish(m[1]) /\ Dest(m[1]) = m[2])
<1> DEFINE s == m[1]
<1>0. TypeOK /\ PlacesOK /\ s \in Send /\ at[s] \in Nat /\ rcpt[s] \in Seq(Device)
  BY DEF TypeInv, TypeOK, MsgId
<1> USE DEF sending, acking, redis
<1>1. ASSUME rcpt'[s] = rcpt[s], at'[s] = at[s], spc'[s] # "sent", spc[s] # "sent"
      PROVE  Stored(m)' <=> Stored(m)
  BY <1>1 DEF Stored
<1>2. CASE Publish(s)
  <2>1. spc[s] = "publish" /\ rcpt' = rcpt /\ at[s] >= 1 /\ at[s] <= Len(rcpt[s])
    BY <1>0, <1>2 DEF Publish, PlacesOK
  <2>2. CASE at[s] = Len(rcpt[s])
    <3>1. spc'[s] = "sent" /\ \A k \in DOMAIN rcpt[s] : k < at[s] \/ k = at[s]
      BY <1>0, <1>2, <2>2 DEF Publish, TypeOK
    <3>2. at[s] \in DOMAIN rcpt[s]
      BY <1>0, <2>1
    <3> QED BY <1>2, <2>1, <3>1, <3>2 DEF Stored, Dest
  <2>3. CASE at[s] # Len(rcpt[s])
    <3>1. spc'[s] = "store" /\ at'[s] = at[s] + 1
      BY <1>0, <1>2, <2>3 DEF Publish, TypeOK
    <3>2. \A k \in DOMAIN rcpt[s] : k < at'[s] <=> k < at[s] \/ k = at[s]
      BY <1>0, <3>1
    <3>3. at[s] \in DOMAIN rcpt[s]
      BY <1>0, <2>1
    <3> QED BY <1>2, <2>1, <3>1, <3>2, <3>3 DEF Stored, Dest
  <2> QED BY <2>2, <2>3
<1>3. CASE UNCHANGED <<spc, rcpt, at>>
  <2>1. ~Publish(s)
    BY <1>0, <1>3 DEF Publish, TypeOK
  <2> QED BY <1>3, <2>1 DEF Stored
<1>4. ASSUME NEW t \in Send, t # s,
             \/ Accept(t) \/ Refuse(t) \/ SetMessage(t) \/ PushId(t)
             \/ ExpireQueue(t) \/ Publish(t) \/ FailSend(t)
      PROVE  Stored(m)' <=> Stored(m) \/ (Publish(s) /\ Dest(s) = m[2])
  <2>1. rcpt'[s] = rcpt[s] /\ at'[s] = at[s] /\ spc'[s] = spc[s]
    BY <1>0, <1>4 DEF Accept, Refuse, SetMessage, PushId, ExpireQueue, Publish, FailSend, TypeOK
  <2>2. ~Publish(s)
    BY <1>0, <2>1 DEF Publish, TypeOK
  <2> QED BY <2>1, <2>2 DEF Stored
<1>5. CASE Accept(s)
  <2>1. at'[s] = 1 /\ rcpt[s] = <<>> /\ spc[s] = "new"
        /\ spc'[s] = IF rcpt'[s] = <<>> THEN "sent" ELSE "store"
    BY <1>0, <1>5 DEF Accept, PlacesOK, TypeOK
  <2>2. rcpt'[s] \in Seq(Device)
    BY <1>0, NextType DEF TypeInv, TypeOK
  <2>3. \A k \in DOMAIN rcpt'[s] : ~(k < at'[s]) /\ spc'[s] # "sent"
    BY <2>1, <2>2
  <2>4. ~Stored(m)'
    BY <2>3 DEF Stored
  <2>5. ~Stored(m)
    BY <2>1 DEF Stored
  <2> QED BY <2>1, <2>4, <2>5 DEF Publish
<1>6. ASSUME Refuse(s) \/ SetMessage(s) \/ PushId(s) \/ ExpireQueue(s) \/ FailSend(s)
      PROVE  Stored(m)' <=> Stored(m) \/ (Publish(s) /\ Dest(s) = m[2])
  <2>1. /\ rcpt' = rcpt /\ at' = at /\ spc[s] # "sent"
        /\ spc'[s] \in {"failed", "push", "expire", "publish"}
    BY <1>0, <1>6 DEF Refuse, SetMessage, PushId, ExpireQueue, FailSend, TypeOK
  <2>2. ~Publish(s)
    BY <1>0, <2>1 DEF Publish, TypeOK
  <2> QED BY <1>1, <2>1, <2>2
<1>7. ASSUME Tick \/ UNCHANGED vars
             \/ \E a \in Ack : AckGet(a) \/ AckTTL(a) \/ AckSet(a) \/ AckRemove(a) \/ FailAck(a)
      PROVE  UNCHANGED <<spc, rcpt, at>>
  BY <1>7 DEF Tick, vars, AckGet, AckTTL, AckSet, AckRemove, FailAck
<1> QED BY <1>0, <1>2, <1>3, <1>4, <1>5, <1>6, <1>7 DEF Next

\* What is pushed stays alive, unless its time is over or it is marked.
LEMMA LiveStays ==
  ASSUME TypeInv, [Next]_vars, NEW m \in MsgId, Pushed(m), Clean(m), Live(m),
         ~(Tick /\ Ends(msg[m].exp)), \A a \in Ack : ~(AckSet(a) /\ areq[a] = m)
  PROVE  msg'[m] = msg[m]
<1>0. TypeOK /\ PlacesOK /\ m[1] \in Send
  BY DEF TypeInv, MsgId
<1> USE DEF sending, acking, redis
<1>1. CASE UNCHANGED msg
  BY <1>1
<1>2. CASE Tick
  BY <1>0, <1>2 DEF Tick, TypeOK
<1>3. ASSUME NEW s \in Send, SetMessage(s) PROVE msg'[m] = msg[m]
  <2>1. spc[s] = "store"
    BY <1>3 DEF SetMessage
  <2>2. <<s, Dest(s)>> # m
    BY <2>1, NotStoredAgain DEF Clean
  <2> QED BY <1>0, <1>3, <2>2 DEF SetMessage, TypeOK
<1>4. ASSUME NEW a \in Ack, AckSet(a) PROVE msg'[m] = msg[m]
  BY <1>0, <1>4 DEF AckSet, Unchecked, TypeOK
<1>5. ASSUME NEW s \in Send,
             Accept(s) \/ Refuse(s) \/ PushId(s) \/ ExpireQueue(s) \/ Publish(s) \/ FailSend(s)
      PROVE  UNCHANGED msg
  BY <1>5 DEF Accept, Refuse, PushId, ExpireQueue, Publish, FailSend
<1>6. ASSUME NEW a \in Ack, AckGet(a) \/ AckTTL(a) \/ AckRemove(a) \/ FailAck(a)
      PROVE  UNCHANGED msg
  BY <1>6 DEF AckGet, AckTTL, AckRemove, FailAck
<1>7. CASE UNCHANGED vars
  BY <1>1, <1>7 DEF vars
<1> QED BY <1>1, <1>2, <1>3, <1>4, <1>5, <1>6, <1>7 DEF Next

\* A message waits from the answer to its part of the send on, until its time is over,
\* it is marked, or its mailbox is spoiled.
LEMMA WaitsStep ==
  ASSUME Inv, PendingOK, [Next]_vars, NEW m \in MsgId
  PROVE  /\ Waits(m)' <=>
              /\ Clean(m) /\ Live(m) /\ m \notin cut
              /\ Stored(m) \/ (Publish(m[1]) /\ Dest(m[1]) = m[2])
              /\ ~(Tick /\ Ends(msg[m].exp))
              /\ \A a \in Ack : ~(AckSet(a) /\ areq[a] = m)
              /\ m[2] \notin ToSet(dropped')
         /\ Waits(m)' => msg'[m] = msg[m]
<1>0. TypeInv /\ TypeOK /\ PlacesOK /\ m[1] \in Send /\ m[2] \in Device
  BY DEF Inv, TypeInv, MsgId
<1>1. Stored(m) \/ (Publish(m[1]) /\ Dest(m[1]) = m[2]) => Pushed(m)
  <2>1. ASSUME Publish(m[1]), Dest(m[1]) = m[2] PROVE Pushed(m)
    <3>1. spc[m[1]] = "publish"
      BY <2>1 DEF Publish
    <3>2. at[m[1]] \in DOMAIN rcpt[m[1]]
      BY <1>0, <3>1, DestIsDevice
    <3> QED BY <2>1, <3>1, <3>2 DEF Pushed, PushedAt, Dest
  <2> QED BY <1>0, <2>1, StoredIsPushed
<1>2. ASSUME Waits(m)'
      PROVE  /\ Clean(m) /\ Live(m) /\ m \notin cut /\ msg'[m] = msg[m]
             /\ Stored(m) \/ (Publish(m[1]) /\ Dest(m[1]) = m[2])
             /\ ~(Tick /\ Ends(msg[m].exp))
             /\ \A a \in Ack : ~(AckSet(a) /\ areq[a] = m)
             /\ m[2] \notin ToSet(dropped')
  <2>1. Stored(m) \/ (Publish(m[1]) /\ Dest(m[1]) = m[2])
    BY <1>0, <1>2, StoredStep DEF Waits
  <2>2. Pushed(m) /\ rcpt'[m[1]] = rcpt[m[1]]
    BY <1>0, <1>1, <2>1, PushedStays
  <2>3. Clean(m)
    BY <1>0, <1>2, <2>2, CleanBefore DEF Waits
  <2>4. ~(SetMessage(m[1]) /\ Dest(m[1]) = m[2])
    BY <1>0, <2>2, <2>3, NotStoredAgain DEF SetMessage, Clean
  <2>5. Live(m) /\ msg'[m] = msg[m]
    BY <1>0, <1>2, <2>4, LiveBefore DEF Waits
  <2>6. ~(Tick /\ Ends(msg[m].exp))
    BY <1>2, <2>5 DEF Tick, Live, Waits
  <2>7. m[2] \notin ToSet(dropped')
    BY <1>2 DEF Waits, Clean
  <2>8. ASSUME NEW a \in Ack, AckSet(a), areq[a] = m PROVE FALSE
    <3>1. dropped' # Append(dropped, m[2])
      BY <1>0, <2>7, NotDropped
    <3>2. msg'[m].delivered
      BY <1>0, <2>8, <3>1 DEF AckSet, Unchecked, TypeOK
    <3> QED BY <1>2, <3>2 DEF Waits, Live
  <2>9. m \notin cut
    BY <1>0, <1>2, CutStep DEF Waits
  <2> QED BY <2>1, <2>3, <2>5, <2>6, <2>7, <2>8, <2>9
<1>3. ASSUME Clean(m), Live(m), m \notin cut, Stored(m) \/ (Publish(m[1]) /\ Dest(m[1]) = m[2]),
             ~(Tick /\ Ends(msg[m].exp)), \A a \in Ack : ~(AckSet(a) /\ areq[a] = m),
             m[2] \notin ToSet(dropped')
      PROVE  Waits(m)'
  <2>1. Pushed(m) /\ rcpt'[m[1]] = rcpt[m[1]]
    BY <1>0, <1>1, <1>3, PushedStays
  <2>2. msg'[m] = msg[m]
    BY <1>0, <1>3, <2>1, LiveStays
  <2>3. Stored(m)'
    BY <1>0, <1>3, StoredStep
  <2>4. Clean(m)'
    BY <1>3, <2>1 DEF Clean
  <2>5. m \notin cut'
    BY <1>0, <1>3, StoredIsNotCut
  <2> QED BY <1>3, <2>2, <2>3, <2>4, <2>5 DEF Waits, Live
<1> QED BY <1>2, <1>3

\* The mailboxes are what waits, before a step and after it.
LEMMA BoxIsWaiting ==
  ASSUME Inv, PendingOK, Inv', PendingOK'
  PROVE  /\ Box = {[id |-> m, to |-> m[2], end |-> msg[m].exp] : m \in {k \in MsgId : Waits(k)}}
         /\ Box' = {[id |-> m, to |-> m[2], end |-> msg'[m].exp] : m \in {k \in MsgId : Waits(k)'}}
<1>1. \A m \in MsgId : Pending(m) <=> Waits(m)
  BY PollsFindWaiting
<1>2. (\A m \in MsgId : Pending(m) <=> Waits(m))'
  BY PollsFindWaiting, PTL
<1>3. {k \in MsgId : Pending(k)} = {k \in MsgId : Waits(k)}
  BY <1>1
<1>4. {k \in MsgId : Pending(k)'} = {k \in MsgId : Waits(k)'}
  BY <1>2
<1> QED BY <1>3, <1>4 DEF Box

\* What a step leaves in the mailboxes, if it takes away some ids and adds none.
LEMMA BoxWithout ==
  ASSUME Inv, PendingOK, [Next]_vars, Inv', PendingOK', NEW S \in SUBSET MsgId,
         \A m \in MsgId : Waits(m)' <=> Waits(m) /\ m \notin S
  PROVE  Box' = {p \in Box : p.id \notin S}
<1> DEFINE W == {k \in MsgId : Waits(k)}
           V == {k \in MsgId : Waits(k)'}
           E(m) == [id |-> m, to |-> m[2], end |-> msg[m].exp]
<1>1. Box = {E(m) : m \in W} /\ Box' = {[id |-> m, to |-> m[2], end |-> msg'[m].exp] : m \in V}
  BY BoxIsWaiting
<1>2. \A m \in V : msg'[m] = msg[m]
  BY WaitsStep
<1>3. Box' = {E(m) : m \in V}
  <2> HIDE DEF V
  <2> QED BY <1>1, <1>2
<1>4. V = {m \in W : m \notin S}
  OBVIOUS
<1>5. \A m : E(m).id = m
  OBVIOUS
<1> HIDE DEF V, W, E
<1> QED BY <1>1, <1>3, <1>4, <1>5

\* A step that is no tick, answers no part of a send and marks nothing takes away what it
\* spoils.
LEMMA WaitsSteady ==
  ASSUME Inv, PendingOK, [Next]_vars, now' = now,
         \A a \in Ack : ~(apc[a] = "set" /\ apc'[a] = "remove"),
         \A s \in Send : ~(spc[s] = "publish" /\ spc'[s] \in {"sent", "store"})
  PROVE  \A m \in MsgId : Waits(m)' <=> Waits(m) /\ m[2] \notin ToSet(dropped')
<1>0. TypeInv /\ TypeOK /\ now \in Nat
  BY SizeAssumption DEF Inv, TypeInv, TypeOK
<1>1. ~Tick
  BY <1>0 DEF Tick
<1>2. \A a \in Ack : ~AckSet(a)
  BY <1>0 DEF AckSet, AckGoto, TypeOK
<1>3. \A s \in Send : ~Publish(s)
  BY <1>0 DEF Publish, TypeOK
<1> TAKE m \in MsgId
<1>4. m[1] \in Send
  BY DEF MsgId
<1> QED BY <1>1, <1>2, <1>3, <1>4, WaitsStep DEF Waits

\* Such a step, when it spoils nothing, leaves the mailboxes as they are.
LEMMA BoxSteady ==
  ASSUME Inv, PendingOK, [Next]_vars, Inv', PendingOK', now' = now, UNCHANGED dropped,
         \A a \in Ack : ~(apc[a] = "set" /\ apc'[a] = "remove"),
         \A s \in Send : ~(spc[s] = "publish" /\ spc'[s] \in {"sent", "store"})
  PROVE  Box' = Box
<1>1. \A m \in MsgId : Waits(m)' <=> Waits(m)
  BY WaitsSteady DEF Waits, Clean
<1> DEFINE S == {}
<1>2. S \in SUBSET MsgId /\ \A m : m \notin S
  OBVIOUS
<1> HIDE DEF S
<1>3. Box' = {p \in Box : p.id \notin S}
  BY <1>1, <1>2, BoxWithout
<1> QED BY <1>2, <1>3

\* Where a command fails on a device's mailbox, just that mailbox is spoiled.
LEMMA BoxSpoils ==
  ASSUME Inv, PendingOK, [Next]_vars, Inv', PendingOK', NEW d \in Device,
         dropped' = Append(dropped, d),
         \A m \in MsgId : Waits(m)' <=> Waits(m) /\ m[2] \notin ToSet(dropped')
  PROVE  /\ ToSet(dropped') = ToSet(dropped) \cup {d}
         /\ Box' = {p \in Box : p.to # d}
<1>1. ToSet(dropped') = ToSet(dropped) \cup {d}
  <2>1. dropped \in Seq(Device) /\ Len(dropped) \in Nat
    BY DEF Inv, TypeInv, TypeOK
  <2>2. /\ DOMAIN dropped' = 1..(Len(dropped) + 1) /\ DOMAIN dropped = 1..Len(dropped)
        /\ dropped'[Len(dropped) + 1] = d
        /\ \A i \in 1..Len(dropped) : dropped'[i] = dropped[i]
    BY <2>1
  <2>3. 1..(Len(dropped) + 1) = 1..Len(dropped) \cup {Len(dropped) + 1}
    BY <2>1
  <2> QED BY <2>2, <2>3 DEF ToSet
<1> DEFINE S == {m \in MsgId : m[2] = d}
<1>2. Box' = {p \in Box : p.id \notin S}
  <2>1. \A m \in MsgId : Waits(m)' <=> Waits(m) /\ m \notin S
    BY <1>1 DEF Waits, Clean
  <2> QED BY <2>1, BoxWithout
<1>3. \A p \in Box : p.id \in MsgId /\ p.to = p.id[2]
  BY BoxIsWaiting
<1> QED BY <1>1, <1>2, <1>3

\* Only what is answered for, refused or given up is no longer open.
LEMMA OpenShrinks ==
  ASSUME TypeInv, [Next]_vars
  PROVE  Open' \subseteq Open
<1> SUFFICES ASSUME NEW m \in MsgId, spc'[m[1]] \notin {"sent", "failed"}, ~Stored(m)'
             PROVE  spc[m[1]] \notin {"sent", "failed"} /\ ~Stored(m)
  BY DEF Open
<1>0. TypeOK /\ m[1] \in Send
  BY DEF TypeInv, MsgId
<1>1. ~Stored(m)
  BY StoredStep
<1>2. spc[m[1]] \notin {"sent", "failed"}
  <2>1. ASSUME NEW s \in Send,
               \/ Accept(s) \/ Refuse(s) \/ SetMessage(s) \/ PushId(s)
               \/ ExpireQueue(s) \/ Publish(s) \/ FailSend(s)
        PROVE  spc[s] \notin {"sent", "failed"} /\ \A t \in Send : t # s => spc'[t] = spc[t]
    BY <1>0, <2>1 DEF Accept, Refuse, SetMessage, PushId, ExpireQueue, Publish, FailSend, TypeOK
  <2>2. ASSUME Tick \/ UNCHANGED vars
               \/ \E a \in Ack : AckGet(a) \/ AckTTL(a) \/ AckSet(a) \/ AckRemove(a) \/ FailAck(a)
        PROVE  UNCHANGED spc
    BY <2>2 DEF Tick, vars, AckGet, AckTTL, AckSet, AckRemove, FailAck, sending
  <2> QED BY <1>0, <2>1, <2>2 DEF Next
<1> QED BY <1>1, <1>2

\* Nothing opens or closes while no send goes on.
LEMMA OpenSteady ==
  ASSUME UNCHANGED <<spc, rcpt, at>>
  PROVE  Open' = Open
BY DEF Open, Stored

\* The relay starts with everything open and nothing put.
LEMMA MailboxBegins == Init => M!Init
<1> SUFFICES ASSUME Init PROVE M!Init
  OBVIOUS
<1>1. \A m \in MsgId : ~Stored(m) /\ msg[m] = NoMessage /\ spc[m[1]] = "new"
  BY DEF Init, Stored, MsgId
<1>2. ToSet(dropped) = {}
  BY DEF Init, ToSet
<1> QED BY <1>1, <1>2 DEF Init, M!Init, Pending

\* A step of a send that does not answer for a recipient: sends give up, at most.
LEMMA SendMaps ==
  ASSUME Inv, PendingOK, [Next]_vars, Inv', PendingOK', NEW s \in Send,
         Accept(s) \/ Refuse(s) \/ SetMessage(s) \/ PushId(s) \/ FailSend(s)
  PROVE  M!GiveUp
<1>0. TypeOK
  BY DEF Inv, TypeInv
<1> USE DEF sending, acking, redis
<1>1. UNCHANGED <<now, acked, dropped, cut, apc>>
  BY DEF Accept, Refuse, SetMessage, PushId, FailSend
<1>2. \A t \in Send : ~(spc[t] = "publish" /\ spc'[t] \in {"sent", "store"})
  BY <1>0 DEF Accept, Refuse, SetMessage, PushId, FailSend, TypeOK
<1>3. Box' = Box
  BY <1>1, <1>2, BoxSteady
<1>4. Open' \subseteq Open
  BY OpenShrinks DEF Inv
<1> QED BY <1>1, <1>3, <1>4 DEF M!GiveUp, Box, Open

\* The EXPIRE of a queue spoils its mailbox when it fails.
LEMMA ExpireMaps ==
  ASSUME Inv, PendingOK, [Next]_vars, Inv', PendingOK', NEW s \in Send, ExpireQueue(s)
  PROVE  M!GiveUp \/ \E d \in Device : M!Fail(d)
<1>0. TypeInv /\ TypeOK /\ Dest(s) \in Device
  BY DestIsDevice DEF Inv, TypeInv, ExpireQueue
<1> USE DEF sending, acking, redis
<1>d. PICK d \in Device : d = Dest(s)
  BY <1>0
<1>1. UNCHANGED <<now, acked, cut, apc, rcpt, at>>
  BY DEF ExpireQueue
<1>2. \A t \in Send : ~(spc[t] = "publish" /\ spc'[t] \in {"sent", "store"})
  BY <1>0 DEF ExpireQueue, TypeOK
<1>3. CASE UNCHANGED dropped
  <2>1. Box' = Box
    BY <1>1, <1>2, <1>3, BoxSteady
  <2>2. Open' \subseteq Open
    BY <1>0, OpenShrinks
  <2> QED BY <1>1, <1>3, <2>1, <2>2 DEF M!GiveUp, Box, Open
<1>4. CASE dropped' = Append(dropped, d)
  <2>1. ToSet(dropped') = ToSet(dropped) \cup {d} /\ Box' = {p \in Box : p.to # d}
    BY <1>1, <1>2, <1>4, WaitsSteady, BoxSpoils
  <2>2. Open' = Open
    <3>1. \A m \in MsgId : m[1] \in Send
      BY DEF MsgId
    <3>2. \A t \in Send : spc'[t] \in {"sent", "failed"} <=> spc[t] \in {"sent", "failed"}
      BY <1>0 DEF ExpireQueue, TypeOK
    <3>3. \A t \in Send : ~Publish(t)
      <4>1. \A t \in Send : Publish(t) => spc[t] = "publish" /\ spc'[t] \in {"sent", "store"}
        BY <1>0 DEF Publish, TypeOK
      <4> QED BY <1>2, <4>1
    <3>4. \A m \in MsgId : Stored(m)' <=> Stored(m)
      BY <1>0, <3>1, <3>3, StoredStep
    <3> QED BY <3>1, <3>2, <3>4 DEF Open
  <2>3. M!Fail(d)
    BY <1>1, <2>1, <2>2 DEF M!Fail, M!Spoil, Box, Open
  <2> QED BY <2>3, Zenon
<1> QED BY <1>d, <1>3, <1>4 DEF ExpireQueue, Unchecked

\* The answer for a recipient puts the message into its mailbox, if it still lives
\* and nobody has acknowledged it yet.
LEMMA PublishMaps ==
  ASSUME Inv, PendingOK, [Next]_vars, Inv', PendingOK', NEW s \in Send, Publish(s)
  PROVE  M!GiveUp \/ \E m \in MsgId : M!Put(m)
<1>0. TypeInv /\ TypeOK /\ PlacesOK /\ Dest(s) \in Device /\ at[s] \in DOMAIN rcpt[s] /\ <<s, Dest(s)>> \in MsgId
  BY DestIsDevice DEF Inv, TypeInv, Publish
<1> USE DEF sending, acking, redis
<1>1. /\ UNCHANGED <<now, acked, dropped, cut, apc, rcpt, msg>> /\ spc[s] = "publish"
      /\ \A t \in Send : t # s => ~Publish(t)
      /\ ~Tick /\ \A a \in Ack : ~AckSet(a)
  <2>1. UNCHANGED <<now, acked, dropped, cut, apc, rcpt, msg>> /\ spc[s] = "publish"
    BY DEF Publish
  <2>2. ASSUME NEW t \in Send, t # s PROVE ~Publish(t)
    <3>1. spc'[t] = spc[t]
      BY <1>0, <2>2 DEF Publish, TypeOK
    <3>2. Publish(t) => spc'[t] # spc[t]
      BY <1>0 DEF Publish, TypeOK
    <3> QED BY <3>1, <3>2
  <2>3. ~Tick
    BY <1>0, <2>1, SizeAssumption DEF Tick, TypeOK
  <2>4. \A a \in Ack : ~AckSet(a)
    BY <1>0, <2>1 DEF AckSet, AckGoto, TypeOK
  <2> QED BY <2>1, <2>2, <2>3, <2>4
<1>2. PICK m \in MsgId : m = <<s, Dest(s)>>
  BY <1>0
<1>3. Open' \subseteq Open
  BY <1>0, OpenShrinks
<1>4. \A x \in MsgId : Waits(x)' <=> Waits(x) \/ (x = m /\ Clean(m) /\ Live(m) /\ m \notin cut)
  <2> TAKE x \in MsgId
  <2>1. x = <<x[1], x[2]>> /\ x[1] \in Send
    BY DEF MsgId
  <2>2. Publish(x[1]) /\ Dest(x[1]) = x[2] <=> x = m
    BY <1>1, <1>2, <2>1
  <2>3. Clean(x) => x[2] \notin ToSet(dropped')
    BY <1>1 DEF Clean
  <2>4. Waits(x)' <=> /\ Clean(x) /\ Live(x) /\ x \notin cut
                      /\ Stored(x) \/ (Publish(x[1]) /\ Dest(x[1]) = x[2])
                      /\ x[2] \notin ToSet(dropped')
    BY <1>1, WaitsStep
  <2> QED BY <2>2, <2>3, <2>4 DEF Waits
<1>5. CASE ~(Clean(m) /\ Live(m) /\ m \notin cut)
  <2>1. Box' = Box
    <3> DEFINE S == {}
    <3>1. S \in SUBSET MsgId /\ \A x : x \notin S
      OBVIOUS
    <3> HIDE DEF S
    <3>2. Box' = {p \in Box : p.id \notin S}
      BY <1>4, <1>5, <3>1, BoxWithout
    <3> QED BY <3>1, <3>2
  <2> QED BY <1>1, <1>3, <2>1 DEF M!GiveUp, Box, Open
<1>6. CASE Clean(m) /\ Live(m) /\ m \notin cut
  <2>1. ~Stored(m)
    <3>1. \A k \in DOMAIN rcpt[s] : rcpt[s][k] = Dest(s) => k = at[s]
      BY <1>0, <1>2, <1>6 DEF Clean, IsInjective, Dest
    <3>2. at[s] \in Nat
      BY <1>0 DEF TypeOK
    <3> QED BY <1>1, <1>2, <3>1, <3>2 DEF Stored
  <2>2. m \in Open /\ m \notin Open'
    <3>1. Stored(m)'
      BY <1>0, <1>2, StoredStep
    <3> QED BY <1>1, <1>2, <2>1, <3>1 DEF Open
  <2>3. m \notin acked
    <3>1. Held(m)
      BY <1>0, <1>1, <1>2 DEF Held, Reached, Dest
    <3>2. \E i \in DOMAIN queue[m[2]] : queue[m[2]][i] = m
      BY <1>6, <3>1 DEF PendingOK
    <3> QED BY <1>6, <3>2 DEF Inv, OnceOK, AckedNotQueued, ToSet
  <2>4. m[2] \in Device /\ m[2] \notin ToSet(dropped)
    BY <1>0, <1>2, <1>6 DEF Clean
  <2>5. msg[m].exp \in (now + 1)..(now + TTL)
    <3>1. msg[m].exp \in Nat /\ msg[m].exp # Never /\ msg[m].exp <= now + TTL /\ msg[m].exp > now
      BY <1>0, <1>6 DEF PendingOK, PlacesOK, Live, TypeOK, Message
    <3> QED BY <1>0, <3>1, SizeAssumption DEF TypeOK
  <2>6. Box' = Box \cup {[id |-> m, to |-> m[2], end |-> msg[m].exp]}
    <3> DEFINE W == {k \in MsgId : Waits(k)}
               V == {k \in MsgId : Waits(k)'}
               E(x) == [id |-> x, to |-> x[2], end |-> msg[x].exp]
    <3>1. Box = {E(x) : x \in W} /\ Box' = {E(x) : x \in V}
      BY <1>1, BoxIsWaiting
    <3>2. V = W \cup {m}
      BY <1>4, <1>6
    <3> HIDE DEF V, W, E
    <3>3. Box' = Box \cup {E(m)}
      BY <3>1, <3>2
    <3> QED BY <3>3 DEF E
  <2>7. M!Put(m)
    <3>1. m \in Open \ (acked \cup cut) /\ Open' \subseteq Open \ {m}
      BY <1>3, <1>6, <2>2, <2>3
    <3>2. UNCHANGED <<now, acked, dropped, cut>>
      BY <1>1
    <3> QED BY <2>4, <2>5, <2>6, <3>1, <3>2 DEF M!Put, Box, Open
  <2> QED BY <2>7
<1> QED BY <1>5, <1>6

\* The SET of an acknowledgement marks the message, or spoils the mailbox.
LEMMA AckSetMaps ==
  ASSUME Inv, PendingOK, [Next]_vars, Inv', PendingOK', NEW a \in Ack, AckSet(a)
  PROVE  (\E m \in MsgId : M!Acknowledge(m)) \/ \E d \in Device : M!Fail(d)
<1>0. TypeOK /\ areq[a] \in MsgId
  BY DEF Inv, TypeInv, PlacesOK, AckSet
<1> USE DEF sending, acking, redis
<1>1. PICK m \in MsgId : m = areq[a]
  BY <1>0
<1>2. PICK d \in Device : d = m[2]
  BY DEF MsgId
<1>3. /\ UNCHANGED <<now, acked, cut, spc, rcpt, at>>
      /\ ~Tick /\ \A s \in Send : ~Publish(s)
      /\ \A b \in Ack : AckSet(b) => b = a
  <2>1. UNCHANGED <<now, acked, cut, spc, rcpt, at>>
    BY DEF AckSet
  <2>2. ~Tick /\ \A s \in Send : ~Publish(s)
    BY <1>0, <2>1, SizeAssumption DEF Tick, Publish, TypeOK
  <2>3. ASSUME NEW b \in Ack, b # a PROVE ~AckSet(b)
    <3>1. apc'[b] = apc[b]
      BY <1>0, <2>3 DEF AckSet, AckGoto, TypeOK
    <3>2. AckSet(b) => apc'[b] # apc[b]
      BY <1>0 DEF AckSet, AckGoto, TypeOK
    <3> QED BY <3>1, <3>2
  <2> QED BY <2>1, <2>2, <2>3
<1>4. Open' = Open
  BY <1>3, OpenSteady
<1>5. \A x \in MsgId : Waits(x)' <=> Waits(x) /\ x # m /\ x[2] \notin ToSet(dropped')
  <2> TAKE x \in MsgId
  <2>1. x[1] \in Send
    BY DEF MsgId
  <2>2. (\A b \in Ack : ~(AckSet(b) /\ areq[b] = x)) <=> x # m
    BY <1>1, <1>3
  <2> QED BY <1>3, <2>1, <2>2, WaitsStep DEF Waits
<1>6. CASE UNCHANGED dropped
  <2> DEFINE S == {m}
  <2>1. S \in SUBSET MsgId /\ \A x : x \in S <=> x = m
    OBVIOUS
  <2>2. \A x \in MsgId : Waits(x)' <=> Waits(x) /\ x \notin S
    BY <1>5, <1>6 DEF Waits, Clean
  <2> HIDE DEF S
  <2>3. Box' = {p \in Box : p.id \notin S}
    BY <2>1, <2>2, BoxWithout
  <2>4. Box' = {p \in Box : p.id # m}
    BY <2>1, <2>3
  <2>5. M!Acknowledge(m)
    BY <1>3, <1>4, <1>6, <2>4 DEF M!Acknowledge, Box, Open
  <2> QED BY <2>5, Zenon
<1>7. CASE dropped' = Append(dropped, d)
  <2>1. d \in ToSet(dropped')
    <3>1. dropped \in Seq(Device) /\ Len(dropped) \in Nat
      BY <1>0 DEF TypeOK
    <3>2. dropped'[Len(dropped) + 1] = d /\ Len(dropped) + 1 \in DOMAIN dropped'
      BY <1>7, <3>1
    <3> QED BY <3>2 DEF ToSet
  <2>2. \A x \in MsgId : Waits(x)' <=> Waits(x) /\ x[2] \notin ToSet(dropped')
    BY <1>2, <1>5, <2>1
  <2>3. ToSet(dropped') = ToSet(dropped) \cup {d} /\ Box' = {p \in Box : p.to # d}
    BY <1>7, <2>2, BoxSpoils
  <2>4. M!Fail(d)
    BY <1>3, <1>4, <2>3 DEF M!Fail, M!Spoil, Box, Open
  <2> QED BY <2>4, Zenon
<1> QED BY <1>1, <1>2, <1>6, <1>7 DEF AckSet, Unchecked

\* Whoever is told that a message is acknowledged: it waits no more.
LEMMA AckRemoveMaps ==
  ASSUME Inv, PendingOK, [Next]_vars, Inv', PendingOK', NEW a \in Ack, AckRemove(a)
  PROVE  \E m \in MsgId : M!Confirm(m)
<1>0. TypeOK /\ areq[a] \in MsgId
  BY DEF Inv, TypeInv, PlacesOK, AckRemove
<1> USE DEF sending, acking, redis
<1>1. PICK m \in MsgId : m = areq[a]
  BY <1>0
<1>2. PICK d \in Device : d = m[2]
  BY DEF MsgId
<1>3. UNCHANGED <<now, cut, spc, rcpt, at>> /\ acked' = acked \cup {m}
  BY <1>1 DEF AckRemove
<1>4. Open' = Open
  BY <1>3, OpenSteady
<1>5. \A s \in Send : ~(spc[s] = "publish" /\ spc'[s] \in {"sent", "store"})
  BY <1>3
<1>6. \A b \in Ack : ~(apc[b] = "set" /\ apc'[b] = "remove")
  BY <1>0 DEF AckRemove, AckDone, AckGoto, TypeOK
<1>7. \A p \in Box : p.id # m
  <2>1. ~Waits(m)
    BY <1>1 DEF PendingOK, AckRemove, Waits
  <2> QED BY <2>1, BoxIsWaiting
<1>8. CASE UNCHANGED dropped
  <2>1. Box' = Box
    BY <1>3, <1>5, <1>6, <1>8, BoxSteady
  <2>2. M!Confirm(m)
    BY <1>3, <1>4, <1>7, <1>8, <2>1 DEF M!Confirm, M!Waiting, Box, Open
  <2> QED BY <2>2, Zenon
<1>9. CASE dropped' = Append(dropped, d)
  <2>1. ToSet(dropped') = ToSet(dropped) \cup {d} /\ Box' = {p \in Box : p.to # d}
    BY <1>3, <1>5, <1>6, <1>9, WaitsSteady, BoxSpoils
  <2>2. M!Spoil(d)
    BY <2>1 DEF M!Spoil, Box
  <2>3. M!Confirm(m)
    BY <1>3, <1>4, <1>7, <2>2 DEF M!Confirm, M!Waiting, Box, Open
  <2> QED BY <2>3, Zenon
<1> QED BY <1>1, <1>2, <1>8, <1>9 DEF AckRemove, Unchecked

\* The rest of an acknowledgement is not seen.
LEMMA AckHides ==
  ASSUME Inv, PendingOK, [Next]_vars, Inv', PendingOK', NEW a \in Ack,
         AckGet(a) \/ AckTTL(a) \/ FailAck(a)
  PROVE  M!GiveUp
<1>0. TypeOK
  BY DEF Inv, TypeInv
<1> USE DEF sending, acking, redis
<1>1. UNCHANGED <<now, acked, dropped, cut, spc, rcpt, at>>
  BY DEF AckGet, AckTTL, FailAck
<1>2. \A b \in Ack : ~(apc[b] = "set" /\ apc'[b] = "remove")
  BY <1>0 DEF AckGet, AckTTL, FailAck, AckDone, AckGoto, TypeOK
<1>3. Box' = Box
  BY <1>1, <1>2, BoxSteady
<1>4. Open' = Open
  BY <1>1, OpenSteady
<1> QED BY <1>1, <1>3, <1>4 DEF M!GiveUp, Box, Open

\* A tick takes what is over, and nothing else.
LEMMA TickMaps ==
  ASSUME Inv, PendingOK, [Next]_vars, Inv', PendingOK', Tick
  PROVE  M!Tick
<1>0. TypeOK /\ now \in Nat
  BY SizeAssumption DEF Inv, TypeInv, TypeOK
<1> USE DEF sending, acking, redis
<1>1. UNCHANGED <<acked, dropped, spc, rcpt, at, apc>> /\ now' = now + 1
  BY DEF Tick
<1>2. Open' = Open
  BY <1>1, OpenSteady
<1> DEFINE S == {m \in MsgId : Live(m) /\ msg[m].exp <= now + 1}
<1>3. \A m \in MsgId : Waits(m)' <=> Waits(m) /\ m \notin S
  <2> TAKE m \in MsgId
  <2>1. m[1] \in Send /\ ~Publish(m[1]) /\ \A a \in Ack : ~AckSet(a)
    BY <1>0, <1>1 DEF MsgId, Publish, AckSet, AckGoto, TypeOK
  <2>2. Clean(m) => m[2] \notin ToSet(dropped')
    BY <1>1 DEF Clean
  <2>3. Live(m) => (Ends(msg[m].exp) <=> m \in S)
    BY DEF Ends, PendingOK
  <2> QED BY <2>1, <2>2, <2>3, WaitsStep DEF Waits
<1>4. Box' = {p \in Box : p.id \notin S}
  <2>1. S \in SUBSET MsgId
    OBVIOUS
  <2> HIDE DEF S
  <2> QED BY <1>3, <2>1, BoxWithout
<1>5. \A p \in Box : p.end > now + 1 <=> p.id \notin S
  <2> TAKE p \in Box
  <2>1. PICK m \in MsgId : Waits(m) /\ p = [id |-> m, to |-> m[2], end |-> msg[m].exp]
    BY BoxIsWaiting
  <2>2. msg[m].exp \in Nat
    BY <1>0, <2>1 DEF Waits, Live, TypeOK, Message
  <2> QED BY <1>0, <2>1, <2>2 DEF Waits
<1>6. Box' = {p \in Box : p.end > now + 1}
  BY <1>4, <1>5
<1>7. cut \subseteq cut' /\ \A m \in cut' \ cut : \A p \in Box : p.id # m
  <2>0. TypeInv /\ cut \subseteq MsgId /\ cut' \subseteq MsgId
    BY DEF Inv, TypeInv, TypeOK
  <2>1. cut \subseteq cut'
    BY <2>0, CutStep
  <2>2. ASSUME NEW m \in cut' \ cut PROVE ~Waits(m)
    <3>1. m \in MsgId
      BY <2>0
    <3> QED BY <2>0, <2>2, <3>1, StoredIsNotCut DEF Waits
  <2> QED BY <2>1, <2>2, BoxIsWaiting
<1> QED BY <1>1, <1>2, <1>6, <1>7 DEF M!Tick, M!Waiting, Box, Open

\* Every step is one of Mailbox, or is not seen.
LEMMA NextMaps ==
  ASSUME Inv, PendingOK, [Next]_vars, Inv', PendingOK'
  PROVE  [M!Next]_M!vars
<1>1. CASE Tick
  BY <1>1, TickMaps DEF M!Next
<1>2. ASSUME NEW s \in Send, Accept(s) \/ Refuse(s) \/ SetMessage(s) \/ PushId(s) \/ FailSend(s)
      PROVE  M!Next
  BY <1>2, SendMaps DEF M!Next
<1>3. ASSUME NEW s \in Send, ExpireQueue(s) PROVE M!Next
  BY <1>3, ExpireMaps DEF M!Next
<1>4. ASSUME NEW s \in Send, Publish(s) PROVE M!Next
  BY <1>4, PublishMaps DEF M!Next
<1>5. ASSUME NEW a \in Ack, AckGet(a) \/ AckTTL(a) \/ FailAck(a) PROVE M!Next
  BY <1>5, AckHides DEF M!Next
<1>6. ASSUME NEW a \in Ack, AckSet(a) PROVE M!Next
  BY <1>6, AckSetMaps DEF M!Next
<1>7. ASSUME NEW a \in Ack, AckRemove(a) PROVE M!Next
  BY <1>7, AckRemoveMaps DEF M!Next
<1>8. CASE UNCHANGED vars
  <2>1. UNCHANGED <<now, acked, dropped, cut, msg, queue, spc, rcpt, at>>
    BY <1>8 DEF vars, redis, sending, acking
  <2> QED BY <2>1 DEF M!vars, Pending, Clean, Stored
<1> QED BY <1>1, <1>2, <1>3, <1>4, <1>5, <1>6, <1>7, <1>8 DEF Next

\* The endpoints implement Mailbox, command by command, wherever the ticks fall: what is
\* sent waits in the mailbox until it is acknowledged or its TTL is over, and does not
\* come back; what a tick cuts off between its RPUSH and its EXPIRE is not put in at all.
THEOREM MessagesImplementMailbox == Spec => ImplementsMailbox
<1>1. Init => M!Init
  BY MailboxBegins
<1>2. Inv /\ PendingOK /\ [Next]_vars /\ Inv' /\ PendingOK' => [M!Next]_M!vars
  BY NextMaps
<1>3. Spec => [](Inv /\ PendingOK)
  BY Invariance
<1> QED BY <1>1, <1>2, <1>3, PTL DEF Spec, ImplementsMailbox, M!Spec
=============================================================================
