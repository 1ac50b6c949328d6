---------------------------- MODULE WSHub_proofs ----------------------------
(* The hub's table and the online keys, for any connections, devices,         *)
(* sessions, senders and channel capacity.                                    *)
EXTENDS WSHub, FiniteSetTheorems, TLAPS

\* Who has asked the hub for something, or is about to, has a device; whom the hub is
\* adding has not come to its end, and whom it is removing has.
PumpsOK ==
  /\ \A c \in Client : rp[c] \in {"register", "online"} => dev[c] # None
  /\ hub.op = "add" => dev[hub.of] # None /\ rp[hub.of] # "done"
  /\ hub.op \in {"remove", "offline"} => rp[hub.of] = "done"

TypeInv == TypeOK /\ PumpsOK

Hub == [op : {"add", "remove", "offline"}, of : Client] \cup {Idle}

\* The initial state has its types.
LEMMA InitType == Init => TypeInv
<1> SUFFICES ASSUME Init PROVE TypeInv
  OBVIOUS
<1>1. 0 \in 0..Cap
  BY CapAssumption
<1>2. TypeOK
  BY <1>1 DEF Init, TypeOK
<1>3. PumpsOK
  BY DEF Init, PumpsOK, Idle
<1> QED BY <1>2, <1>3 DEF TypeInv

\* A message that is offered leaves no more than the capacity, and one that is
\* written no less than nothing.
LEMMA OfferedFits == ASSUME NEW b \in 0..Cap PROVE Offered(b) \in 0..Cap
BY CapAssumption DEF Offered

LEMMA EntriesCounted == \A c : Cardinality(Entries(c)) \in Nat
<1> TAKE c
<1>1. IsFiniteSet(Entries(c))
  BY DeviceAssumption, FS_Subset DEF Entries
<1> QED BY <1>1, FS_CardinalityType

LEMMA OneMore == ASSUME NEW b \in 0..Cap, b < Cap PROVE b + 1 \in 0..Cap
BY CapAssumption

LEMMA OneLess == ASSUME NEW b \in 0..Cap, b > 0 PROVE b - 1 \in 0..Cap
BY CapAssumption

\* Steps that only put messages into channels, or take them out.
LEMMA ChannelStep ==
  ASSUME TypeInv, buf' \in [Client -> 0..Cap], wp' \in [Client -> BOOLEAN], conn' \in [Client -> BOOLEAN],
         crashed' \in BOOLEAN, picked' \in [Sender -> Client \cup {None}], topics' \in [Client -> SUBSET Session],
         UNCHANGED <<table, rp, dev, forwarding, closed>>, online' \subseteq online, stray' \subseteq online'
  PROVE  TypeInv'
BY DEF TypeInv, TypeOK, PumpsOK, table

\* Every action keeps the types.
LEMMA NextType == TypeInv /\ [Next]_vars => TypeInv'
<1> SUFFICES ASSUME TypeInv, [Next]_vars PROVE TypeInv'
  OBVIOUS
<1>0. TypeOK /\ PumpsOK /\ None \notin Client /\ Identity \in [Client -> SUBSET Device]
      /\ hub \in Hub /\ \A c \in Client : [op |-> "add", of |-> c] \in Hub /\ [op |-> "remove", of |-> c] \in Hub
  BY ClientAssumption DEF TypeInv, Hub, TypeOK
<1> USE DEF table, pumps, client, chan, ReadGoto
<1>1. ASSUME NEW c \in Client, Connect(c) PROVE TypeInv'
  BY <1>0, <1>1 DEF Connect, TypeInv, TypeOK, PumpsOK
<1>2. ASSUME NEW c \in Client, Disconnect(c) PROVE TypeInv'
  BY <1>0, <1>2, ChannelStep DEF Disconnect, TypeOK
<1>3. ASSUME NEW c \in Client, NEW d \in Identity[c], Authenticate(c, d) PROVE TypeInv'
  <2>1. d \in Device /\ d # None
    BY <1>0, ClientAssumption
  <2> QED BY <1>0, <1>3, <2>1 DEF Authenticate, Receives, TypeInv, TypeOK, PumpsOK
<1>4. ASSUME NEW c \in Client, GoOnline(c) PROVE TypeInv'
  BY <1>0, <1>4 DEF GoOnline, TypeInv, TypeOK, PumpsOK
<1>5. ASSUME NEW c \in Client, NEW s \in Session, Subscribe(c, s) \/ Unsubscribe(c, s) PROVE TypeInv'
  BY <1>0, <1>5, ChannelStep DEF Subscribe, Unsubscribe, Retopic, TypeOK
<1>6. ASSUME NEW c \in Client, Answerable(c) PROVE TypeInv'
  BY <1>0, <1>6 DEF Answerable, Receives, TypeInv, TypeOK, PumpsOK
<1>7. ASSUME NEW c \in Client, Reply(c) PROVE TypeInv'
  <2>1. CASE closed[c]
    BY <1>0, <1>7, <2>1 DEF Reply, TypeInv, TypeOK, PumpsOK
  <2>2. CASE ~closed[c]
    <3>1. buf[c] \in 0..Cap /\ buf[c] < Cap
      BY <1>0, <1>7, <2>2 DEF Reply, TypeOK
    <3>2. buf[c] + 1 \in 0..Cap
      BY <3>1, OneMore
    <3>3. buf' \in [Client -> 0..Cap]
      BY <1>0, <1>7, <2>2, <3>2 DEF Reply, TypeOK
    <3>4. rp' = [rp EXCEPT ![c] = "read"] /\ UNCHANGED <<table, wp, conn, dev, topics, forwarding, closed, picked, online, stray, crashed>>
      BY <1>7, <2>2 DEF Reply
    <3>5. TypeOK'
      BY <1>0, <3>3, <3>4 DEF TypeOK
    <3>6. PumpsOK'
      BY <1>0, <3>4, <1>7 DEF PumpsOK, TypeOK, Reply
    <3> QED BY <3>5, <3>6 DEF TypeInv
  <2> QED BY <2>1, <2>2
<1>8. ASSUME NEW c \in Client, ReadFails(c) PROVE TypeInv'
  BY <1>0, <1>8 DEF ReadFails, TypeInv, TypeOK, PumpsOK
<1>9. ASSUME NEW c \in Client, HubTakes(c) PROVE TypeInv'
  <2>1. hub' \in Hub
    BY <1>0, <1>9 DEF HubTakes
  <2>2. rp' \in [Client -> {"new", "read", "register", "online", "reply", "unregister", "done"}]
    BY <1>0, <1>9 DEF HubTakes, TypeOK
  <2>3. TypeOK'
    BY <1>0, <1>9, <2>1, <2>2 DEF HubTakes, TypeOK, Hub, Idle
  <2>4. PumpsOK'
    BY <1>0, <1>9 DEF HubTakes, TypeOK, PumpsOK
  <2> QED BY <2>3, <2>4 DEF TypeInv
<1>10. CASE HubAdd
  <2>1. hub.of \in Client /\ dev[hub.of] \in Device
    BY <1>0, <1>10 DEF HubAdd, TypeOK, PumpsOK, Hub, Idle
  <2>2. clients' \in [Device -> Client \cup {None}] /\ hub' = Idle
    BY <1>0, <1>10, <2>1 DEF HubAdd, TypeOK
  <2>3. TypeOK'
    BY <1>0, <1>10, <2>2 DEF HubAdd, TypeOK
  <2> QED BY <1>0, <1>10, <2>3 DEF HubAdd, TypeInv, PumpsOK, Idle
<1>11. CASE HubRemove
  <2>1. hub.of \in Client /\ hub = [op |-> "remove", of |-> hub.of]
    BY <1>0, <1>11 DEF HubRemove, Hub, Idle
  <2>2. hub' = [op |-> "offline", of |-> hub.of] /\ hub' \in Hub
    BY <1>11, <2>1 DEF HubRemove, Hub
  <2>3. clients' \in [Device -> Client \cup {None}] /\ closed' \in [Client -> BOOLEAN]
    BY <1>0, <1>11 DEF HubRemove, TypeOK
  <2>4. TypeOK'
    BY <1>0, <1>11, <2>2, <2>3 DEF HubRemove, TypeOK, Hub, Idle
  <2> QED BY <1>0, <1>11, <2>2, <2>4 DEF HubRemove, TypeInv, PumpsOK
<1>12. CASE HubOffline
  <2>1. hub' = Idle /\ online' \subseteq Device /\ stray' \subseteq online'
    BY <1>0, <1>12 DEF HubOffline, TypeOK
  <2>2. TypeOK'
    BY <1>0, <1>12, <2>1 DEF HubOffline, TypeOK
  <2> QED BY <1>0, <1>12, <2>1, <2>2 DEF HubOffline, TypeInv, PumpsOK, Idle
<1>13. ASSUME NEW d \in Device, OnlineExpires(d) PROVE TypeInv'
  BY <1>0, <1>13, ChannelStep DEF OnlineExpires, TypeOK
<1>14. ASSUME NEW s \in Sender, NEW d \in Device, PickClient(s, d) PROVE TypeInv'
  BY <1>0, <1>14, ChannelStep DEF PickClient, TypeOK
<1>15. ASSUME NEW s \in Sender, SendPicked(s) PROVE TypeInv'
  <2>1. buf' \in [Client -> 0..Cap]
    BY <1>0, <1>15, OfferedFits DEF SendPicked, TypeOK
  <2>2. picked' \in [Sender -> Client \cup {None}]
    BY <1>0, <1>15 DEF SendPicked, TypeOK
  <2> QED BY <1>0, <1>15, <2>1, <2>2, ChannelStep DEF SendPicked, TypeOK
<1>16. ASSUME NEW s \in Session, SendToSession(s) PROVE TypeInv'
  <2>1. buf' \in [Client -> 0..Cap]
    <3>1. ASSUME NEW c \in Client
          PROVE  LET n == buf[c] + Cardinality(Entries(c)) IN (IF n < Cap THEN n ELSE Cap) \in 0..Cap
      BY <1>0, EntriesCounted, CapAssumption DEF TypeOK
    <3>2. UNCHANGED buf \/ \E to : buf' = [c \in Client |->
            IF c \notin to THEN buf[c]
            ELSE LET n == buf[c] + Cardinality(Entries(c)) IN IF n < Cap THEN n ELSE Cap]
      BY <1>16 DEF SendToSession
    <3> QED BY <1>0, <3>1, <3>2 DEF TypeOK
  <2>2. crashed' \in BOOLEAN
    BY <1>0, <1>16 DEF SendToSession, TypeOK
  <2> QED BY <1>0, <1>16, <2>1, <2>2, ChannelStep DEF SendToSession, TypeOK
<1>17. ASSUME NEW c \in Client, Forward(c) PROVE TypeInv'
  <2>1. buf' \in [Client -> 0..Cap]
    BY <1>0, <1>17, OfferedFits DEF Forward, TypeOK
  <2>2. crashed' \in BOOLEAN
    BY <1>0, <1>17 DEF Forward, TypeOK
  <2> QED BY <1>0, <1>17, <2>1, <2>2, ChannelStep DEF Forward, TypeOK
<1>18. ASSUME NEW c \in Client, WriteMessage(c) PROVE TypeInv'
  <2>1. buf' \in [Client -> 0..Cap] /\ wp' \in [Client -> BOOLEAN]
    BY <1>0, <1>18, OneLess DEF WriteMessage, TypeOK
  <2> QED BY <1>0, <1>18, <2>1, ChannelStep DEF WriteMessage, TypeOK
<1>19. ASSUME NEW c \in Client, WriteEnds(c) PROVE TypeInv'
  BY <1>0, <1>19, ChannelStep DEF WriteEnds, TypeOK
<1>20. CASE UNCHANGED vars
  BY <1>0, <1>20, ChannelStep DEF vars, TypeOK
<1> QED BY <1>1, <1>2, <1>3, <1>4, <1>5, <1>6, <1>7, <1>8, <1>9, <1>10, <1>11, <1>12, <1>13,
           <1>14, <1>15, <1>16, <1>17, <1>18, <1>19, <1>20 DEF Next, ReadPump

\* Every variable keeps its type: no channel overflows, the hub never adds a connection
\* that has not authenticated (Run takes the device id from the client itself).
THEOREM TypeCorrectness == Spec => []TypeOK
<1>1. Spec => []TypeInv
  BY InitType, NextType, PTL DEF Spec
<1> QED BY <1>1, PTL DEF TypeInv

-----------------------------------------------------------------------------
(* The table and the online keys                                              *)

Inv == TypeInv /\ TableIsOpen /\ NoGhostOnline

\* The initial state satisfies the invariant.
LEMMA InitInv == Init => Inv
BY InitType DEF Init, Inv, TableIsOpen, NoGhostOnline, Own

\* Steps of a read pump that does not come to its end, and of everybody who does
\* not touch the table.
LEMMA PumpStep ==
  ASSUME Inv, TypeInv', UNCHANGED <<dev, table, closed>>, online' \ stray' \subseteq online \ stray,
         \A c \in Client : rp'[c] = rp[c] \/ (rp[c] # "done" /\ rp'[c] # "done")
  PROVE  Inv'
BY ClientAssumption DEF Inv, TableIsOpen, NoGhostOnline, Own, TypeInv, TypeOK, table

\* A connection that authenticates leaves the key of the device it had before.
LEMMA AuthenticateStep ==
  ASSUME Inv, TypeInv', NEW c \in Client, NEW d \in Identity[c], Authenticate(c, d)
  PROVE  Inv'
<1>1. d \in Device /\ d # None /\ None \notin Client \cup Device
  BY ClientAssumption
<1>2. /\ rp[c] = "read" /\ rp' = [rp EXCEPT ![c] = "register"] /\ dev' = [dev EXCEPT ![c] = d]
      /\ stray' = stray \cup (online \cap ({dev[c]} \ {d}))
      /\ UNCHANGED <<clients, hub, closed, online>>
  BY DEF Authenticate, Receives, ReadGoto, table, chan
<1>3. TypeOK
  BY DEF Inv, TypeInv
<1>4. TableIsOpen'
  BY <1>1, <1>2, <1>3 DEF Inv, TableIsOpen, Own, TypeOK
<1>5. NoGhostOnline'
  BY <1>1, <1>2, <1>3 DEF Inv, NoGhostOnline, TypeOK
<1> QED BY <1>4, <1>5 DEF Inv

\* The online key is of the connection that sets it.
LEMMA GoOnlineStep ==
  ASSUME Inv, TypeInv', NEW c \in Client, GoOnline(c)
  PROVE  Inv'
<1>1. /\ rp[c] = "online" /\ rp' = [rp EXCEPT ![c] = "reply"]
      /\ online' \ stray' \subseteq (online \ stray) \cup {dev[c]}
      /\ UNCHANGED <<clients, hub, closed, dev>>
  BY DEF GoOnline, ReadGoto, table, chan
<1>2. TypeOK
  BY DEF Inv, TypeInv
<1>3. TableIsOpen'
  BY <1>1, <1>2, ClientAssumption DEF Inv, TableIsOpen, Own, TypeOK
<1>4. NoGhostOnline'
  BY <1>1, <1>2 DEF Inv, NoGhostOnline, TypeOK
<1> QED BY <1>3, <1>4 DEF Inv

\* The hub takes up one client at a time.
LEMMA HubTakesStep ==
  ASSUME Inv, TypeInv', NEW c \in Client, HubTakes(c)
  PROVE  Inv'
<1>1. /\ hub = Idle /\ None \notin Client /\ TypeOK
      /\ UNCHANGED <<clients, closed, dev, online, stray>>
  BY ClientAssumption DEF HubTakes, client, chan, Inv, TypeInv
<1>2. hub.of = None /\ \A b \in Client : hub # [op |-> "remove", of |-> b]
  BY <1>1 DEF Idle
<1>3. hub'.of = c /\ rp[c] # "done" /\ \A b \in Client \ {c} : rp'[b] = rp[b]
  BY <1>1 DEF HubTakes, ReadGoto, TypeOK
<1>4. rp'[c] # "done" \/ hub' = [op |-> "remove", of |-> c]
  BY <1>1 DEF HubTakes, ReadGoto, TypeOK
<1>6. TableIsOpen'
  <2>1. ASSUME NEW d \in Device, Own(d)
        PROVE  /\ ~closed[clients[d]]
               /\ rp'[clients[d]] # "done" \/ hub' = [op |-> "remove", of |-> clients[d]]
    <3>1. clients[d] \in Client /\ ~closed[clients[d]] /\ rp[clients[d]] # "done"
      BY <1>1, <1>2, <2>1 DEF Inv, TableIsOpen, Own, TypeOK
    <3>2. CASE clients[d] = c
      BY <1>4, <3>1, <3>2
    <3>3. CASE clients[d] # c
      BY <1>3, <3>1, <3>3
    <3> QED BY <3>1, <3>2, <3>3
  <2>2. ASSUME NEW b \in Client, closed[b] PROVE rp'[b] = "done"
    <3>1. rp[b] = "done"
      BY <2>2 DEF Inv, TableIsOpen
    <3> QED BY <1>3, <3>1
  <2> QED BY <1>1, <2>1, <2>2 DEF TableIsOpen, Own
<1>7. NoGhostOnline'
  <2> SUFFICES ASSUME NEW d \in online \ stray
               PROVE  \E b \in Client : dev[b] = d /\ (rp'[b] # "done" \/ hub'.of = b)
    BY <1>1 DEF NoGhostOnline
  <2>1. PICK b \in Client : dev[b] = d /\ (rp[b] # "done" \/ hub.of = b)
    BY DEF Inv, NoGhostOnline
  <2> QED BY <1>1, <1>2, <1>3, <2>1
<1> QED BY <1>6, <1>7 DEF Inv

\* Whom the hub adds has not come to its end.
LEMMA HubAddStep ==
  ASSUME Inv, TypeInv', HubAdd
  PROVE  Inv'
<1>1. /\ hub.op = "add" /\ clients' = [clients EXCEPT ![dev[hub.of]] = hub.of] /\ hub' = Idle
      /\ UNCHANGED <<rp, closed, dev, online, stray>>
  BY DEF HubAdd, pumps, client, chan
<1>2. TypeOK /\ None \notin Client /\ hub.of \in Client /\ rp[hub.of] # "done" /\ dev[hub.of] \in Device
  <2>1. TypeOK /\ PumpsOK /\ None \notin Client
    BY ClientAssumption DEF Inv, TypeInv
  <2>2. hub.of \in Client
    BY <1>1, <2>1 DEF TypeOK, Idle
  <2> QED BY <1>1, <2>1, <2>2 DEF TypeOK, PumpsOK
<1>4. TableIsOpen'
  <2>1. ASSUME NEW d \in Device, Own(d)'
        PROVE  ~closed[clients'[d]] /\ rp[clients'[d]] # "done"
    <3>1. CASE clients'[d] = hub.of
      BY <1>1, <1>2, <3>1 DEF Inv, TableIsOpen
    <3>2. CASE clients'[d] # hub.of
      <4>1. clients'[d] = clients[d]
        BY <1>1, <1>2, <3>2 DEF TypeOK
      <4>2. hub # [op |-> "remove", of |-> clients[d]]
        BY <1>1
      <4> QED BY <1>1, <2>1, <4>1, <4>2 DEF Inv, TableIsOpen, Own
    <3> QED BY <3>1, <3>2
  <2> QED BY <1>1, <2>1 DEF Inv, TableIsOpen
<1>5. NoGhostOnline'
  BY <1>1, <1>2 DEF Inv, NoGhostOnline
<1> QED BY <1>4, <1>5 DEF Inv

\* The channel that is closed is of a client that the table no longer has under its device.
LEMMA HubRemoveStep ==
  ASSUME Inv, TypeInv', HubRemove
  PROVE  Inv'
<1> DEFINE c == hub.of
           d == dev[c]
<1>1. TypeOK /\ None \notin Client \cup Device /\ c \in Client /\ rp[c] = "done" /\ hub = [op |-> "remove", of |-> c]
  BY ClientAssumption DEF Inv, TypeInv, TypeOK, PumpsOK, HubRemove, Idle
<1>2. /\ hub' = [op |-> "offline", of |-> c]
      /\ UNCHANGED <<rp, dev, online, stray>>
      /\ \A e \in Device : Own(e)' => clients'[e] = clients[e] /\ Own(e) /\ clients[e] # c
      /\ \A b \in Client : closed'[b] # closed[b] => b = c
  <2>1. CASE d # None /\ clients[d] # None
    BY <1>1, <2>1 DEF HubRemove, Own, TypeOK, pumps, client
  <2>2. CASE ~(d # None /\ clients[d] # None)
    BY <1>1, <2>2 DEF HubRemove, Own, TypeOK, pumps, client
  <2> QED BY <2>1, <2>2
<1> HIDE DEF c, d
<1>4. TableIsOpen'
  <2>1. ASSUME NEW e \in Device, Own(e)'
        PROVE  ~closed'[clients'[e]] /\ rp[clients'[e]] # "done"
    <3>1. clients'[e] = clients[e] /\ Own(e) /\ clients[e] # c /\ clients[e] \in Client
      BY <1>1, <1>2, <2>1 DEF Own, TypeOK
    <3>2. hub # [op |-> "remove", of |-> clients[e]]
      BY <1>1, <3>1
    <3> QED BY <1>1, <1>2, <2>1, <3>1, <3>2 DEF Inv, TableIsOpen, TypeOK
  <2>2. ASSUME NEW b \in Client, closed'[b] PROVE rp[b] = "done"
    BY <1>1, <1>2, <2>2 DEF Inv, TableIsOpen
  <2> QED BY <1>2, <2>1, <2>2 DEF TableIsOpen
<1>5. NoGhostOnline'
  BY <1>1, <1>2 DEF Inv, NoGhostOnline
<1> QED BY <1>4, <1>5 DEF Inv

\* Without the key of the device that is offline, or with the key left there, no other
\* device needs this client.
LEMMA HubOfflineStep ==
  ASSUME Inv, TypeInv', HubOffline
  PROVE  Inv'
<1>1. /\ hub.op = "offline" /\ hub' = Idle
      /\ online' \ stray' \subseteq (online \ stray) \ {dev[hub.of]}
      /\ UNCHANGED <<clients, rp, closed, dev>>
  BY DEF HubOffline, pumps, client, chan
<1>3. TableIsOpen'
  <2>1. \A b : hub # [op |-> "remove", of |-> b]
    BY <1>1
  <2> QED BY <1>1, <2>1 DEF Inv, TableIsOpen, Own
<1>4. NoGhostOnline'
  BY <1>1 DEF Inv, NoGhostOnline
<1> QED BY <1>3, <1>4 DEF Inv

\* Every action keeps the invariant.
LEMMA NextInv == Inv /\ [Next]_vars => Inv'
<1> SUFFICES ASSUME Inv, [Next]_vars PROVE Inv'
  OBVIOUS
<1>0. TypeInv' /\ TypeOK
  BY NextType DEF Inv, TypeInv
<1>1. ASSUME NEW c \in Client,
             \/ Connect(c) \/ Disconnect(c) \/ Answerable(c) \/ Reply(c) \/ ReadFails(c)
             \/ Forward(c) \/ WriteMessage(c) \/ WriteEnds(c)
      PROVE  Inv'
  <2>1. UNCHANGED <<dev, table, closed, online, stray>>
    BY <1>1 DEF Connect, Disconnect, Answerable, Reply, ReadFails, Forward, WriteMessage, WriteEnds,
                client, chan
  <2>2. \A b \in Client : rp'[b] = rp[b] \/ (rp[b] # "done" /\ rp'[b] # "done")
    <3>1. CASE rp' = rp
      BY <3>1
    <3>2. CASE rp' # rp
      <4>1. rp[c] # "done" /\ \E l \in {"read", "reply", "unregister"} : rp' = [rp EXCEPT ![c] = l]
        BY <1>1, <3>2 DEF Connect, Disconnect, Answerable, Reply, ReadFails, Forward, WriteMessage, WriteEnds,
                          Receives, ReadGoto, pumps
      <4> QED BY <1>0, <4>1 DEF TypeOK
    <3> QED BY <3>1, <3>2
  <2> QED BY <1>0, <2>1, <2>2, PumpStep
<1>2. ASSUME NEW c \in Client, NEW s \in Session, Subscribe(c, s) \/ Unsubscribe(c, s) PROVE Inv'
  BY <1>0, <1>2, PumpStep DEF Subscribe, Unsubscribe, Retopic, pumps, chan
<1>3. ASSUME NEW d \in Device, OnlineExpires(d) PROVE Inv'
  BY <1>0, <1>3, PumpStep DEF OnlineExpires, pumps, client, chan
<1>4. ASSUME NEW s \in Sender, SendPicked(s) \/ \E d \in Device : PickClient(s, d) PROVE Inv'
  BY <1>0, <1>4, PumpStep DEF SendPicked, PickClient, pumps, client, chan
<1>5. ASSUME NEW s \in Session, SendToSession(s) PROVE Inv'
  BY <1>0, <1>5, PumpStep DEF SendToSession, pumps, client
<1>6. CASE UNCHANGED vars
  BY <1>0, <1>6, PumpStep DEF vars, pumps, client, chan
<1> QED BY <1>0, <1>1, <1>2, <1>3, <1>4, <1>5, <1>6, AuthenticateStep, GoOnlineStep, HubTakesStep,
           HubAddStep, HubRemoveStep, HubOfflineStep DEF Next, ReadPump

\* Inv is an invariant of every execution.
THEOREM Invariance == Spec => []Inv
<1>1. Inv /\ [Next]_vars => Inv'
  BY NextInv
<1> QED BY <1>1, InitInv, PTL DEF Spec

\* However connections come and go and whoever they say they are, the hub's table has
\* none under its own device whose channel is closed (Run closes a channel only as it
\* takes the device out of the table).
THEOREM TableStaysOpen == Spec => []TableIsOpen
BY Invariance, PTL DEF Inv

\* However connections come and go and whoever they say they are, no device keeps an
\* online key without one, but for the keys that a failed DEL or another name left
\* (Run deletes the key whether or not it finds the client).
THEOREM NoGhosts == Spec => []NoGhostOnline
BY Invariance, PTL DEF Inv
=============================================================================
