------------------------------- MODULE WSHub -------------------------------
(***************************************************************************)
(* The WebSocket side of the relay (relay/websocket.go): the hub goroutine  *)
(* that owns the table of clients, and for every connection a read pump, a  *)
(* write pump and one goroutine per successful authentication that forwards *)
(* what Redis publishes for the device.  HTTP requests send into the hub     *)
(* through SendToDevice and SendToSessionSubscribers.                        *)
(*                                                                         *)
(* A step is one critical section of the hub's mutex, one channel operation *)
(* or one Redis command.  Payloads are left out: a channel is the number of  *)
(* messages in it.                                                           *)
(***************************************************************************)
EXTENDS Naturals, FiniteSets

CONSTANTS
  Client,     \* the connections, each used once
  Device,     \* the device ids
  Identity,   \* connection -> the devices it authenticates as
  Session,    \* the session ids
  Party,      \* session id -> the devices that are parties of it
  Sender,     \* the HTTP requests that send to a device
  Cap,        \* the capacity of a client's send channel (256 in the code)
  None        \* no client, no device

ASSUME CapAssumption == Cap \in Nat \ {0}

ASSUME DeviceAssumption == IsFiniteSet(Device) /\ Party \in [Session -> SUBSET Device]

ASSUME ClientAssumption == /\ Identity \in [Client -> SUBSET Device]
                           /\ None \notin Client \cup Device

VARIABLES
  clients,    \* device -> the client in the hub's table, or None
  hub,        \* what the hub goroutine does next, and for which client
  rp,         \* per client: what its read pump does next
  wp,         \* per client: its write pump runs
  conn,       \* per client: the connection is open
  dev,        \* per client: the device it authenticated as last, or None
  topics,     \* per client: the sessions it subscribes to
  buf,        \* per client: the messages in its send channel
  closed,     \* per client: its send channel is closed
  forwarding, \* the clients with a goroutine that forwards from Redis
  picked,     \* per sender: the client SendToDevice found, or None
  online,     \* the devices with an online key in Redis
  stray,      \* those of them whose key was left: a DEL failed, or a connection of
              \* theirs has authenticated as another device
  crashed     \* a goroutine panicked outside an HTTP request: the process is gone

table  == <<clients, hub>>
pumps  == <<rp, wp, conn>>
client == <<dev, topics, forwarding>>
chan   == <<buf, closed>>
vars   == <<table, pumps, client, chan, picked, online, stray, crashed>>

Idle == [op |-> "select", of |-> None]

Init == /\ clients = [d \in Device |-> None]
        /\ hub = Idle
        /\ rp = [c \in Client |-> "new"]
        /\ wp = [c \in Client |-> FALSE]
        /\ conn = [c \in Client |-> FALSE]
        /\ dev = [c \in Client |-> None]
        /\ topics = [c \in Client |-> {}]
        /\ buf = [c \in Client |-> 0]
        /\ closed = [c \in Client |-> FALSE]
        /\ forwarding = {}
        /\ picked = [s \in Sender |-> None]
        /\ online = {}
        /\ stray = {}
        /\ crashed = FALSE

ReadGoto(c, label) == rp' = [rp EXCEPT ![c] = label]

\* Mutant: nothing is dropped.
OfferedAlways(b) == b + 1

\* The non-blocking send: a full channel drops the message.
Offered(b) == IF b < Cap THEN b + 1 ELSE b

-----------------------------------------------------------------------------
(* The connection and its read pump *)

\* HandleWebSocket
Connect(c) ==
  /\ rp[c] = "new"
  /\ ReadGoto(c, "read")
  /\ wp' = [wp EXCEPT ![c] = TRUE]
  /\ conn' = [conn EXCEPT ![c] = TRUE]
  /\ UNCHANGED <<table, client, chan, picked, online, stray, crashed>>

\* The peer goes away, or a deadline passes.
Disconnect(c) ==
  /\ conn[c]
  /\ conn' = [conn EXCEPT ![c] = FALSE]
  /\ UNCHANGED <<table, rp, wp, client, chan, picked, online, stray, crashed>>

Receives(c) == rp[c] = "read" /\ conn[c]

\* handleAuth, of a device that is registered with the relay.  A connection may
\* authenticate again, as another device: what it has under the first stays.
Authenticate(c, d) ==
  /\ Receives(c)
  /\ dev' = [dev EXCEPT ![c] = d]
  /\ stray' = stray \cup (online \cap ({dev[c]} \ {d}))
  /\ ReadGoto(c, "register")
  /\ UNCHANGED <<table, wp, conn, topics, forwarding, chan, picked, online, crashed>>

\* handleAuth, once the hub has taken the client: the online key, the forwarding
\* goroutine, and then the answer.  Nobody looks whether the SET failed.
GoOnline(c) ==
  /\ rp[c] = "online"
  /\ \/ online' = online \cup {dev[c]} /\ stray' = stray \ {dev[c]}
     \/ UNCHANGED <<online, stray>>
  /\ forwarding' = forwarding \cup {c}
  /\ ReadGoto(c, "reply")
  /\ UNCHANGED <<table, wp, conn, dev, topics, chan, picked, crashed>>

Retopic(c, new) ==
  /\ Receives(c) /\ dev[c] # None
  /\ topics' = [topics EXCEPT ![c] = new]
  /\ UNCHANGED <<table, pumps, dev, forwarding, chan, picked, online, stray, crashed>>

\* handleSubscribe, of a party of the session; it answers nothing.
Subscribe(c, s) == dev[c] \in Party[s] /\ Retopic(c, topics[c] \cup {s})

\* handleUnsubscribe
Unsubscribe(c, s) == Retopic(c, topics[c] \ {s})

\* handlePing, and every message that is refused with an error: the read pump
\* answers.
Answerable(c) ==
  /\ Receives(c)
  /\ ReadGoto(c, "reply")
  /\ UNCHANGED <<table, wp, conn, client, chan, picked, online, stray, crashed>>

\* sendAuthResponse, sendError, handlePing: this send blocks while the channel is
\* full, and panics on a closed one.
Reply(c) ==
  /\ rp[c] = "reply"
  /\ IF closed[c]
     THEN crashed' = TRUE /\ UNCHANGED <<rp, buf>>
     ELSE /\ buf[c] < Cap
          /\ buf' = [buf EXCEPT ![c] = @ + 1]
          /\ ReadGoto(c, "read")
          /\ UNCHANGED crashed
  /\ UNCHANGED <<table, wp, conn, client, closed, picked, online, stray>>

\* Mutant: only a client that has authenticated is unregistered.
ReadFailsAuthed(c) ==
  /\ rp[c] = "read" /\ ~conn[c] /\ dev[c] # None
  /\ ReadGoto(c, "unregister")
  /\ UNCHANGED <<table, wp, conn, client, chan, picked, online, stray, crashed>>

\* ReadMessage fails; the deferred function asks the hub to unregister.
ReadFails(c) ==
  /\ rp[c] = "read" /\ ~conn[c]
  /\ ReadGoto(c, "unregister")
  /\ UNCHANGED <<table, wp, conn, client, chan, picked, online, stray, crashed>>

-----------------------------------------------------------------------------
(* The hub goroutine.  Its channels are unbuffered: the read pump goes on as   *)
(* soon as the hub has taken the client, before the hub has done anything.     *)

HubTakes(c) ==
  /\ hub = Idle
  /\ \/ /\ rp[c] = "register"
        /\ hub' = [op |-> "add", of |-> c]
        /\ ReadGoto(c, "online")
     \/ /\ rp[c] = "unregister"
        /\ hub' = [op |-> "remove", of |-> c]
        /\ ReadGoto(c, "done")
  /\ UNCHANGED <<clients, wp, conn, client, chan, picked, online, stray, crashed>>

\* Run, register: an older client of the same device is replaced, not told.
HubAdd ==
  /\ hub.op = "add"
  /\ clients' = [clients EXCEPT ![dev[hub.of]] = hub.of]
  /\ hub' = Idle
  /\ UNCHANGED <<pumps, client, chan, picked, online, stray, crashed>>

\* Mutant: it is the client found in the table whose channel is closed.
HubRemoveFound ==
  /\ hub.op = "remove"
  /\ LET d == dev[hub.of]
     IN  IF d # None /\ clients[d] # None
         THEN /\ clients' = [clients EXCEPT ![d] = None]
              /\ closed' = [closed EXCEPT ![clients[d]] = TRUE]
         ELSE UNCHANGED <<clients, closed>>
  /\ hub' = [hub EXCEPT !.op = "offline"]
  /\ UNCHANGED <<pumps, client, buf, picked, online, stray, crashed>>

\* Mutant: the online key is deleted only if the client was found.
HubRemoveOnly ==
  /\ hub.op = "remove"
  /\ LET c == hub.of
         d == dev[hub.of]
     IN  IF d # None /\ clients[d] # None
         THEN /\ clients' = [clients EXCEPT ![d] = None]
              /\ closed' = [closed EXCEPT ![c] = TRUE]
              /\ hub' = [hub EXCEPT !.op = "offline"]
         ELSE UNCHANGED <<clients, closed>> /\ hub' = Idle
  /\ UNCHANGED <<pumps, client, buf, picked, online, stray, crashed>>

\* Run, unregister: whatever client the table has for the device goes, and the
\* channel of the one that asked is closed.  The empty device id of a client that
\* never authenticated is not in the table.
HubRemove ==
  /\ hub.op = "remove"
  /\ LET c == hub.of
         d == dev[hub.of]
     IN  IF d # None /\ clients[d] # None
         THEN /\ clients' = [clients EXCEPT ![d] = None]
              /\ closed' = [closed EXCEPT ![c] = TRUE]
         ELSE UNCHANGED <<clients, closed>>
  /\ hub' = [hub EXCEPT !.op = "offline"]
  /\ UNCHANGED <<pumps, client, buf, picked, online, stray, crashed>>

\* Run, UpdateDeviceOnlineStatus(false), whether it found the client or not.  Nobody
\* looks whether the DEL failed.
HubOffline ==
  /\ hub.op = "offline"
  /\ LET d == dev[hub.of]
     IN  \/ online' = online \ {d} /\ stray' = stray \ {d}
         \/ UNCHANGED online /\ stray' = stray \cup (online \cap {d})
  /\ hub' = Idle
  /\ UNCHANGED <<clients, pumps, client, chan, picked, crashed>>

\* The online key has a TTL that nothing renews.
OnlineExpires(d) ==
  /\ d \in online
  /\ online' = online \ {d} /\ stray' = stray \ {d}
  /\ UNCHANGED <<table, pumps, client, chan, picked, crashed>>

-----------------------------------------------------------------------------
(* The senders *)

\* SendToDevice, the lookup under the read lock.
PickClient(s, d) ==
  /\ picked[s] = None
  /\ clients[d] # None
  /\ picked' = [picked EXCEPT ![s] = clients[d]]
  /\ UNCHANGED <<table, pumps, client, chan, online, stray, crashed>>

\* SendToDevice, the send after the lock is released.  On a channel closed in
\* between it panics; the HTTP framework recovers, the request fails.
SendPicked(s) ==
  /\ picked[s] # None
  /\ buf' = IF closed[picked[s]] THEN buf
            ELSE [buf EXCEPT ![picked[s]] = Offered(@)]
  /\ picked' = [picked EXCEPT ![s] = None]
  /\ UNCHANGED <<table, pumps, client, closed, online, stray, crashed>>

\* The devices the table has a connection under.
Entries(c) == {d \in Device : clients[d] = c}

\* SendToSessionSubscribers holds the read lock to its end, and sends once for every
\* entry.  Redis events come through a goroutine of their own: there a panic ends the
\* process.
SendToSession(s) ==
  LET to == {c \in Client : s \in topics[c] /\ Entries(c) # {}}
      after(c) == buf[c] + Cardinality(Entries(c))
  IN  /\ to # {}
      /\ IF \E c \in to : closed[c]
         THEN crashed' = TRUE /\ UNCHANGED buf
         ELSE /\ buf' = [c \in Client |-> IF c \notin to THEN buf[c]
                                         ELSE IF after(c) < Cap THEN after(c) ELSE Cap]
              /\ UNCHANGED crashed
      /\ UNCHANGED <<table, pumps, client, closed, picked, online, stray>>

\* subscribeToDeviceMessages: a goroutine forwards what is published for the
\* device.  Nothing ever ends it, so it may find the channel closed.
Forward(c) ==
  /\ c \in forwarding
  /\ IF closed[c]
     THEN crashed' = TRUE /\ UNCHANGED buf
     ELSE /\ buf' = [buf EXCEPT ![c] = Offered(@)]
          /\ UNCHANGED crashed
  /\ UNCHANGED <<table, pumps, client, closed, picked, online, stray>>

-----------------------------------------------------------------------------
(* The write pump *)

\* A message is written, and fails if the connection is gone.
WriteMessage(c) ==
  /\ wp[c] /\ buf[c] > 0
  /\ buf' = [buf EXCEPT ![c] = @ - 1]
  /\ wp' = [wp EXCEPT ![c] = conn[c]]
  /\ UNCHANGED <<table, rp, conn, client, closed, picked, online, stray, crashed>>

\* The channel is closed and drained, or a ping cannot be written.
WriteEnds(c) ==
  /\ wp[c]
  /\ (closed[c] /\ buf[c] = 0) \/ ~conn[c]
  /\ wp' = [wp EXCEPT ![c] = FALSE]
  /\ conn' = [conn EXCEPT ![c] = FALSE]
  /\ UNCHANGED <<table, rp, client, chan, picked, online, stray, crashed>>

-----------------------------------------------------------------------------
ReadPump(c) == \/ GoOnline(c) \/ Answerable(c) \/ Reply(c) \/ ReadFails(c)
               \/ \E d \in Identity[c] : Authenticate(c, d)
               \/ \E s \in Session : Subscribe(c, s) \/ Unsubscribe(c, s)

Next ==
  /\ ~crashed
  /\ \/ \E c \in Client : \/ Connect(c) \/ Disconnect(c) \/ ReadPump(c)
                          \/ HubTakes(c) \/ Forward(c)
                          \/ WriteMessage(c) \/ WriteEnds(c)
     \/ HubAdd \/ HubRemove \/ HubOffline
     \/ \E d \in Device : OnlineExpires(d)
     \/ \E s \in Sender : SendPicked(s) \/ \E d \in Device : PickClient(s, d)
     \/ \E s \in Session : SendToSession(s)

Spec == Init /\ [][Next]_vars

\* Every goroutine of the server is scheduled; the hub's select takes every
\* client that waits for it in the end, since Go queues the senders of a channel
\* and chooses at random between channels.  Peers, requests and Redis owe nothing.
Fairness ==
  /\ \A c \in Client : /\ WF_vars(~crashed /\ (GoOnline(c) \/ Reply(c) \/ ReadFails(c)))
                       /\ SF_vars(~crashed /\ HubTakes(c))
                       /\ WF_vars(~crashed /\ WriteMessage(c))
                       /\ WF_vars(~crashed /\ WriteEnds(c))
  /\ WF_vars(~crashed /\ (HubAdd \/ HubRemove \/ HubOffline))

FairSpec == Spec /\ Fairness

-----------------------------------------------------------------------------
(* Properties *)

TypeOK ==
  /\ clients \in [Device -> Client \cup {None}]
  /\ hub \in [op : {"add", "remove", "offline"}, of : Client] \cup {Idle}
  /\ rp \in [Client -> {"new", "read", "register", "online", "reply", "unregister", "done"}]
  /\ wp \in [Client -> BOOLEAN]
  /\ conn \in [Client -> BOOLEAN]
  /\ dev \in [Client -> Device \cup {None}]
  /\ topics \in [Client -> SUBSET Session]
  /\ buf \in [Client -> 0..Cap]
  /\ closed \in [Client -> BOOLEAN]
  /\ forwarding \subseteq Client
  /\ picked \in [Sender -> Client \cup {None}]
  /\ online \subseteq Device /\ stray \subseteq online
  /\ crashed \in BOOLEAN

\* The table's entry for the device its connection has now, not one it had before.
Own(d) == clients[d] # None /\ dev[clients[d]] = d

\* Whatever the order of reconnects, the channel of a connection that the table has under
\* its device is open and its unregistration is still to come, and only unregistration
\* closes a channel, so a read pump's own answer never meets a closed one.  An entry under
\* a device that its connection has since left is excepted: nobody takes it out, and
\* its channel is closed when the connection goes (websocket.go:319, 78-80).
TableIsOpen ==
  /\ \A d \in Device : LET c == clients[d] IN
       Own(d) => ~closed[c] /\ (rp[c] # "done" \/ hub = [op |-> "remove", of |-> c])
  /\ \A c \in Client : closed[c] => rp[c] = "done"

\* No ghost: a device has an online key only while some connection of it has been
\* taken by the hub and the hub has not finished unregistering it (handleAuth sets
\* the key, Run deletes it whether or not it found the client in the table).  Keys that
\* were left are excepted, until the next SET, DEL or expiry: one whose DEL failed
\* (websocket.go:88 drops the error), and that of a device whose connection has
\* authenticated as another, which no unregistration names.
NoGhostOnline ==
  \A d \in online \ stray : \E c \in Client : dev[c] = d /\ (rp[c] # "done" \/ hub.of = c)

\* A connection whose peer has gone is unregistered in the end, unless its read
\* pump hangs: it waits to answer into a full channel that no write pump drains.
Hangs(c) == rp[c] = "reply" /\ buf[c] = Cap /\ ~wp[c]

GoneIsUnregistered ==
  \A c \in Client : (rp[c] # "new" /\ ~conn[c]) ~> (rp[c] = "done" \/ crashed \/ Hangs(c))

\* The process survives: no goroutine sends on a closed channel.
NeverCrashes == ~crashed

\* A registered client stays reachable through the hub until it goes away or a
\* newer connection of its device takes its place.
StaysRegistered ==
  [][\A d \in Device : clients[d] # None /\ clients'[d] = None => ~conn[clients[d]]]_vars
=============================================================================
