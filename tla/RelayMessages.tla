--------------------------- MODULE RelayMessages ---------------------------
(***************************************************************************)
(* The message endpoints of the relay: POST /relay/send, GET               *)
(* /relay/messages, POST /relay/ack (and the WebSocket ack, which makes the *)
(* same call), on the Redis keys they use (relay/redis.go):                 *)
(*   relay:message:<id>    one message, with a TTL;                         *)
(*   relay:device:msgs:<d> the queue of the message ids for device d, with  *)
(*                         a TTL renewed at every push.                     *)
(* The list of message ids per session is pushed to and deleted but never   *)
(* read, so it is left out; deleting a session leaves the keys above alone.  *)
(*                                                                         *)
(* A step is one Redis command of one request.  Time passes in ticks, and   *)
(* a key is gone at the tick its TTL ends.                                  *)
(***************************************************************************)
EXTENDS Naturals, Sequences, SequencesExt

CONSTANTS
  Device,     \* the device ids
  Session,    \* the session ids
  Parties,    \* session id -> its list of parties
  Send,       \* the send requests; each generates one uuid, so it stands for it
  From,       \* send request -> the device that sends
  ToLists,    \* send request -> the recipient lists it may name
  Ack,        \* the goroutines that acknowledge messages
  By,         \* such a goroutine -> the device that acknowledges
  TTL,        \* RelayMessageTTL, in ticks
  MaxNow,     \* bound: the last tick
  MaxDropped, \* bound: the commands that fail unseen, ...
  Flaky,      \* ... and the devices on whose keys they do
  PageLimit,  \* the limit clients poll with
  NoMessage   \* what GetMessage finds under a key that is not there

ASSUME SizeAssumption == /\ TTL \in Nat \ {0} /\ MaxNow \in Nat
                         /\ PageLimit \in Nat \ {0} /\ MaxDropped \in Nat /\ Flaky \subseteq Device

ASSUME ListsAssumption == /\ Parties \in [Session -> Seq(Device)]
                          /\ From \in [Send -> Device] /\ By \in [Ack -> Device]
                          /\ ToLists \in [Send -> SUBSET Seq(Device)]

VARIABLES
  now,     \* the time
  msg,     \* message id -> the message stored under it, or NoMessage
  queue,   \* device -> the ids in its queue, oldest first
  qexp,    \* device -> when its queue's key expires
  spc,     \* per send request: what it does next, or how it ended
  sid,     \* per send request: its session
  rcpt,    \* per send request: its recipients
  at,      \* per send request: the recipient it is at
  apc,     \* per ack goroutine: what it does next
  areq,    \* per ack goroutine: the message it acks
  attl,    \* per ack goroutine: the expiry it writes the message back with
  acked,   \* the message ids whose recipient was answered "acknowledged"
  before,  \* per send request: the sends answered when it arrived
  dropped, \* per Redis command that failed and whose error nobody looks at: its device
  cut      \* the messages whose queue ended between their RPUSH and their EXPIRE

sending == <<spc, sid, rcpt, at, before>>
acking  == <<apc, areq, attl, acked>>
redis   == <<msg, queue, qexp>>
vars    == <<now, redis, sending, acking, dropped, cut>>

MsgId == Send \X Device
To(m) == m[2]

Never == 0      \* a key with no expiry (go-redis takes a zero TTL for it)

Message == [sid : Session, delivered : BOOLEAN, exp : Nat]

Init == /\ now = 0
        /\ msg = [m \in MsgId |-> NoMessage]
        /\ queue = [d \in Device |-> <<>>]
        /\ qexp = [d \in Device |-> Never]
        /\ spc = [s \in Send |-> "new"]
        /\ sid \in [Send -> Session]
        /\ rcpt = [s \in Send |-> <<>>]
        /\ at = [s \in Send |-> 1]
        /\ apc = [a \in Ack |-> "idle"]
        /\ areq = [a \in Ack |-> NoMessage]
        /\ attl = [a \in Ack |-> Never]
        /\ acked = {}
        /\ before = [s \in Send |-> {}]
        /\ dropped = <<>>
        /\ cut = {}

-----------------------------------------------------------------------------
(* Time *)

Ends(exp) == exp # Never /\ exp <= now + 1

Dest(snd) == rcpt[snd][at[snd]]

Tick == /\ now < MaxNow
        /\ now' = now + 1
        /\ msg' = [m \in MsgId |-> IF msg[m] # NoMessage /\ Ends(msg[m].exp)
                                   THEN NoMessage ELSE msg[m]]
        /\ queue' = [d \in Device |-> IF Ends(qexp[d]) THEN <<>> ELSE queue[d]]
        /\ qexp' = [d \in Device |-> IF Ends(qexp[d]) THEN Never ELSE qexp[d]]
        /\ cut' = cut \cup {<<snd, Dest(snd)>> :
                            snd \in {s \in Send : spc[s] = "expire" /\ Ends(qexp[Dest(s)])}}
        /\ UNCHANGED <<sending, acking, dropped>>

-----------------------------------------------------------------------------
(* HandleSendMessage *)

\* A broadcast goes to every party but the sender; the list of a direct send is
\* taken as it is.
Recipients(s, from, list, broadcast) ==
  IF broadcast THEN FlattenSeq([i \in DOMAIN Parties[s] |->
                                  IF Parties[s][i] = from THEN <<>> ELSE <<Parties[s][i]>>])
               ELSE list

\* The session exists and the sender is one of its parties; whether it does is
\* RelaySession's state.  Without recipients the request is answered at once.
Accept(snd) ==
  /\ spc[snd] = "new"
  /\ From[snd] \in ToSet(Parties[sid[snd]])
  /\ \E list \in ToLists[snd], broadcast \in BOOLEAN :
       rcpt' = [rcpt EXCEPT ![snd] = Recipients(sid[snd], From[snd], list, broadcast)]
  /\ spc' = [spc EXCEPT ![snd] = IF rcpt'[snd] = <<>> THEN "sent" ELSE "store"]
  /\ before' = [before EXCEPT ![snd] = {s \in Send : spc[s] = "sent"}]
  /\ UNCHANGED <<now, redis, sid, at, acking, dropped, cut>>

\* No such session, or a sender who is no party of it.
Refuse(snd) ==
  /\ spc[snd] = "new"
  /\ spc' = [spc EXCEPT ![snd] = "failed"]
  /\ UNCHANGED <<now, redis, sid, rcpt, at, before, acking, dropped, cut>>

\* StoreMessage, SET of the message.
SetMessage(snd) ==
  /\ spc[snd] = "store"
  /\ msg' = [msg EXCEPT ![<<snd, Dest(snd)>>] =
               [sid |-> sid[snd], delivered |-> FALSE, exp |-> now + TTL]]
  /\ spc' = [spc EXCEPT ![snd] = "push"]
  /\ UNCHANGED <<now, queue, qexp, sid, rcpt, at, before, acking, dropped, cut>>

\* Mutant: LPUSH.
PushIdFirst(snd) ==
  /\ spc[snd] = "push"
  /\ queue' = [queue EXCEPT ![Dest(snd)] = <<<<snd, Dest(snd)>>>> \o @]
  /\ spc' = [spc EXCEPT ![snd] = "expire"]
  /\ UNCHANGED <<now, msg, qexp, sid, rcpt, at, before, acking, dropped, cut>>

\* StoreMessage, RPUSH.
PushId(snd) ==
  /\ spc[snd] = "push"
  /\ queue' = [queue EXCEPT ![Dest(snd)] = Append(@, <<snd, Dest(snd)>>)]
  /\ spc' = [spc EXCEPT ![snd] = "expire"]
  /\ UNCHANGED <<now, msg, qexp, sid, rcpt, at, before, acking, dropped, cut>>

\* A command whose error the code drops: it does what it should, or nothing.
Unchecked(d, effect, nothing) ==
  \/ effect /\ UNCHANGED dropped
  \/ /\ d \in Flaky /\ Len(dropped) < MaxDropped
     /\ nothing /\ dropped' = Append(dropped, d)

\* Mutant: EXPIRE NX, which leaves the TTL a queue has.
ExpireNewQueue(snd) ==
  /\ spc[snd] = "expire"
  /\ qexp' = [qexp EXCEPT ![Dest(snd)] = IF @ = Never THEN now + TTL ELSE @]
  /\ spc' = [spc EXCEPT ![snd] = "publish"]
  /\ UNCHANGED <<now, msg, queue, sid, rcpt, at, before, acking, dropped, cut>>

\* StoreMessage, EXPIRE of the queue; on a key that is gone it does nothing.
ExpireQueue(snd) ==
  /\ spc[snd] = "expire"
  /\ Unchecked(Dest(snd),
               qexp' = [qexp EXCEPT ![Dest(snd)] =
                          IF queue[Dest(snd)] = <<>> THEN Never ELSE now + TTL],
               UNCHANGED qexp)
  /\ spc' = [spc EXCEPT ![snd] = "publish"]
  /\ UNCHANGED <<now, msg, queue, sid, rcpt, at, before, acking, cut>>

\* StoreMessage's PUBLISH and then SendToDevice hand the message to a recipient
\* that is connected; then it is the next recipient's turn, or the answer's.
Publish(snd) ==
  /\ spc[snd] = "publish"
  /\ IF at[snd] = Len(rcpt[snd])
     THEN spc' = [spc EXCEPT ![snd] = "sent"] /\ UNCHANGED at
     ELSE /\ spc' = [spc EXCEPT ![snd] = "store"]
          /\ at' = [at EXCEPT ![snd] = @ + 1]
  /\ UNCHANGED <<now, redis, sid, rcpt, before, acking, dropped, cut>>

\* SET or RPUSH fails and the request answers an error, or the server stops:
\* the recipients served so far keep their message.
FailSend(snd) ==
  /\ spc[snd] \in {"store", "push", "expire", "publish"}
  /\ spc' = [spc EXCEPT ![snd] = "failed"]
  /\ UNCHANGED <<now, redis, sid, rcpt, at, before, acking, dropped, cut>>

-----------------------------------------------------------------------------
(* HandleGetMessages changes nothing: what GetMessagesForDevice returns is the *)
(* first ids of the queue, and of those the ones whose message is there and    *)
(* belongs to a session that is asked for.                                     *)

Fetched(d, limit, sids) ==
  LET page == SubSeq(queue[d], 1, IF Len(queue[d]) < limit THEN Len(queue[d]) ELSE limit)
  IN  SelectSeq(page, LAMBDA m : msg[m] # NoMessage /\ msg[m].sid \in sids)

\* The message has been stored for this recipient to the end: StoreMessage has
\* returned, whatever became of the request since.
Stored(m) == \E k \in DOMAIN rcpt[m[1]] :
                /\ rcpt[m[1]][k] = To(m)
                /\ k < at[m[1]] \/ spc[m[1]] = "sent"

\* A client can only ack what the publish has given it, or a poll, which finds every
\* id of the queue whose message is there.
Known(m) == Stored(m) \/ (m \in ToSet(queue[To(m)]) /\ msg[m] # NoMessage)

-----------------------------------------------------------------------------
(* AcknowledgeMessage: the client acks a message it was given. *)

AckGoto(a, label) == apc' = [apc EXCEPT ![a] = label]

AckDone(a) == /\ AckGoto(a, "idle")
              /\ areq' = [areq EXCEPT ![a] = NoMessage]
              /\ attl' = [attl EXCEPT ![a] = Never]

\* The GET.  A message that is gone, or another device's, is answered with an
\* error and changes nothing: its id stays in the queue.
AckGet(a) ==
  /\ apc[a] = "idle"
  /\ \E m \in MsgId :
       /\ Known(m) /\ msg[m] # NoMessage /\ To(m) = By[a]
       /\ areq' = [areq EXCEPT ![a] = m]
  /\ AckGoto(a, "ttl")
  /\ UNCHANGED <<now, redis, sending, attl, acked, dropped, cut>>

\* Mutant: the reply of TTL as it is, -2 for a key that is gone.
LeftRaw(m) == {IF msg[m] = NoMessage THEN 0 - 2
               ELSE IF msg[m].exp = Never THEN 0 - 1 ELSE msg[m].exp - now}

\* The TTL that is left, or none: Redis answers -2 for a key that is gone and zero in
\* the last half second of a TTL, and the answer counts as zero when the command fails;
\* with any of these the SET sets no expiry.
Left(m) == {Never} \cup (IF msg[m] = NoMessage \/ msg[m].exp = Never THEN {}
                         ELSE {msg[m].exp - now})

AckTTL(a) ==
  /\ apc[a] = "ttl"
  /\ \E left \in Left(areq[a]) : attl' = [attl EXCEPT ![a] = left]
  /\ AckGoto(a, "set")
  /\ UNCHANGED <<now, redis, sending, areq, acked, dropped, cut>>

AckSet(a) ==
  /\ apc[a] = "set"
  /\ Unchecked(To(areq[a]),
               msg' = [msg EXCEPT ![areq[a]] =
                         [sid |-> sid[areq[a][1]], delivered |-> TRUE,
                          exp |-> IF attl[a] = Never THEN Never ELSE now + attl[a]]],
               UNCHANGED msg)
  /\ AckGoto(a, "remove")
  /\ attl' = [attl EXCEPT ![a] = Never]
  /\ UNCHANGED <<now, queue, qexp, sending, areq, acked, cut>>

\* Mutant: the oldest id is popped, whichever is acknowledged.
AckPop(a) ==
  /\ apc[a] = "remove"
  /\ LET d == To(areq[a])
     IN  /\ queue' = [queue EXCEPT ![d] = IF @ = <<>> THEN @ ELSE Tail(@)]
         /\ qexp' = [qexp EXCEPT ![d] = IF queue'[d] = <<>> THEN Never ELSE @]
  /\ acked' = acked \cup {areq[a]}
  /\ AckDone(a)
  /\ UNCHANGED <<now, msg, sending, dropped, cut>>

AckRemove(a) ==
  /\ apc[a] = "remove"
  /\ LET d == To(areq[a])
     IN  Unchecked(d,
                   /\ queue' = [queue EXCEPT ![d] = RemoveFirst(@, areq[a])]
                   /\ qexp' = [qexp EXCEPT ![d] = IF queue'[d] = <<>> THEN Never ELSE @],
                   UNCHANGED <<queue, qexp>>)
  /\ acked' = acked \cup {areq[a]}
  /\ AckDone(a)
  /\ UNCHANGED <<now, msg, sending, cut>>

\* The server stops.
FailAck(a) ==
  /\ apc[a] # "idle"
  /\ AckDone(a)
  /\ UNCHANGED <<now, redis, sending, acked, dropped, cut>>

-----------------------------------------------------------------------------
Next ==
  \/ Tick
  \/ \E snd \in Send : \/ Accept(snd) \/ Refuse(snd) \/ SetMessage(snd) \/ PushId(snd)
                       \/ ExpireQueue(snd) \/ Publish(snd) \/ FailSend(snd)
  \/ \E a \in Ack : \/ AckGet(a) \/ AckTTL(a) \/ AckSet(a)
                    \/ AckRemove(a) \/ FailAck(a)

Spec == Init /\ [][Next]_vars

-----------------------------------------------------------------------------
(* Properties *)

TypeOK ==
  /\ now \in 0..MaxNow
  /\ msg \in [MsgId -> Message \cup {NoMessage}]
  /\ queue \in [Device -> Seq(MsgId)]
  /\ qexp \in [Device -> Nat]
  /\ spc \in [Send -> {"new", "store", "push", "expire", "publish", "sent", "failed"}]
  /\ sid \in [Send -> Session]
  /\ rcpt \in [Send -> Seq(Device)]
  /\ at \in [Send -> Nat]
  /\ apc \in [Ack -> {"idle", "ttl", "set", "remove"}]
  /\ areq \in [Ack -> MsgId \cup {NoMessage}]
  /\ attl \in [Ack -> Nat]
  /\ acked \subseteq MsgId
  /\ before \in [Send -> SUBSET Send]
  /\ dropped \in Seq(Device) /\ Len(dropped) <= MaxDropped
  /\ cut \subseteq MsgId

\* Naming a recipient twice stores the same id twice, and a command that fails
\* unseen leaves a queue as it was; what follows is promised without either.
Clean(m) == To(m) \notin ToSet(dropped) /\ IsInjective(rcpt[m[1]])

\* A stored message nobody has acknowledged is in its recipient's queue for as
\* long as it lives: a queue never expires before its newest message (the EXPIRE
\* after every RPUSH in StoreMessage, RPUSH before LREM in AcknowledgeMessage).
\* There is one hole in it, which the code leaves: the queue can end after the RPUSH
\* and before the EXPIRE (redis.go:235-238), and a message sent just then is stored,
\* answered for and never polled.  Those and no others are excepted: a queue that
\* ends before an RPUSH, or beside another send's commands, loses nothing else.
PendingIsQueued ==
  \A m \in MsgId \ cut :
     /\ msg[m] # NoMessage /\ ~msg[m].delivered
     /\ Stored(m) /\ Clean(m)
     => m \in ToSet(queue[To(m)])

\* An acknowledged message is not in the queue again, so no poll returns it: the
\* push happens before anybody learns the id (StoreMessage publishes last).
AckedNotQueued == \A m \in acked : Clean(m) => m \notin ToSet(queue[To(m)])

\* Messages arrive in the order they were sent in: if one send was answered
\* before another arrived, its message is ahead of the other's in every queue.
FifoPerQueue ==
  \A d \in Device : \A i, j \in DOMAIN queue[d] :
     queue[d][i][1] \in before[queue[d][j][1]] => i < j

\* What a poll finds, and nobody has acknowledged.
Pending(m) == /\ msg[m] # NoMessage /\ ~msg[m].delivered
              /\ Stored(m) /\ Clean(m) /\ m \notin cut
              /\ m \in ToSet(queue[To(m)])

\* Each step is one of Mailbox: a message is put in once, stays for its TTL unless it is
\* acknowledged, and does not come back (the commands of StoreMessage and
\* AcknowledgeMessage, between each other's and the expiries of two keys).  A message
\* whose queue ends between its RPUSH and its EXPIRE is lost there before it was put in.
M == INSTANCE Mailbox WITH
       Id <- MsgId,
       spoiled <- ToSet(dropped), lost <- cut,
       open <- {m \in MsgId : spc[m[1]] \notin {"sent", "failed"} /\ ~Stored(m)},
       pending <- {[id |-> m, to |-> To(m), end |-> msg[m].exp] : m \in {k \in MsgId : Pending(k)}}

ImplementsMailbox == M!Spec

\* Polling with a limit finds something whenever something is pending
\* ("GetMessagesForDevice retrieves pending messages for a device").
PollFindsPending ==
  \A d \in Device :
     (\E m \in ToSet(queue[d]) : msg[m] # NoMessage /\ ~msg[m].delivered)
       => Fetched(d, PageLimit, Session) # <<>>
=============================================================================
