---------------------------- MODULE RelaySession ----------------------------
(***************************************************************************)
(* The session endpoints of the relay (relay/handler.go) on the Redis keys *)
(* they use (relay/redis.go).  Every HTTP request runs in a goroutine of    *)
(* its own; a request that changes a session reads the whole session, edits *)
(* its copy and writes the copy back, with no lock, no WATCH and no version *)
(* between the two.  A step of this module is one Redis command of one       *)
(* request; the last command also answers.  The event the handler hands to   *)
(* the WebSocket hub before it answers changes nothing here.                 *)
(***************************************************************************)
EXTENDS SessionRecord

CONSTANTS Session,       \* the session ids
          Handler,       \* the request goroutines in flight at a time
          PartyLists     \* the party lists clients create sessions with

ASSUME PartyListsAssumption == \A p \in PartyLists : p \in Seq(Device) /\ Len(p) >= 2

VARIABLES
  device,      \* the registered devices (keys relay:device:*)
  session,     \* session id -> the session stored under relay:session:<id>
  persistent,  \* the live session keys that carry no expiry
  pc,          \* per request: the call it makes next
  req,         \* per request: its method and its arguments
  copy,        \* per request: the session as GetSession returned it
  forever      \* per request: the TTL it read came back as zero

vars == <<device, session, persistent, pc, req, copy, forever>>

Request ==
       [op : {"create"}, sid : Session, parties : PartyLists]
  \cup [op : {"join"}, sid : Session, dev : Device]
  \cup [op : {"patch"}, sid : Session, status : PatchStatus, round : 0..MaxRound]

NoRequest == [op |-> "none"]

PC == {"idle", "get", "devices", "ttl", "set"}

Live(s) == session[s] # NoSession

Init == /\ device = {}
        /\ session = [s \in Session |-> NoSession]
        /\ persistent = {}
        /\ pc = [h \in Handler |-> "idle"]
        /\ req = [h \in Handler |-> NoRequest]
        /\ copy = [h \in Handler |-> NoSession]
        /\ forever = [h \in Handler |-> FALSE]

Goto(h, label) == pc' = [pc EXCEPT ![h] = label]

\* The goroutine has answered; its locals are gone.
Done(h) == /\ Goto(h, "idle")
           /\ req' = [req EXCEPT ![h] = NoRequest]
           /\ copy' = [copy EXCEPT ![h] = NoSession]
           /\ forever' = [forever EXCEPT ![h] = FALSE]

redis == <<device, session, persistent>>

-----------------------------------------------------------------------------
(* Devices *)

\* HandleRegisterDevice: both its branches end in a SET of the device's key.
RegisterDevice(d) ==
  /\ device' = device \cup {d}
  /\ UNCHANGED <<session, persistent, pc, req, copy, forever>>

\* The device's key outlives RelayDeviceTTL.
DeviceExpires(d) ==
  /\ d \in device
  /\ device' = device \ {d}
  /\ UNCHANGED <<session, persistent, pc, req, copy, forever>>

-----------------------------------------------------------------------------
(* The requests *)

Receive(h) ==
  /\ pc[h] = "idle"
  /\ \E r \in Request : req' = [req EXCEPT ![h] = r]
  /\ Goto(h, "get")
  /\ UNCHANGED <<redis, copy, forever>>

\* HandleCreateSession: an error of this GET is dropped, so it reads like a
\* session that does not exist.
CheckAbsent(h) ==
  /\ pc[h] = "get" /\ req[h].op = "create"
  /\ \/ Live(req[h].sid) /\ Done(h)
     \/ Goto(h, "devices") /\ UNCHANGED <<req, copy, forever>>
  /\ UNCHANGED redis

\* One GET per party.  They are one step: the device keys are written by
\* nothing that reads a session, so no request can tell them apart.
CheckParties(h) ==
  /\ pc[h] = "devices"
  /\ IF Members(req[h].parties) \subseteq device
     THEN Goto(h, "set") /\ UNCHANGED <<req, copy, forever>>
     ELSE Done(h)
  /\ UNCHANGED redis

\* CreateSession: SET with the full TTL, whatever the key holds by now.
StoreNew(h) ==
  /\ pc[h] = "set" /\ req[h].op = "create"
  /\ session' = [session EXCEPT ![req[h].sid] = NewSession(req[h].parties)]
  /\ persistent' = persistent \ {req[h].sid}
  /\ Done(h)
  /\ UNCHANGED device

Accepts(r, ses) == r.op = "join" => MayJoin(ses, r.dev)

\* Mutant: the checks are left to the write.
GetSessionUnchecked(h) ==
  /\ pc[h] = "get" /\ req[h].op \in {"join", "patch"} /\ Live(req[h].sid)
  /\ copy' = [copy EXCEPT ![h] = session[req[h].sid]]
  /\ Goto(h, "ttl")
  /\ UNCHANGED <<redis, req, forever>>

\* HandleJoinSession and HandleUpdateSession: no session, no party, or already
\* joined: answer at once.
GetSession(h) ==
  /\ pc[h] = "get" /\ req[h].op \in {"join", "patch"}
  /\ IF Live(req[h].sid) /\ Accepts(req[h], session[req[h].sid])
     THEN /\ copy' = [copy EXCEPT ![h] = session[req[h].sid]]
          /\ Goto(h, "ttl")
          /\ UNCHANGED <<req, forever>>
     ELSE Done(h)
  /\ UNCHANGED redis

\* UpdateSession, the TTL command.  No key, a key without expiry and an error
\* all give the full TTL.  Redis rounds the rest of a TTL to seconds: in the
\* last half second it answers zero, which the SET takes as "no expiry".
ReadTTL(h) ==
  /\ pc[h] = "ttl"
  /\ \E zero \in BOOLEAN :
       /\ zero => Live(req[h].sid) /\ req[h].sid \notin persistent
       /\ forever' = [forever EXCEPT ![h] = zero]
  /\ Goto(h, "set")
  /\ UNCHANGED <<redis, req, copy>>

\* Mutant: a PATCH builds the session anew and forgets who has joined.
EditedAnew(h) == IF req[h].op = "join"
                 THEN WithJoined(copy[h], req[h].dev)
                 ELSE WithPatch(NewSession(copy[h].parties), req[h].status, req[h].round)

Edited(h) == IF req[h].op = "join"
             THEN WithJoined(copy[h], req[h].dev)
             ELSE WithPatch(copy[h], req[h].status, req[h].round)

\* UpdateSession, the SET: the edited copy replaces whatever is stored.
StoreCopy(h) ==
  /\ pc[h] = "set" /\ req[h].op \in {"join", "patch"}
  /\ session' = [session EXCEPT ![req[h].sid] = Edited(h)]
  /\ persistent' = IF forever[h] THEN persistent \cup {req[h].sid}
                                 ELSE persistent \ {req[h].sid}
  /\ Done(h)
  /\ UNCHANGED device

\* A Redis command fails and the request answers an error, or the server
\* stops: the goroutine and its copy are gone, Redis keeps what it has.
Abandon(h) ==
  /\ pc[h] # "idle"
  /\ Done(h)
  /\ UNCHANGED redis

-----------------------------------------------------------------------------
(* HandleDeleteSession is one DEL; a session key also goes when its TTL ends. *)

Drop(s) ==
  /\ session' = [session EXCEPT ![s] = NoSession]
  /\ persistent' = persistent \ {s}
  /\ UNCHANGED <<device, pc, req, copy, forever>>

DeleteSession(s) == Live(s) /\ Drop(s)

SessionExpires(s) == Live(s) /\ s \notin persistent /\ Drop(s)

-----------------------------------------------------------------------------
Next ==
  \/ \E d \in Device : RegisterDevice(d) \/ DeviceExpires(d)
  \/ \E h \in Handler :
       \/ Receive(h) \/ CheckAbsent(h) \/ CheckParties(h) \/ StoreNew(h)
       \/ GetSession(h) \/ ReadTTL(h) \/ StoreCopy(h) \/ Abandon(h)
  \/ \E s \in Session : DeleteSession(s) \/ SessionExpires(s)

Spec == Init /\ [][Next]_vars

-----------------------------------------------------------------------------
(* Properties *)

TypeOK ==
  /\ device \subseteq Device
  /\ session \in [Session -> SessionRec \cup {NoSession}]
  /\ persistent \subseteq Session
  /\ pc \in [Handler -> PC]
  /\ req \in [Handler -> Request \cup {NoRequest}]
  /\ copy \in [Handler -> SessionRec \cup {NoSession}]
  /\ forever \in [Handler -> BOOLEAN]

\* A request that is about to write holds a copy in which what it adds was still
\* allowed, and a request to create holds none (the checks of the handlers are
\* made on the copy that is later written back, never on another one).
InFlightOK ==
  \A h \in Handler :
     /\ pc[h] # "idle" => req[h] \in Request
     /\ pc[h] = "devices" => req[h].op = "create"
     /\ pc[h] = "ttl" => req[h].op # "create"
     /\ pc[h] \in {"ttl", "set"} /\ req[h].op # "create"
          => copy[h] # NoSession /\ Accepts(req[h], copy[h])
     /\ pc[h] \in {"idle", "get"} \/ req[h].op = "create" => copy[h] = NoSession

\* A join puts a device into a session at most once, and only a party of that
\* session, whatever other requests overwrite in between: in the store and in
\* every copy a request is about to write back (handler.go, the party check and
\* the already-joined check of HandleJoinSession).
Copies == {copy[h] : h \in Handler} \cup {session[s] : s \in Session}

JoinedOnce == \A ses \in Copies : ses # NoSession => WellFormed(ses)

\* A session everybody has joined has left "waiting", and a session is
\* "in_progress" only when everybody has joined: the status and the count go
\* together in the store and in every copy, as long as no client PATCHes a
\* session back to the status in question (HandleJoinSession's status change
\* against HandleUpdateSession's).
AllJoined(ses) == Len(ses.joined) = Len(ses.parties)

StatusFits(ses) ==
  /\ AllJoined(ses) /\ "waiting" \notin PatchStatus => ses.status # "waiting"
  /\ ses.status = "in_progress" /\ "in_progress" \notin PatchStatus => AllJoined(ses)

StartedWhenAllJoined == \A ses \in Copies : ses # NoSession => StatusFits(ses)

\* A request is outdated when the session has changed since the request read
\* it (a create read "no session").
Outdated(h) == /\ pc[h] \in {"devices", "ttl", "set"}
               /\ copy[h] # session[req[h].sid]

Exposed == {s \in Session : \E h \in Handler : Outdated(h) /\ req[h].sid = s}

\* Requests act on the stored session in one step, except over a session some
\* request holds an outdated copy of: without one, a create never replaces a
\* session, a join or a PATCH never loses what another request wrote, and a
\* removed session comes back only through a create.
Store == INSTANCE SessionStore WITH exposed <- Exposed

ImplementsStore == Store!Spec

\* A join that was stored (and answered "Joined session successfully") stays in
\* the session for as long as the session is there and is not created anew, which
\* would empty it.
JoinsAreKept ==
  [][\A s \in Session :
       Live(s) /\ session'[s] # NoSession /\ session'[s].joined # <<>>
       => Members(session[s].joined) \subseteq Members(session'[s].joined)]_vars
=============================================================================
