------------------------ MODULE RelaySession_proofs ------------------------
(***************************************************************************)
(* Proofs about RelaySession, for any sets of devices, sessions and         *)
(* concurrent requests.                                                     *)
(***************************************************************************)
EXTENDS RelaySession, FiniteSetTheorems, TLAPS

\* The statuses the relay sets, and those it is sent.
LEMMA Statuses ==
  /\ "waiting" \in Status /\ "in_progress" \in Status
  /\ \A status \in PatchStatus : status # "" => status \in Status
BY DEF Status

-----------------------------------------------------------------------------
(* The three edits of a session *)

\* A created session is well formed.
LEMMA NewSessionOK ==
  ASSUME NEW parties \in PartyLists
  PROVE  NewSession(parties) \in SessionRec /\ WellFormed(NewSession(parties))
<1>1. parties \in Seq(Device) /\ <<>> \in Seq(Device) /\ 0 \in 0..MaxRound
  BY PartyListsAssumption, MaxRoundAssumption
<1>2. NewSession(parties) \in SessionRec
  BY <1>1, Statuses, Zenon DEF NewSession, SessionRec
<1>3. WellFormed(NewSession(parties))
  BY DEF NewSession, WellFormed, Members
<1> QED BY <1>2, <1>3

\* A join keeps the type of a session.
LEMMA WithJoinedType ==
  ASSUME NEW ses \in SessionRec, NEW d \in Device
  PROVE  WithJoined(ses, d) \in SessionRec
<1> DEFINE joined == Append(ses.joined, d)
           status == IF Len(ses.joined) + 1 = Len(ses.parties)
                     THEN "in_progress" ELSE ses.status
<1>0. joined \in Seq(Device) /\ ses.status \in Status
  BY DEF SessionRec
<1>1. joined \in Seq(Device) /\ status \in Status
  BY <1>0, Statuses, Zenon
<1>2. WithJoined(ses, d) = [ses EXCEPT !.joined = joined, !.status = status]
  BY DEF WithJoined, SessionRec
<1> HIDE DEF joined, status
<1> QED BY <1>1, <1>2 DEF SessionRec

\* A join of a party that has not joined keeps a session well formed.
LEMMA WithJoinedWellFormed ==
  ASSUME NEW ses \in SessionRec, NEW d \in Device, WellFormed(ses), MayJoin(ses, d)
  PROVE  WellFormed(WithJoined(ses, d))
<1> DEFINE j == ses.joined
           new == Append(j, d)
<1>1. j \in Seq(Device)
  BY DEF SessionRec
<1>2. /\ Len(new) = Len(j) + 1
      /\ DOMAIN new = 1..(Len(j) + 1)
      /\ new[Len(j) + 1] = d
      /\ \A i \in 1..Len(j) : new[i] = j[i]
      /\ DOMAIN j = 1..Len(j)
  BY <1>1
<1>3. WithJoined(ses, d).joined = new /\ WithJoined(ses, d).parties = ses.parties
  BY DEF WithJoined, SessionRec
<1>4. \A i, k \in DOMAIN new : new[i] = new[k] => i = k
  BY <1>1, <1>2 DEF WellFormed, MayJoin, Members
<1>5. Members(new) \subseteq Members(ses.parties)
  BY <1>1, <1>2 DEF WellFormed, MayJoin, Members
<1> QED BY <1>3, <1>4, <1>5 DEF WellFormed

\* A PATCH keeps type, parties and joined parties.
LEMMA WithPatchOK ==
  ASSUME NEW ses \in SessionRec, NEW status \in PatchStatus, NEW round \in 0..MaxRound
  PROVE  /\ WithPatch(ses, status, round) \in SessionRec
         /\ WellFormed(ses) => WellFormed(WithPatch(ses, status, round))
         /\ WithPatch(ses, status, round).joined = ses.joined
         /\ WithPatch(ses, status, round).parties = ses.parties
BY Statuses DEF WithPatch, SessionRec, WellFormed

\* A request is a create, a join or a PATCH.
LEMMA RequestCases ==
  ASSUME NEW r \in Request
  PROVE  /\ r.sid \in Session
         /\ r.op \in {"create", "join", "patch"}
         /\ r.op = "create" => r.parties \in PartyLists
         /\ r.op = "join" => r.dev \in Device
         /\ r.op = "patch" => r.status \in PatchStatus /\ r.round \in 0..MaxRound
BY DEF Request

-----------------------------------------------------------------------------
(* The inductive invariant.  InFlightOK is what carries the checks a request *)
(* made when it read over to the step in which it writes.                    *)

Inv == TypeOK /\ InFlightOK /\ JoinedOnce

\* What StoreCopy writes is a well-formed session.
LEMMA EditedOK ==
  ASSUME Inv, NEW h \in Handler, pc[h] = "set", req[h].op \in {"join", "patch"}
  PROVE  Edited(h) \in SessionRec /\ WellFormed(Edited(h))
<1>1. /\ req[h] \in Request
      /\ copy[h] # NoSession /\ Accepts(req[h], copy[h])
  BY DEF Inv, InFlightOK
<1>2. copy[h] \in SessionRec /\ WellFormed(copy[h])
  BY <1>1 DEF Inv, TypeOK, JoinedOnce, Copies
<1>3. CASE req[h].op = "join"
  <2>1. req[h].dev \in Device /\ MayJoin(copy[h], req[h].dev)
    BY <1>1, <1>3, RequestCases DEF Accepts
  <2>2. Edited(h) = WithJoined(copy[h], req[h].dev)
    BY <1>3 DEF Edited
  <2> QED BY <1>2, <2>1, <2>2, WithJoinedType, WithJoinedWellFormed
<1>4. CASE req[h].op = "patch"
  <2>1. req[h].status \in PatchStatus /\ req[h].round \in 0..MaxRound
    BY <1>1, <1>4, RequestCases
  <2>2. Edited(h) = WithPatch(copy[h], req[h].status, req[h].round)
    BY <1>4 DEF Edited
  <2> QED BY <1>2, <2>1, <2>2, WithPatchOK
<1> QED BY <1>3, <1>4

\* Inv holds initially.
LEMMA InitInv == Init => Inv
BY DEF Init, Inv, TypeOK, InFlightOK, JoinedOnce, Copies, PC, NoRequest

\* A request that ends leaves nothing in flight behind.
LEMMA DoneOK ==
  ASSUME Inv, NEW h \in Handler, Done(h)
  PROVE  /\ pc' \in [Handler -> PC]
         /\ req' \in [Handler -> Request \cup {NoRequest}]
         /\ copy' \in [Handler -> SessionRec \cup {NoSession}]
         /\ forever' \in [Handler -> BOOLEAN]
         /\ InFlightOK'
         /\ \A g \in Handler : copy'[g] \in {copy[g], NoSession}
BY DEF Inv, TypeOK, InFlightOK, Done, Goto, PC, NoRequest, Accepts

\* JoinedOnce goes on if every session and copy of the next state was one of this
\* state, or is well formed.
LEMMA JoinedOnceStep ==
  ASSUME Inv,
         \A g \in Handler : copy'[g] \in {copy[g], NoSession} \/ WellFormed(copy'[g]),
         \A s \in Session : session'[s] \in {session[s], NoSession} \/ WellFormed(session'[s])
  PROVE  JoinedOnce'
BY DEF Inv, JoinedOnce, Copies

\* Every step keeps Inv.
LEMMA NextInv == Inv /\ [Next]_vars => Inv'
<1> SUFFICES ASSUME Inv, [Next]_vars PROVE Inv'
  OBVIOUS
<1> USE DEF Inv
<1>1. ASSUME NEW d \in Device, RegisterDevice(d) PROVE Inv'
  BY <1>1 DEF RegisterDevice, TypeOK, InFlightOK, JoinedOnce, Copies
<1>2. ASSUME NEW d \in Device, DeviceExpires(d) PROVE Inv'
  BY <1>2 DEF DeviceExpires, TypeOK, InFlightOK, JoinedOnce, Copies
<1>3. ASSUME NEW h \in Handler, Receive(h) PROVE Inv'
  <2>1. PICK r \in Request : req' = [req EXCEPT ![h] = r]
    BY <1>3 DEF Receive
  <2>2. TypeOK'
    BY <1>3, <2>1 DEF Receive, redis, Goto, TypeOK, PC
  <2>3. InFlightOK'
    BY <1>3, <2>1 DEF Receive, redis, Goto, TypeOK, InFlightOK, Accepts
  <2>4. JoinedOnce'
    BY <1>3 DEF Receive, redis, JoinedOnce, Copies
  <2> QED BY <2>2, <2>3, <2>4
<1>4. ASSUME NEW h \in Handler, CheckAbsent(h) PROVE Inv'
  <2>1. CASE Done(h)
    <3>1. TypeOK' /\ InFlightOK'
      BY <1>4, <2>1, DoneOK DEF CheckAbsent, redis, TypeOK
    <3>2. JoinedOnce'
      BY <1>4, <2>1, DoneOK, JoinedOnceStep DEF CheckAbsent, redis
    <3> QED BY <3>1, <3>2
  <2>2. CASE Goto(h, "devices") /\ UNCHANGED <<req, copy, forever>>
    <3>1. TypeOK'
      BY <1>4, <2>2 DEF CheckAbsent, redis, Goto, TypeOK, PC
    <3>2. InFlightOK'
      BY <1>4, <2>2 DEF CheckAbsent, redis, Goto, TypeOK, InFlightOK, Accepts
    <3>3. JoinedOnce'
      BY <1>4, <2>2 DEF CheckAbsent, redis, JoinedOnce, Copies
    <3> QED BY <3>1, <3>2, <3>3
  <2> QED BY <1>4, <2>1, <2>2 DEF CheckAbsent
<1>5. ASSUME NEW h \in Handler, CheckParties(h) PROVE Inv'
  <2>1. CASE Done(h)
    <3>1. TypeOK' /\ InFlightOK'
      BY <1>5, <2>1, DoneOK DEF CheckParties, redis, TypeOK
    <3>2. JoinedOnce'
      BY <1>5, <2>1, DoneOK, JoinedOnceStep DEF CheckParties, redis
    <3> QED BY <3>1, <3>2
  <2>2. CASE Goto(h, "set") /\ UNCHANGED <<req, copy, forever>>
    <3>1. TypeOK'
      BY <1>5, <2>2 DEF CheckParties, redis, Goto, TypeOK, PC
    <3>2. InFlightOK'
      BY <1>5, <2>2 DEF CheckParties, redis, Goto, TypeOK, InFlightOK, Accepts
    <3>3. JoinedOnce'
      BY <1>5, <2>2 DEF CheckParties, redis, JoinedOnce, Copies
    <3> QED BY <3>1, <3>2, <3>3
  <2> QED BY <1>5, <2>1, <2>2 DEF CheckParties
<1>6. ASSUME NEW h \in Handler, StoreNew(h) PROVE Inv'
  <2>1. req[h] \in Request /\ Done(h)
    BY <1>6 DEF StoreNew, InFlightOK
  <2>2. /\ req[h].sid \in Session
        /\ NewSession(req[h].parties) \in SessionRec
        /\ WellFormed(NewSession(req[h].parties))
    BY <1>6, <2>1, RequestCases, NewSessionOK DEF StoreNew
  <2>3. TypeOK' /\ InFlightOK'
    BY <1>6, <2>1, <2>2, DoneOK DEF StoreNew, TypeOK
  <2>4. JoinedOnce'
    BY <1>6, <2>1, <2>2, DoneOK, JoinedOnceStep DEF StoreNew, TypeOK
  <2> QED BY <2>3, <2>4
<1>7. ASSUME NEW h \in Handler, GetSession(h) PROVE Inv'
  <2>1. CASE Live(req[h].sid) /\ Accepts(req[h], session[req[h].sid])
    <3>1. req[h] \in Request /\ req[h].sid \in Session
      BY <1>7, RequestCases DEF GetSession, InFlightOK
    <3>2. /\ copy' = [copy EXCEPT ![h] = session[req[h].sid]]
          /\ pc' = [pc EXCEPT ![h] = "ttl"]
          /\ UNCHANGED <<device, session, persistent, req, forever>>
      BY <1>7, <2>1 DEF GetSession, redis, Goto
    <3>3. TypeOK'
      BY <3>1, <3>2 DEF TypeOK, PC
    <3>4. InFlightOK'
      BY <1>7, <2>1, <3>1, <3>2 DEF GetSession, Live, TypeOK, InFlightOK, Accepts
    <3>5. JoinedOnce'
      BY <3>1, <3>2 DEF TypeOK, JoinedOnce, Copies
    <3> QED BY <3>3, <3>4, <3>5
  <2>2. CASE Done(h)
    <3>1. TypeOK' /\ InFlightOK'
      BY <1>7, <2>2, DoneOK DEF GetSession, redis, TypeOK
    <3>2. JoinedOnce'
      BY <1>7, <2>2, DoneOK, JoinedOnceStep DEF GetSession, redis
    <3> QED BY <3>1, <3>2
  <2> QED BY <1>7, <2>1, <2>2 DEF GetSession
<1>8. ASSUME NEW h \in Handler, ReadTTL(h) PROVE Inv'
  <2>1. TypeOK'
    BY <1>8 DEF ReadTTL, redis, Goto, TypeOK, PC
  <2>2. InFlightOK'
    BY <1>8 DEF ReadTTL, redis, Goto, TypeOK, InFlightOK, Accepts
  <2>3. JoinedOnce'
    BY <1>8 DEF ReadTTL, redis, JoinedOnce, Copies
  <2> QED BY <2>1, <2>2, <2>3
<1>9. ASSUME NEW h \in Handler, StoreCopy(h) PROVE Inv'
  <2>1. req[h].sid \in Session /\ Done(h)
    BY <1>9, RequestCases DEF StoreCopy, InFlightOK
  <2>2. Edited(h) \in SessionRec /\ WellFormed(Edited(h))
    BY <1>9, EditedOK DEF StoreCopy
  <2>3. TypeOK' /\ InFlightOK'
    BY <1>9, <2>1, <2>2, DoneOK DEF StoreCopy, TypeOK
  <2>4. JoinedOnce'
    BY <1>9, <2>1, <2>2, DoneOK, JoinedOnceStep DEF StoreCopy, TypeOK
  <2> QED BY <2>3, <2>4
<1>10. ASSUME NEW h \in Handler, Abandon(h) PROVE Inv'
  <2>1. TypeOK' /\ InFlightOK'
    BY <1>10, DoneOK DEF Abandon, redis, TypeOK
  <2>2. JoinedOnce'
    BY <1>10, DoneOK, JoinedOnceStep DEF Abandon, redis
  <2> QED BY <2>1, <2>2
<1>11. ASSUME NEW s \in Session, DeleteSession(s) \/ SessionExpires(s) PROVE Inv'
  <2>1. Drop(s)
    BY <1>11 DEF DeleteSession, SessionExpires
  <2>2. TypeOK' /\ InFlightOK'
    BY <2>1 DEF Drop, TypeOK, InFlightOK
  <2>3. JoinedOnce'
    BY <2>1, JoinedOnceStep DEF Drop, TypeOK
  <2> QED BY <2>2, <2>3
<1>12. CASE UNCHANGED vars
  BY <1>12 DEF vars, TypeOK, InFlightOK, JoinedOnce, Copies
<1> QED BY <1>1, <1>2, <1>3, <1>4, <1>5, <1>6, <1>7, <1>8, <1>9, <1>10, <1>11, <1>12 DEF Next

\* Inv holds in every reachable state.
THEOREM Invariance == Spec => []Inv
BY InitInv, NextInv, PTL DEF Spec

\* Every variable keeps its type.
THEOREM TypeCorrect == Spec => []TypeOK
BY Invariance, PTL DEF Inv

\* No interleaving of requests, failures and expiries puts a device into a
\* session twice or a stranger into it (HandleJoinSession on a copy that other
\* requests may have made outdated).
THEOREM AlwaysJoinedOnce == Spec => []JoinedOnce
BY Invariance, PTL DEF Inv

\* What a request is about to write back was allowed on the copy it holds, whatever
\* happened to the stored session since (HandleJoinSession, HandleUpdateSession).
THEOREM CopiesStayValid == Spec => []InFlightOK
BY Invariance, PTL DEF Inv

-----------------------------------------------------------------------------
(* The status and the number of joined parties go together.  The heart of it *)
(* is a pigeonhole argument: as long as some party has not joined, there are  *)
(* fewer joined parties than parties, so a join can only reach the count, never *)
(* step over it.                                                              *)

\* A list without duplicates, of members of another, is not longer than that.
LEMMA NoLongerThan ==
  ASSUME NEW S, NEW a \in Seq(S), NEW b \in Seq(S),
         \A i, k \in DOMAIN a : a[i] = a[k] => i = k,
         Members(a) \subseteq Members(b)
  PROVE  Len(a) <= Len(b)
<1> DEFINE place == [i \in 1..Len(a) |-> CHOOSE k \in 1..Len(b) : b[k] = a[i]]
<1>1. /\ Len(a) \in Nat /\ DOMAIN a = 1..Len(a)
      /\ Len(b) \in Nat /\ DOMAIN b = 1..Len(b)
  OBVIOUS
<1>2. SUFFICES ASSUME Len(b) < Len(a) PROVE FALSE
  BY <1>1
<1>3. \A i \in 1..Len(a) : \E k \in 1..Len(b) : b[k] = a[i]
  BY <1>1 DEF Members
<1>4. \A i \in 1..Len(a) : place[i] \in 1..Len(b) /\ b[place[i]] = a[i]
  BY <1>3
<1>5. place \in [1..Len(a) -> 1..Len(b)]
  BY <1>4
<1>6. IsFiniteSet(1..Len(a)) /\ Cardinality(1..Len(a)) = Len(a)
  <2>1. 1 \in Int /\ Len(a) \in Int
    BY <1>1
  <2>2. IsFiniteSet(1..Len(a)) /\ Cardinality(1..Len(a)) = IF 1 > Len(a) THEN 0 ELSE Len(a) - 1 + 1
    BY <2>1, FS_Interval
  <2> QED BY <1>1, <2>2
<1>7. IsFiniteSet(1..Len(b)) /\ Cardinality(1..Len(b)) = Len(b)
  <2>1. 1 \in Int /\ Len(b) \in Int
    BY <1>1
  <2>2. IsFiniteSet(1..Len(b)) /\ Cardinality(1..Len(b)) = IF 1 > Len(b) THEN 0 ELSE Len(b) - 1 + 1
    BY <2>1, FS_Interval
  <2> QED BY <1>1, <2>2
<1>8. \E i, k \in 1..Len(a) : i # k /\ place[i] = place[k]
  <2> DEFINE A == 1..Len(a)
             B == 1..Len(b)
  <2>1. Cardinality(B) < Cardinality(A)
    BY <1>2, <1>6, <1>7
  <2>2. IsFiniteSet(A) /\ IsFiniteSet(B) /\ place \in [A -> B]
    BY <1>5, <1>6, <1>7
  <2> HIDE DEF place, A, B
  <2>3. \E i, k \in A : i # k /\ place[i] = place[k]
    BY <2>1, <2>2, FS_PigeonHole, Zenon
  <2> QED BY <2>3 DEF A
<1> HIDE DEF place
<1> QED BY <1>1, <1>4, <1>8

\* A session that somebody may join has fewer joined parties than parties.
LEMMA RoomToJoin ==
  ASSUME NEW ses \in SessionRec, NEW d \in Device, WellFormed(ses), MayJoin(ses, d)
  PROVE  Len(ses.joined) < Len(ses.parties)
<1> DEFINE new == WithJoined(ses, d)
<1>1. new \in SessionRec /\ WellFormed(new)
  BY WithJoinedType, WithJoinedWellFormed
<1>2. Len(new.joined) = Len(ses.joined) + 1 /\ new.parties = ses.parties
  BY DEF WithJoined, SessionRec
<1>3. new.joined \in Seq(Device) /\ new.parties \in Seq(Device)
  BY <1>1 DEF SessionRec
<1> HIDE DEF new
<1>4. Len(new.joined) <= Len(new.parties)
  BY <1>1, <1>3, NoLongerThan DEF WellFormed
<1>5. Len(ses.joined) \in Nat /\ Len(ses.parties) \in Nat
  BY DEF SessionRec
<1> QED BY <1>2, <1>4, <1>5

\* A created session is waiting, and nobody has joined.
LEMMA StatusFitsNew ==
  ASSUME NEW parties \in PartyLists PROVE StatusFits(NewSession(parties))
BY PartyListsAssumption DEF StatusFits, AllJoined, NewSession

\* A join that reaches the count starts the session; another leaves the status.
LEMMA StatusFitsJoin ==
  ASSUME NEW ses \in SessionRec, NEW d \in Device, WellFormed(ses), MayJoin(ses, d),
         StatusFits(ses)
  PROVE  StatusFits(WithJoined(ses, d))
<1>1. Len(ses.joined) < Len(ses.parties) /\ Len(ses.joined) \in Nat /\ Len(ses.parties) \in Nat
  BY RoomToJoin DEF SessionRec
<1>2. Len(WithJoined(ses, d).joined) = Len(ses.joined) + 1 /\ WithJoined(ses, d).parties = ses.parties
  BY DEF WithJoined, SessionRec
<1>3. WithJoined(ses, d).status = IF Len(ses.joined) + 1 = Len(ses.parties)
                                  THEN "in_progress" ELSE ses.status
  BY DEF WithJoined, SessionRec
<1> QED BY <1>1, <1>2, <1>3 DEF StatusFits, AllJoined

\* A PATCH keeps the status and the count together, for the statuses it does not set.
LEMMA StatusFitsPatch ==
  ASSUME NEW ses \in SessionRec, NEW status \in PatchStatus, NEW round \in 0..MaxRound,
         StatusFits(ses)
  PROVE  StatusFits(WithPatch(ses, status, round))
<1>1. WithPatch(ses, status, round).status = IF status # "" THEN status ELSE ses.status
  BY DEF WithPatch, SessionRec
<1> QED BY <1>1, WithPatchOK DEF StatusFits, AllJoined

StatusInv == Inv /\ StartedWhenAllJoined

\* StatusInv goes on if every session and copy of the next state was one of this
\* state, or has a fitting status.
LEMMA StatusStep ==
  ASSUME StatusInv, Inv',
         \A g \in Handler : copy'[g] \in {copy[g], NoSession} \/ StatusFits(copy'[g]),
         \A s \in Session : session'[s] \in {session[s], NoSession} \/ StatusFits(session'[s])
  PROVE  StatusInv'
BY DEF StatusInv, StartedWhenAllJoined, Copies

\* What StoreCopy writes has a fitting status.
LEMMA StatusFitsEdited ==
  ASSUME StatusInv, NEW h \in Handler, pc[h] = "set", req[h].op \in {"join", "patch"}
  PROVE  StatusFits(Edited(h))
<1>1. /\ req[h] \in Request
      /\ copy[h] # NoSession /\ Accepts(req[h], copy[h])
  BY DEF StatusInv, Inv, InFlightOK
<1>2. copy[h] \in SessionRec /\ WellFormed(copy[h]) /\ StatusFits(copy[h])
  BY <1>1 DEF StatusInv, StartedWhenAllJoined, Inv, TypeOK, JoinedOnce, Copies
<1>3. CASE req[h].op = "join"
  <2>1. req[h].dev \in Device /\ MayJoin(copy[h], req[h].dev)
    BY <1>1, <1>3, RequestCases DEF Accepts
  <2> QED BY <1>2, <1>3, <2>1, StatusFitsJoin DEF Edited
<1>4. CASE req[h].op = "patch"
  <2>1. req[h].status \in PatchStatus /\ req[h].round \in 0..MaxRound
    BY <1>1, <1>4, RequestCases
  <2> QED BY <1>2, <1>4, <2>1, StatusFitsPatch DEF Edited
<1> QED BY <1>3, <1>4

\* Every step keeps StatusInv.
LEMMA NextStatus == StatusInv /\ [Next]_vars => StatusInv'
<1> SUFFICES ASSUME StatusInv, [Next]_vars PROVE StatusInv'
  OBVIOUS
<1>1. Inv'
  BY NextInv DEF StatusInv
<1>2. ASSUME UNCHANGED <<session, copy>> PROVE StatusInv'
  BY <1>1, <1>2, StatusStep
<1>3. ASSUME NEW h \in Handler, Done(h), UNCHANGED session PROVE StatusInv'
  BY <1>1, <1>3, DoneOK, StatusStep DEF StatusInv
<1>4. ASSUME NEW h \in Handler, StoreNew(h) PROVE StatusInv'
  <2>1. req[h] \in Request /\ req[h].sid \in Session /\ Done(h)
    BY <1>4, RequestCases DEF StoreNew, StatusInv, Inv, InFlightOK
  <2>2. StatusFits(NewSession(req[h].parties))
    BY <1>4, <2>1, RequestCases, StatusFitsNew DEF StoreNew
  <2> QED BY <1>1, <1>4, <2>1, <2>2, DoneOK, StatusStep DEF StoreNew, StatusInv, Inv, TypeOK
<1>5. ASSUME NEW h \in Handler, GetSession(h), ~Done(h) PROVE StatusInv'
  <2>1. req[h].sid \in Session
    BY <1>5, RequestCases DEF GetSession, StatusInv, Inv, InFlightOK
  <2>2. copy' = [copy EXCEPT ![h] = session[req[h].sid]] /\ UNCHANGED session
    BY <1>5 DEF GetSession, redis
  <2>3. session[req[h].sid] = NoSession \/ StatusFits(session[req[h].sid])
    BY <2>1 DEF StatusInv, StartedWhenAllJoined, Copies
  <2> QED BY <1>1, <2>2, <2>3, StatusStep DEF StatusInv, Inv, TypeOK
<1>6. ASSUME NEW h \in Handler, StoreCopy(h) PROVE StatusInv'
  <2>1. req[h].sid \in Session /\ Done(h)
    BY <1>6, RequestCases DEF StoreCopy, StatusInv, Inv, InFlightOK
  <2>2. StatusFits(Edited(h))
    BY <1>6, StatusFitsEdited DEF StoreCopy
  <2> QED BY <1>1, <1>6, <2>1, <2>2, DoneOK, StatusStep DEF StoreCopy, StatusInv, Inv, TypeOK
<1>7. ASSUME NEW s \in Session, DeleteSession(s) \/ SessionExpires(s) PROVE StatusInv'
  BY <1>1, <1>7, StatusStep DEF DeleteSession, SessionExpires, Drop, StatusInv, Inv, TypeOK
<1>8. CASE \E d \in Device : RegisterDevice(d) \/ DeviceExpires(d)
  BY <1>2, <1>8 DEF RegisterDevice, DeviceExpires
<1>9. CASE \E h \in Handler : Receive(h) \/ ReadTTL(h)
  BY <1>2, <1>9 DEF Receive, ReadTTL, redis
<1>10. CASE \E h \in Handler : CheckAbsent(h) \/ CheckParties(h) \/ Abandon(h)
  BY <1>2, <1>3, <1>10 DEF CheckAbsent, CheckParties, Abandon, redis
<1>11. ASSUME NEW h \in Handler, GetSession(h) PROVE StatusInv'
  BY <1>3, <1>5, <1>11 DEF GetSession, redis
<1>12. CASE UNCHANGED vars
  BY <1>2, <1>12 DEF vars
<1> QED BY <1>4, <1>6, <1>7, <1>8, <1>9, <1>10, <1>11, <1>12 DEF Next

\* While no client PATCHes a session back to "waiting", a session everybody has
\* joined is not waiting; while none PATCHes it to "in_progress", a session in
\* progress has been joined by everybody (HandleJoinSession compares counts).
THEOREM AlwaysStartedWhenAllJoined == Spec => []StartedWhenAllJoined
<1>1. Init => StatusInv
  BY InitInv DEF Init, StatusInv, StartedWhenAllJoined, Copies
<1>2. Spec => []StatusInv
  BY <1>1, NextStatus, PTL DEF Spec
<1> QED BY <1>2, PTL DEF StatusInv

-----------------------------------------------------------------------------
(* Every step of the requests is a step of the store.  A write over the very  *)
(* session the request read is a Create, a Join or a Patch of it; a write over *)
(* anything else is an Overwrite, and then the session was exposed.            *)

\* The store's operators are the ones of SessionRecord under another name.
LEMMA SameOperators ==
  /\ Store!SessionRec = SessionRec
  /\ \A ses : Store!WellFormed(ses) <=> WellFormed(ses)
  /\ \A ses, d : Store!MayJoin(ses, d) <=> MayJoin(ses, d)
  /\ \A parties : Store!NewSession(parties) = NewSession(parties)
  /\ \A ses, d : Store!WithJoined(ses, d) = WithJoined(ses, d)
  /\ \A ses, status, round : Store!WithPatch(ses, status, round) = WithPatch(ses, status, round)
BY DEF Store!SessionRec, Store!Status, Status, SessionRec, Store!WellFormed, WellFormed,
       Store!Members, Members, Store!MayJoin, MayJoin, Store!NewSession, NewSession,
       Store!WithJoined, WithJoined, Store!WithPatch, WithPatch

\* A write over an exposed session is an Overwrite of the abstract store.
LEMMA OverwriteMaps ==
  ASSUME NEW s \in Session, s \in Exposed, NEW ses \in SessionRec, WellFormed(ses),
         session' = [session EXCEPT ![s] = ses], session'[s] = ses
  PROVE  Store!Overwrite(s)
<1>1. session' = [session EXCEPT ![s] = session'[s]]
  OBVIOUS
<1>2. session'[s] \in Store!SessionRec /\ Store!WellFormed(session'[s])
  BY SameOperators
<1> QED BY <1>1, <1>2 DEF Store!Overwrite, Store!Set

\* StoreNew is a Create, or an Overwrite of an exposed session.
LEMMA StoreNewMaps ==
  ASSUME Inv, NEW h \in Handler, StoreNew(h) PROVE Store!Next
<1> DEFINE s == req[h].sid
<1>1. /\ s \in Session /\ req[h].parties \in PartyLists
      /\ copy[h] = NoSession
  BY RequestCases DEF StoreNew, Inv, InFlightOK
<1>2. session' = [session EXCEPT ![s] = NewSession(req[h].parties)]
  BY DEF StoreNew
<1>3. CASE Live(s)
  <2>1. s \in Exposed
    BY <1>1, <1>3 DEF Exposed, Outdated, StoreNew, Live
  <2>2. session'[s] = NewSession(req[h].parties)
    BY <1>1, <1>2 DEF Inv, TypeOK
  <2>3. Store!Overwrite(s)
    BY <1>1, <1>2, <2>1, <2>2, NewSessionOK, OverwriteMaps
  <2> QED BY <1>1, <2>3 DEF Store!Next
<1>4. CASE ~Live(s)
  <2>1. Store!Create(s)
    BY <1>1, <1>2, <1>4, SameOperators DEF Store!Create, Store!Live, Store!Set, Live
  <2> QED BY <1>1, <2>1 DEF Store!Next
<1> QED BY <1>3, <1>4

\* StoreCopy is a Join or a Patch, or an Overwrite of an exposed session.
LEMMA StoreCopyMaps ==
  ASSUME Inv, NEW h \in Handler, StoreCopy(h) PROVE Store!Next
<1> DEFINE s == req[h].sid
<1>1. /\ s \in Session /\ req[h] \in Request
      /\ copy[h] # NoSession /\ Accepts(req[h], copy[h])
  BY RequestCases DEF StoreCopy, Inv, InFlightOK
<1>2. session' = [session EXCEPT ![s] = Edited(h)]
  BY DEF StoreCopy
<1>3. CASE copy[h] # session[s]
  <2>1. s \in Exposed
    BY <1>1, <1>3 DEF Exposed, Outdated, StoreCopy
  <2>2. session'[s] = Edited(h)
    BY <1>1, <1>2 DEF Inv, TypeOK
  <2>3. Edited(h) \in SessionRec /\ WellFormed(Edited(h))
    BY EditedOK DEF StoreCopy
  <2>4. Store!Overwrite(s)
    BY <1>1, <1>2, <2>1, <2>2, <2>3, OverwriteMaps
  <2> QED BY <1>1, <2>4 DEF Store!Next
<1>4. CASE copy[h] = session[s] /\ req[h].op = "join"
  <2>1. req[h].dev \in Device /\ MayJoin(session[s], req[h].dev)
    BY <1>1, <1>4, RequestCases DEF Accepts
  <2>2. Store!Join(s)
    BY <1>1, <1>2, <1>4, <2>1, SameOperators DEF Store!Join, Store!Live, Store!Set, Edited
  <2> QED BY <1>1, <2>2 DEF Store!Next
<1>5. CASE copy[h] = session[s] /\ req[h].op = "patch"
  <2>1. req[h].status \in PatchStatus /\ req[h].round \in 0..MaxRound
    BY <1>1, <1>5, RequestCases
  <2>2. Store!Patch(s)
    BY <1>1, <1>2, <1>5, <2>1, SameOperators DEF Store!Patch, Store!Live, Store!Set, Edited
  <2> QED BY <1>1, <2>2 DEF Store!Next
<1> QED BY <1>3, <1>4, <1>5 DEF StoreCopy

\* Every step is a step of the abstract store, or leaves it alone.
LEMMA StepMaps == Inv /\ [Next]_vars => [Store!Next]_Store!vars
<1> SUFFICES ASSUME Inv, [Next]_vars PROVE [Store!Next]_Store!vars
  OBVIOUS
<1>1. ASSUME UNCHANGED session PROVE Store!Next
  BY <1>1 DEF Store!Next
<1>2. ASSUME NEW s \in Session, DeleteSession(s) \/ SessionExpires(s) PROVE Store!Next
  <2>1. Store!Remove(s)
    BY <1>2 DEF DeleteSession, SessionExpires, Drop, Store!Remove, Store!Live, Store!Set, Live
  <2> QED BY <2>1 DEF Store!Next
<1>3. CASE \E d \in Device : RegisterDevice(d) \/ DeviceExpires(d)
  BY <1>1, <1>3 DEF RegisterDevice, DeviceExpires
<1>4. ASSUME NEW h \in Handler,
             \/ Receive(h) \/ CheckAbsent(h) \/ CheckParties(h)
             \/ GetSession(h) \/ ReadTTL(h) \/ Abandon(h)
      PROVE Store!Next
  BY <1>1, <1>4 DEF Receive, CheckAbsent, CheckParties, GetSession, ReadTTL, Abandon, redis
<1>5. CASE UNCHANGED vars
  BY <1>1, <1>5 DEF vars
<1> QED BY <1>2, <1>3, <1>4, <1>5, StoreNewMaps, StoreCopyMaps DEF Next

\* The session endpoints act on the stored session in one step each, except
\* over a session of which some request holds an outdated copy.
THEOREM SessionsImplementStore == Spec => ImplementsStore
<1>1. Init => Store!Init
  BY DEF Init, Store!Init, Exposed, Outdated
<1>2. Spec => Store!Spec
  BY <1>1, Invariance, StepMaps, PTL DEF Spec, Store!Spec
<1> QED BY <1>2 DEF ImplementsStore

=============================================================================
