--------------------------- MODULE KeyGen_proofs ---------------------------
(* What an answer of the key generation means, and that its parties never stall, *)
(* for any parties, party lists, rounds and failures.                            *)
EXTENDS KeyGen, TssFacts

\* The request's loop runs only in a session in progress, and who is done has its
\* share stored and is one of its parties.  The list changes only before that.
Inv ==
  /\ list \in Seq(PartyId)
  /\ done \subseteq saved /\ saved \subseteq Ids
  /\ watching => status = "in_progress"
  /\ status = "none" => saved = {} /\ router = "off"
  /\ CompletedHasShares

\* When as many parties are done as the list is long, it names that many, and
\* all of them have their share stored.
LEMMA AllDoneIsAll ==
  ASSUME Inv, AllDone
  PROVE  saved = Ids /\ Cardinality(Ids) = Len(list)
<1>1. /\ IsFiniteSet(Ids) /\ Cardinality(Ids) \in Nat
      /\ Cardinality(Ids) <= Len(list)
  BY NamesOfList DEF Inv, Ids
<1>2. Cardinality(done) \in Nat /\ Cardinality(done) <= Cardinality(Ids)
      /\ (Cardinality(done) = Cardinality(Ids) => done = Ids)
  BY <1>1, FS_Subset, FS_CardinalityType DEF Inv
<1>3. Len(list) \in Nat /\ Cardinality(done) >= Len(list)
  BY DEF AllDone, Inv
<1>4. done = Ids /\ Cardinality(Ids) = Len(list)
  BY <1>1, <1>2, <1>3
<1> QED BY <1>4, Zenon DEF Inv

\* The initial state satisfies the invariant.
LEMMA InitInv == Init => Inv
BY DEF Init, Inv, CompletedHasShares, Ids, ToSet

\* Every action keeps it; the one that could break it is AllDone.
LEMMA NextInv == Inv /\ [Next]_vars => Inv'
<1> SUFFICES ASSUME Inv, [Next]_vars PROVE Inv'
  OBVIOUS
<1> USE DEF Inv, CompletedHasShares, Ids
<1>1. CASE CreateAndInitSession
  <2>1. list' \in Seq(PartyId)
    BY <1>1, ListsAssumption DEF CreateAndInitSession
  <2> QED BY <1>1, <2>1 DEF CreateAndInitSession
<1>2. CASE ExecuteKeyGen
  BY <1>2 DEF ExecuteKeyGen
<1>3. ASSUME NEW p \in Ids, StartParty(p) PROVE Inv'
  BY <1>3 DEF StartParty, session
<1>4. ASSUME NEW p \in Ids, RouteMessage(p) PROVE Inv'
  BY <1>4 DEF RouteMessage, AtLoop, session
<1>5. ASSUME NEW p \in Ids, Finish(p) PROVE Inv'
  BY <1>5 DEF Finish, Save, Mark, AtLoop, session
<1>6. CASE RouterEnds
  BY <1>6 DEF RouterEnds, AtLoop, session
<1>7. CASE StartFailed \/ Timeout
  BY <1>7 DEF StartFailed, Timeout, Return
<1>8. CASE AllDone
  BY <1>8, AllDoneIsAll DEF AllDone, Return
<1>9. CASE UNCHANGED vars
  BY <1>9 DEF vars, session
<1> QED BY <1>1, <1>2, <1>3, <1>4, <1>5, <1>6, <1>7, <1>8, <1>9 DEF Next

\* Inv is an invariant of every execution.
THEOREM Invariance == Spec => []Inv
BY InitInv, NextInv, PTL DEF Spec

\* A completed session has a share for every party of the request
\* (ExecuteKeyGen's loop, which counts the parties that are Done).
THEOREM SuccessMeansShares == Spec => []CompletedHasShares
BY Invariance, PTL DEF Inv

\* The request's loop has ended when the status is final, and nothing else writes it.
LEMMA AnsweredStep ==
  ASSUME Inv, [Next]_vars, status \in {"completed", "failed"}
  PROVE  status' = status
BY DEF Inv, Next, vars, session, CreateAndInitSession, ExecuteKeyGen, StartParty, RouteMessage,
       Finish, Save, Mark, RouterEnds, StartFailed, Timeout, AllDone, Return

\* Whatever the router and the parties do after the request has been answered, the
\* status stays (ExecuteKeyGen returns at the first end it meets).
THEOREM AnswersAreFinal == Spec => Answered
<1>1. Inv /\ [Next]_vars => [(status \in {"completed", "failed"}) => (status' = status)]_vars
  BY AnsweredStep
<1> QED BY <1>1, Invariance, PTL DEF Spec, Answered

-----------------------------------------------------------------------------
(* Types: an error is that of a party that is not to be started any more. *)

\* Nothing has been started.
Quiet == starting = {} /\ errs = 0 /\ saved = {} /\ done = {} /\ lost = 0 /\ router = "off"

\* TypeOK, and what keeps it: before the request nothing has been started, and every
\* error stands for a party of its own.
Shape ==
  /\ TypeOK
  /\ errs + Cardinality(starting) <= Cardinality(Ids)
  /\ status \in {"none", "initialized"} => Quiet
  /\ watching => status = "in_progress"
  /\ status = "none" => list = <<>>
  /\ status # "none" => Len(list) >= 2
  /\ status = "initialized" => party = [p \in Ids |-> NewParty]

\* Every party has a slot, its last place in the list.
LEMMA SlotIsPlace ==
  ASSUME list \in Seq(PartyId), NEW p \in Ids
  PROVE  SlotOf(p) \in 1..Len(list) /\ list[SlotOf(p)] = p
<1>1. SlotOf(p) = LastPlace(list, p)
  BY DEF SlotOf, LastPlace
<1> QED BY <1>1, LastPlaceIsOne DEF Ids

\* The initial state has the types.
LEMMA InitShape == Init => Shape
<1> SUFFICES ASSUME Init PROVE Shape
  OBVIOUS
<1>1. Ids = {} /\ Cardinality(Ids) = 0
  <2>1. Ids = {}
    BY DEF Init, Ids, ToSet
  <2> QED BY <2>1, FS_EmptySet
<1>2. MaxLost \in Nat /\ 0 \in 0..MaxLost
  BY BoundAssumption
<1>3. party \in [Ids -> PartySet(Len(list))]
  <2>1. <<>> \in [1..0 -> PartySet(Len(list))] /\ 1..0 = {}
    BY EmptySeq, LenProperties
  <2> QED BY <1>1, <2>1 DEF Init
<1>4. list \in Seq(PartyId)
  BY EmptySeq DEF Init
<1>5. TypeOK
  <2>1. errs \in 0..Cardinality(Ids) /\ lost \in 0..MaxLost
    BY <1>1, <1>2 DEF Init
  <2>2. /\ status \in {"none", "initialized", "in_progress", "completed", "failed"}
        /\ router \in {"off", "on", "ended"} /\ watching \in BOOLEAN
        /\ starting \subseteq Ids /\ saved \subseteq Ids /\ done \subseteq Ids
    BY DEF Init
  <2> QED BY <1>3, <1>4, <2>1, <2>2 DEF TypeOK
<1>6. Cardinality(starting) = 0 /\ status = "none" /\ Quiet /\ ~watching /\ list = <<>>
  BY FS_EmptySet DEF Init, Quiet
<1>7. errs + Cardinality(starting) <= Cardinality(Ids)
  BY <1>1, <1>6 DEF Quiet
<1> QED BY <1>5, <1>6, <1>7, Zenon DEF Shape

\* CreateAndInitSession makes a party for every name.
LEMMA CreateShape ==
  ASSUME Shape, CreateAndInitSession
  PROVE  Shape'
<1>1. list' \in Seq(PartyId) /\ Len(list') >= 2
  BY ListsAssumption DEF CreateAndInitSession
<1>2. IsFiniteSet(Ids') /\ Cardinality(Ids') \in Nat
  BY <1>1, NamesOfList DEF Ids
<1>3. party' = [p \in Ids' |-> NewParty] /\ party' \in [Ids' -> PartySet(Len(list'))]
  <2>1. NewParty \in PartySet(Len(list'))
    BY <1>1, NewIsParty
  <2> QED BY <2>1 DEF CreateAndInitSession, Ids
<1>4. Quiet /\ Quiet' /\ Cardinality(starting') = 0
  BY FS_EmptySet DEF Shape, Quiet, CreateAndInitSession
<1>5. TypeOK'
  <2>1. 0 \in 0..MaxLost /\ 0 \in 0..Cardinality(Ids')
    BY <1>2, BoundAssumption
  <2> QED BY <1>1, <1>3, <1>4, <2>1 DEF Shape, TypeOK, Quiet, CreateAndInitSession
<1> QED BY <1>1, <1>2, <1>3, <1>4, <1>5 DEF Shape, Quiet, CreateAndInitSession

\* ExecuteKeyGen starts with no error, so there can be as many as parties.
LEMMA ExecuteShape ==
  ASSUME Shape, ExecuteKeyGen
  PROVE  Shape'
<1>1. Ids' = Ids /\ list' = list /\ status' = "in_progress"
  BY DEF ExecuteKeyGen, Ids
<1>2. Cardinality(Ids) \in Nat
  BY NamesOfList DEF Shape, TypeOK, Ids
<1>3. TypeOK'
  BY <1>1 DEF Shape, TypeOK, ExecuteKeyGen
<1>4. errs' = 0 /\ starting' = Ids
  BY DEF Shape, Quiet, ExecuteKeyGen
<1> QED BY <1>1, <1>2, <1>3, <1>4 DEF Shape, ExecuteKeyGen

\* A party that is started is one less to be started, and at most one error more.
LEMMA StartShape ==
  ASSUME Shape, NEW p \in Ids, StartParty(p)
  PROVE  Shape'
<1>0. list \in Seq(PartyId) /\ Len(list) \in Nat
  BY DEF Shape, TypeOK
<1>1. Ids' = Ids /\ list' = list /\ status' = status
  BY DEF StartParty, session, Ids
<1>2. IsFiniteSet(Ids) /\ Cardinality(Ids) \in Nat
  BY <1>0, NamesOfList DEF Ids
<1>3. /\ IsFiniteSet(starting)
      /\ Cardinality(starting) \in Nat /\ Cardinality(starting') = Cardinality(starting) - 1
  <2>1. IsFiniteSet(starting)
    BY <1>2, FS_Subset DEF Shape, TypeOK
  <2> QED BY <2>1, FS_RemoveElement, FS_CardinalityType DEF StartParty
<1>4. errs' \in {errs, errs + 1} /\ errs \in Nat
  BY DEF StartParty, Shape, TypeOK
<1>5. party' \in [Ids -> PartySet(Len(list))]
  <2>1. SlotOf(p) \in Nat \ {0}
    BY <1>0, SlotIsPlace
  <2>2. party[p] \in PartySet(Len(list))
    BY DEF Shape, TypeOK
  <2>3. Started(party[p], SlotOf(p), Len(list)) \in PartySet(Len(list))
    BY <1>0, <2>1, <2>2, StartedParty
  <2> QED BY <2>3 DEF StartParty, Shape, TypeOK
<1>6. errs' + Cardinality(starting') <= Cardinality(Ids) /\ errs' \in 0..Cardinality(Ids)
  <2>1. Cardinality(starting) >= 1
    BY <1>3, FS_EmptySet, FS_CardinalityType DEF StartParty
  <2> QED BY <1>2, <1>3, <1>4, <2>1 DEF Shape
<1>7. TypeOK'
  BY <1>1, <1>5, <1>6 DEF Shape, TypeOK, StartParty, session
<1>8. status \notin {"none", "initialized"}
  BY DEF Shape, Quiet, StartParty
<1> QED BY <1>1, <1>6, <1>7, <1>8 DEF Shape, StartParty, session

\* Routing a message keeps every party one.
LEMMA RouteShape ==
  ASSUME Shape, NEW p \in Ids, RouteMessage(p)
  PROVE  Shape'
<1>0. /\ list \in Seq(PartyId) /\ Len(list) \in Nat
      /\ \A q \in Ids : party[q] \in PartySet(Len(list))
  BY DEF Shape, TypeOK
<1>1. /\ Ids' = Ids /\ list' = list /\ status' = status
      /\ starting' = starting /\ errs' = errs /\ router' = router /\ watching' = watching /\ saved' = saved /\ done' = done
  BY DEF RouteMessage, session, Ids
<1> DEFINE m == Head(party[p].out)
           to == Addressees(p, m)
<1>2. to \subseteq Ids /\ IsFiniteSet(Ids)
  BY <1>0, NamesOfList DEF Addressees, Ids
<1>3. PICK failed \in SUBSET to :
        /\ lost + Cardinality(failed) <= MaxLost
        /\ lost' = lost + Cardinality(failed)
        /\ party' = [q \in Ids |->
                       IF q = p THEN [party[q] EXCEPT !.out = Tail(@)]
                       ELSE IF q \in to \ failed
                            THEN Updated(party[q], Kept(m, SlotOf(p)), SlotOf(q), Len(list))
                            ELSE party[q]]
  BY DEF RouteMessage
<1>4. lost' \in 0..MaxLost
  <2>1. Cardinality(failed) \in Nat
    BY <1>2, FS_Subset, FS_CardinalityType
  <2> QED BY <1>3, <2>1, BoundAssumption DEF Shape, TypeOK
<1>5. /\ [party[p] EXCEPT !.out = Tail(@)] \in PartySet(Len(list))
      /\ Kept(m, SlotOf(p)) \in KeptSet(Len(list))
  <2>1. party[p].out # <<>>
    BY DEF RouteMessage
  <2> QED BY <1>0, <2>1, SlotIsPlace, HeadIsMessage
<1>6. ASSUME NEW q \in Ids PROVE Updated(party[q], Kept(m, SlotOf(p)), SlotOf(q), Len(list)) \in PartySet(Len(list))
  <2>1. SlotOf(q) \in Nat \ {0}
    BY <1>0, SlotIsPlace
  <2> HIDE DEF m
  <2> QED BY <1>0, <1>5, <2>1, UpdatedParty DEF Grows
<1>7. party' \in [Ids -> PartySet(Len(list))]
  <2> HIDE DEF m, to
  <2> QED BY <1>0, <1>3, <1>5, <1>6
<1>8. TypeOK'
  BY <1>1, <1>4, <1>7 DEF Shape, TypeOK
<1>9. status \notin {"none", "initialized"}
  BY DEF Shape, Quiet, RouteMessage, AtLoop
<1> QED BY <1>1, <1>8, <1>9 DEF Shape

\* Every action keeps the types.
LEMMA NextShape == Shape /\ [Next]_vars => Shape'
<1> SUFFICES ASSUME Shape, [Next]_vars PROVE Shape'
  OBVIOUS
<1>1. CASE CreateAndInitSession
  BY <1>1, CreateShape
<1>2. CASE ExecuteKeyGen
  BY <1>2, ExecuteShape
<1>3. ASSUME NEW p \in Ids, StartParty(p) PROVE Shape'
  BY <1>3, StartShape
<1>4. ASSUME NEW p \in Ids, RouteMessage(p) PROVE Shape'
  BY <1>4, RouteShape
<1>5. ASSUME NEW p \in Ids, Finish(p) PROVE Shape'
  <2>1. Ids' = Ids /\ list' = list /\ status' = status /\ watching' = watching
    BY <1>5 DEF Finish, Save, Mark, session, Ids
  <2>2. party' \in [Ids -> PartySet(Len(list))]
    <3>1. party \in [Ids -> PartySet(Len(list))] /\ party' \in {party, [party EXCEPT ![p].end = FALSE]}
      BY <1>5 DEF Finish, Save, Mark, Shape, TypeOK
    <3>2. [party[p] EXCEPT !.end = FALSE] \in PartySet(Len(list))
      BY <3>1 DEF PartySet
    <3> QED BY <3>1, <3>2
  <2>3. status \notin {"none", "initialized"}
    BY <1>5 DEF Shape, Quiet, Finish, Save, Mark, AtLoop
  <2>4. /\ saved' \subseteq Ids /\ done' \subseteq Ids
        /\ starting' = starting /\ errs' = errs /\ router' = router /\ lost' = lost
    BY <1>5 DEF Finish, Save, Mark, Shape, TypeOK
  <2> QED BY <2>1, <2>2, <2>3, <2>4 DEF Shape, TypeOK
<1>6. CASE RouterEnds
  BY <1>6 DEF RouterEnds, AtLoop, session, Shape, TypeOK, Quiet, Ids
<1>7. CASE StartFailed
  <2>1. Ids' = Ids /\ errs' \in 0..Cardinality(Ids) /\ errs' = errs - 1 /\ errs \in 0..Cardinality(Ids)
    BY <1>7, NamesOfList DEF StartFailed, Return, Shape, TypeOK, Ids
  <2>2. status \notin {"none", "initialized"}
    BY <1>7 DEF StartFailed, Return, Shape
  <2>3. Cardinality(starting) \in Nat /\ Cardinality(Ids) \in Nat
    BY NamesOfList, FS_Subset, FS_CardinalityType DEF Shape, TypeOK, Ids
  <2>4. TypeOK'
    BY <1>7, <2>1 DEF StartFailed, Return, Shape, TypeOK
  <2>5. status' = "failed" /\ watching' = FALSE /\ list' = list /\ starting' = starting /\ status # "none"
    BY <1>7, <2>2 DEF StartFailed, Return
  <2>6. errs' + Cardinality(starting') <= Cardinality(Ids')
    BY <2>1, <2>3, <2>5 DEF Shape
  <2> QED BY <2>4, <2>5, <2>6 DEF Shape
<1>8. CASE Timeout \/ AllDone
  <2>1. Ids' = Ids /\ errs' = errs /\ status = "in_progress"
    BY <1>8 DEF Timeout, AllDone, Return, Ids, Shape
  <2> QED BY <1>8, <2>1 DEF Timeout, AllDone, Return, Shape, TypeOK
<1>9. CASE UNCHANGED vars
  BY <1>9 DEF vars, session, Shape, TypeOK, Quiet, Ids
<1> QED BY <1>1, <1>2, <1>3, <1>4, <1>5, <1>6, <1>7, <1>8, <1>9 DEF Next

\* The variables have their types, and no more errors are waiting in errChan than the
\* session has parties (each goroutine sends one at most).
THEOREM TypeCorrectness == Spec => []TypeOK
<1>1. Shape => TypeOK
  BY DEF Shape
<1> QED BY <1>1, InitShape, NextShape, PTL DEF Spec

-----------------------------------------------------------------------------
(* Nobody waits for good: the parties, by place in the list, follow Protocol. *)

Parties == [i \in 1..Len(list) |-> party[list[i]]]
Through == {i \in 1..Len(list) : list[i] \in saved}

\* Nothing has failed, and no name is given twice.
Clean == lost = 0 /\ Cardinality(Ids) = Len(list)

\* What keeps NeverStalls: the parties are in order as long as all is clean, and one
\* that is to be started has not been.
Runs ==
  status # "none" /\ Clean =>
    /\ Protocol(Parties, Len(list), Through)
    /\ \A p \in starting : party[p].round = 0

\* With all names different, the slot of a party is its place.
LEMMA SlotsArePlaces ==
  ASSUME list \in Seq(PartyId), Cardinality(Ids) = Len(list)
  PROVE  /\ Len(list) \in Nat
         /\ \A i \in 1..Len(list) : list[i] \in Ids /\ SlotOf(list[i]) = i
         /\ \A p \in Ids : SlotOf(p) \in 1..Len(list) /\ list[SlotOf(p)] = p
<1>1. Len(list) \in Nat /\ DOMAIN list = 1..Len(list)
  OBVIOUS
<1>2. \A i, j \in DOMAIN list : list[i] = list[j] => i = j
  BY NamedOnce DEF Ids
<1>3. \A p \in Ids : SlotOf(p) \in 1..Len(list) /\ list[SlotOf(p)] = p
  BY SlotIsPlace
<1>4. \A i \in 1..Len(list) : list[i] \in Ids
  BY <1>1 DEF Ids, ToSet
<1> QED BY <1>1, <1>2, <1>3, <1>4

\* The parties are made.
LEMMA CreateRuns ==
  ASSUME Shape, CreateAndInitSession
  PROVE  Runs'
<1> SUFFICES ASSUME Clean' PROVE Protocol(Parties', Len(list'), Through') /\ \A p \in starting' : party'[p].round = 0
  BY DEF Runs
<1>1. list' \in Seq(PartyId) /\ Len(list') \in Nat /\ DOMAIN list' = 1..Len(list')
  BY ListsAssumption DEF CreateAndInitSession
<1>2. starting' = {} /\ saved' = {}
  BY DEF Shape, Quiet, CreateAndInitSession
<1>3. \A i \in 1..Len(list') : party'[list'[i]] = NewParty
  BY <1>1 DEF CreateAndInitSession, ToSet
<1>4. Parties' = [i \in 1..Len(list') |-> NewParty] /\ Through' = {}
  BY <1>2, <1>3 DEF Parties, Through
<1> QED BY <1>1, <1>2, <1>4, ProtocolBegins

\* All parties are to be started.
LEMMA ExecuteRuns ==
  ASSUME Shape, Runs, ExecuteKeyGen
  PROVE  Runs'
<1>1. Parties' = Parties /\ Through' = Through /\ (Clean' <=> Clean)
  BY DEF ExecuteKeyGen, Parties, Through, Clean, Ids
<1>2. \A p \in Ids : party'[p] = NewParty
  BY DEF Shape, ExecuteKeyGen
<1>3. starting' = Ids /\ Len(list') = Len(list) /\ status # "none"
  BY DEF ExecuteKeyGen
<1>4. NewParty.round = 0
  BY DEF NewParty
<1> QED BY <1>1, <1>2, <1>3, <1>4 DEF Runs

\* A party is started, or not.
LEMMA StartRuns ==
  ASSUME Shape, Runs, NEW p \in Ids, StartParty(p)
  PROVE  Runs'
<1>1. /\ list' = list /\ status' = status /\ saved' = saved /\ Through' = Through
      /\ starting' = starting \ {p} /\ p \in starting /\ (Clean' <=> Clean)
  BY DEF StartParty, session, Through, Clean, Ids
<1> SUFFICES ASSUME status # "none", Clean
             PROVE  Protocol(Parties', Len(list), Through) /\ \A q \in starting' : party'[q].round = 0
  BY <1>1 DEF Runs
<1>2. list \in Seq(PartyId) /\ Cardinality(Ids) = Len(list) /\ party \in [Ids -> PartySet(Len(list))]
  BY DEF Clean, Shape, TypeOK
<1>3. /\ Len(list) \in Nat
      /\ \A i \in 1..Len(list) : list[i] \in Ids /\ SlotOf(list[i]) = i
      /\ SlotOf(p) \in 1..Len(list) /\ list[SlotOf(p)] = p
  BY <1>2, SlotsArePlaces
<1>4. Protocol(Parties, Len(list), Through) /\ \A q \in starting : party[q].round = 0
  BY DEF Runs
<1>5. CASE party' = party
  BY <1>1, <1>4, <1>5 DEF Parties
<1>6. CASE party' = [party EXCEPT ![p] = Started(@, SlotOf(p), Len(list))]
  <2> DEFINE i == SlotOf(p)
             n == Len(list)
  <2>1. \A j \in 1..n : list[j] = p <=> j = i
    BY <1>3
  <2>2. Parties' = [Parties EXCEPT ![i] = Started(@, i, n)]
    BY <1>1, <1>2, <1>3, <1>6, <2>1 DEF Parties
  <2>3. Parties[i].round = 0 /\ i \in 1..n /\ n \in Nat
    BY <1>1, <1>3, <1>4 DEF Parties
  <2> HIDE DEF i, n
  <2>4. Protocol(Parties', n, Through)
    BY <1>4, <2>2, <2>3, ProtocolStarts DEF n
  <2>5. \A q \in starting' : party'[q].round = 0
    BY <1>1, <1>2, <1>4, <1>6 DEF Shape, TypeOK
  <2> QED BY <2>4, <2>5 DEF n
<1> QED BY <1>5, <1>6 DEF StartParty

\* A message is routed.
LEMMA RouteRuns ==
  ASSUME Shape, Runs, NEW p \in Ids, RouteMessage(p)
  PROVE  Runs'
<1>1. list' = list /\ status' = status /\ saved' = saved /\ Through' = Through /\ starting' = starting /\ Ids' = Ids
  BY DEF RouteMessage, session, Through, Ids
<1> DEFINE m == Head(party[p].out)
           to == Addressees(p, m)
<1>2. PICK failed \in SUBSET to :
        /\ lost' = lost + Cardinality(failed)
        /\ party' = [q \in Ids |->
                       IF q = p THEN [party[q] EXCEPT !.out = Tail(@)]
                       ELSE IF q \in to \ failed
                            THEN Updated(party[q], Kept(m, SlotOf(p)), SlotOf(q), Len(list))
                            ELSE party[q]]
  BY DEF RouteMessage
<1> HIDE DEF m, to
<1> SUFFICES ASSUME status # "none", lost' = 0, Cardinality(Ids) = Len(list)
             PROVE  Protocol(Parties', Len(list), Through) /\ \A q \in starting : party'[q].round = 0
  BY <1>1 DEF Runs, Clean
<1>3. list \in Seq(PartyId) /\ party \in [Ids -> PartySet(Len(list))] /\ starting \subseteq Ids
  BY DEF Shape, TypeOK
<1>4. /\ Len(list) \in Nat
      /\ \A i \in 1..Len(list) : list[i] \in Ids /\ SlotOf(list[i]) = i
      /\ \A q \in Ids : SlotOf(q) \in 1..Len(list) /\ list[SlotOf(q)] = q
  BY <1>3, SlotsArePlaces
<1>5. failed = {} /\ lost = 0
  <2>1. to \subseteq Ids /\ IsFiniteSet(Ids)
    BY <1>3, NamesOfList DEF to, Addressees, Ids
  <2>2. IsFiniteSet(failed) /\ Cardinality(failed) \in Nat
    BY <2>1, FS_Subset, FS_CardinalityType
  <2>3. lost \in Nat
    BY BoundAssumption DEF Shape, TypeOK
  <2>4. Cardinality(failed) = 0 /\ lost = 0
    BY <1>2, <2>2, <2>3
  <2> QED BY <2>2, <2>4, FS_EmptySet
<1>6. Protocol(Parties, Len(list), Through) /\ \A q \in starting : party[q].round = 0
  BY <1>5 DEF Runs, Clean
<1> DEFINE i == SlotOf(p)
           n == Len(list)
<1>7. Parties[i] = party[p] /\ Head(Parties[i].out) = m /\ Parties[i].out # <<>> /\ i \in 1..n /\ n \in Nat
  BY <1>4 DEF Parties, RouteMessage, m
<1>8. \A j \in 1..n : (list[j] = p <=> j = i) /\ (j # i => (list[j] \in to <=> m.to \in {Everybody, j}))
  BY <1>4 DEF to, Addressees
<1>9. Parties' = Routed(Parties, i, n)
  <2>1. \A j \in 1..n : party'[list[j]] =
           IF j = i THEN [party[list[j]] EXCEPT !.out = Tail(@)]
           ELSE IF m.to \in {Everybody, j} THEN Updated(party[list[j]], Kept(m, i), j, n) ELSE party[list[j]]
    BY <1>2, <1>4, <1>5, <1>8
  <2> HIDE DEF i, n
  <2>2. Parties = [j \in 1..n |-> party[list[j]]] /\ Parties' = [j \in 1..n |-> party'[list[j]]]
    BY <1>1 DEF Parties, n
  <2> QED BY <1>7, <2>1, <2>2 DEF Routed
<1> HIDE DEF i, n
<1>10. Protocol(Parties', n, Through)
  BY <1>6, <1>7, <1>9, ProtocolRoutes DEF n
<1>11. ASSUME NEW q \in starting PROVE party'[q].round = 0
  <2>0. q \in Ids /\ party[q].round = 0 /\ party[q] \in PartySet(n) /\ n \in Nat
    BY <1>3, <1>6, <1>7 DEF n
  <2>1. CASE q = p
    BY <1>2, <2>0, <2>1 DEF PartySet
  <2>2. CASE q # p /\ q \in to
    <3>1. Kept(m, i) \in KeptSet(n) /\ SlotOf(q) \in Nat \ {0}
      <4>1. party[p] \in PartySet(n) /\ party[p].out # <<>>
        BY <1>3, <1>7 DEF n
      <4>2. Kept(m, i) \in KeptSet(n)
        BY <1>7, <2>0, <4>1, HeadIsMessage DEF m
      <4>3. SlotOf(q) \in Nat \ {0}
        BY <1>4, <2>0
      <4> QED BY <4>2, <4>3
    <3>2. Updated(party[q], Kept(m, i), SlotOf(q), n).round = 0
      BY <2>0, <3>1, UpdatedParty DEF Grows
    <3> QED BY <1>2, <1>5, <2>0, <2>2, <3>2 DEF i, n
  <2>3. CASE q # p /\ q \notin to
    BY <1>2, <2>0, <2>3
  <2> QED BY <2>1, <2>2, <2>3
<1> QED BY <1>10, <1>11 DEF n

\* A result is stored.
LEMMA SaveRuns ==
  ASSUME Shape, Runs, NEW p \in Ids, Save(p)
  PROVE  Runs'
<1>1. /\ list' = list /\ status' = status /\ starting' = starting /\ saved' = saved \cup {p}
      /\ party' = [party EXCEPT ![p].end = FALSE] /\ (Clean' <=> Clean)
  BY DEF Save, session, Clean, Ids
<1> SUFFICES ASSUME status # "none", Clean
             PROVE  Protocol(Parties', Len(list), Through') /\ \A q \in starting : party'[q].round = 0
  BY <1>1 DEF Runs
<1>2. list \in Seq(PartyId) /\ Cardinality(Ids) = Len(list) /\ party \in [Ids -> PartySet(Len(list))]
  BY DEF Clean, Shape, TypeOK
<1>3. /\ Len(list) \in Nat
      /\ \A i \in 1..Len(list) : list[i] \in Ids /\ SlotOf(list[i]) = i
      /\ SlotOf(p) \in 1..Len(list) /\ list[SlotOf(p)] = p
  BY <1>2, SlotsArePlaces
<1>4. Protocol(Parties, Len(list), Through) /\ \A q \in starting : party[q].round = 0
  BY DEF Runs
<1> DEFINE i == SlotOf(p)
           n == Len(list)
<1>5. \A j \in 1..n : list[j] = p <=> j = i
  BY <1>3
<1>6. Parties' = [Parties EXCEPT ![i].end = FALSE]
  BY <1>1, <1>2, <1>3, <1>5 DEF Parties
<1>7. Through' = Through \cup {i}
  BY <1>1, <1>3, <1>5 DEF Through
<1>8. i \in 1..n /\ n \in Nat
  BY <1>3
<1> HIDE DEF i, n
<1>9. Protocol(Parties', n, Through')
  BY <1>4, <1>6, <1>7, <1>8, ProtocolEnds DEF n
<1>10. ASSUME NEW q \in starting PROVE party'[q].round = 0
  <2>1. q \in Ids /\ party[q] \in PartySet(n) /\ party[q].round = 0
    BY <1>2, <1>4 DEF Shape, TypeOK, n
  <2> QED BY <1>1, <1>2, <2>1 DEF PartySet
<1> QED BY <1>9, <1>10 DEF n

\* Every action keeps the parties in order.
LEMMA NextRuns == Shape /\ Runs /\ [Next]_vars => Runs'
<1> SUFFICES ASSUME Shape, Runs, [Next]_vars PROVE Runs'
  OBVIOUS
<1>1. CASE CreateAndInitSession
  BY <1>1, CreateRuns
<1>2. CASE ExecuteKeyGen
  BY <1>2, ExecuteRuns
<1>3. ASSUME NEW p \in Ids, StartParty(p) PROVE Runs'
  BY <1>3, StartRuns
<1>4. ASSUME NEW p \in Ids, RouteMessage(p) PROVE Runs'
  BY <1>4, RouteRuns
<1>5. ASSUME NEW p \in Ids, Save(p) PROVE Runs'
  BY <1>5, SaveRuns
<1>6. CASE (\E p \in Ids : Mark(p)) \/ RouterEnds \/ StartFailed \/ Timeout \/ AllDone \/ UNCHANGED vars
  <2>1. /\ list' = list /\ party' = party /\ starting' = starting /\ saved' = saved /\ lost' = lost
        /\ status' = status \/ status = "in_progress"
    BY <1>6 DEF Mark, RouterEnds, StartFailed, Timeout, AllDone, Return, vars, session, Shape
  <2>2. Parties' = Parties /\ Through' = Through /\ (Clean' <=> Clean)
    BY <2>1 DEF Parties, Through, Clean, Ids
  <2> QED BY <2>1, <2>2 DEF Runs
<1> QED BY <1>1, <1>2, <1>3, <1>4, <1>5, <1>6 DEF Next, Finish

\* In such a state some party has a step, or all are done.
LEMMA RunsNeverStalls == Shape /\ Runs => NeverStalls
<1> SUFFICES ASSUME Shape, Runs, router = "on", Untroubled, starting = {}, saved = done,
                    \A p \in Ids : ~(party[p].out # <<>> \/ party[p].end)
             PROVE  done = Ids
  BY DEF NeverStalls
<1>1. status # "none" /\ Clean /\ Len(list) >= 2
  BY DEF Shape, Quiet, Untroubled, Clean
<1>2. Protocol(Parties, Len(list), Through)
  BY <1>1 DEF Runs
<1>3. list \in Seq(PartyId) /\ Cardinality(Ids) = Len(list) /\ saved \subseteq Ids
  BY <1>1 DEF Clean, Shape, TypeOK
<1>4. /\ Len(list) \in Nat
      /\ \A i \in 1..Len(list) : list[i] \in Ids
      /\ \A p \in Ids : SlotOf(p) \in 1..Len(list) /\ list[SlotOf(p)] = p
  BY <1>3, SlotsArePlaces
<1>5. ASSUME NEW i \in 1..Len(list)
      PROVE  Parties[i].out = <<>> /\ ~Parties[i].end /\ Parties[i].round # 0
  <2>1. Parties[i] = party[list[i]] /\ list[i] \in Ids
    BY <1>4 DEF Parties
  <2>2. party[list[i]].round > 0
    BY <2>1 DEF Untroubled
  <2> QED BY <2>1, <2>2
<1>6. \A i \in 1..Len(list) : i \in Through
  BY <1>1, <1>2, <1>4, <1>5, NobodyWaits
<1>7. ASSUME NEW p \in Ids PROVE p \in saved
  BY <1>4, <1>6 DEF Through
<1> QED BY <1>3, <1>7

\* As long as no Start and no Update fails and no name is given twice, the parties of a
\* session are never all waiting: somebody is still to be started, has a message for the
\* router or a result, or all are done (routeMessages and the parties' Update).
THEOREM NobodyStalls == Spec => []NeverStalls
<1>1. Init => Runs
  BY DEF Init, Runs
<1> QED BY <1>1, InitShape, NextShape, NextRuns, RunsNeverStalls, PTL DEF Spec
=============================================================================
