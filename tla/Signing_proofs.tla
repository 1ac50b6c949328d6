--------------------------- MODULE Signing_proofs ---------------------------
(* What an answer of a signing request means, for any keys, lists of signers, *)
(* rounds and failures, and any number of sessions that disturb each other.   *)
EXTENDS Signing, TssFacts

Fields == {"status", "signers", "sorted", "party", "starting", "errs", "router",
           "watching", "done", "signed", "disturbed"}

\* A party in a session with mixed-up shares: the second round is where it stays,
\* since no message of it is taken.
Held(p) == /\ DOMAIN p = {"round", "got", "out", "end"}
           /\ p.round \in {0, 1, 2} /\ p.end = FALSE
           /\ \A g \in p.got : g.round # 2

\* Of the loop that answers the request, and of who has signed.
SessionOK(t) ==
  /\ DOMAIN t = Fields
  /\ t.watching \in BOOLEAN /\ (t.watching => t.status = "in_progress")
  /\ t.status # "none" => t.signers \in Seq(PartyId) /\ Len(t.signers) >= Threshold
  /\ t.status = "none" => t.router = "off"
  /\ DOMAIN t.party = ToSet(t.signers)
  /\ t.done \subseteq ToSet(t.signers)
  /\ t.done # {} => ~Mixed(t)
  /\ ~t.signed => \A p, q \in t.done : p = q
  /\ Mixed(t) => \A p \in DOMAIN t.party : Held(t.party[p])
  /\ t.status = "completed" => t.done = ToSet(t.signers) /\ Cardinality(t.done) >= Threshold

Inv == DOMAIN session = SigningId /\ \A s \in SigningId : SessionOK(session[s])

-----------------------------------------------------------------------------

\* When as many have signed as there are signers, everybody has, and that is enough.
LEMMA AllHaveSigned ==
  ASSUME NEW t, SessionOK(t), t.status # "none", Cardinality(t.done) >= Len(t.signers)
  PROVE  t.done = ToSet(t.signers) /\ Cardinality(t.done) >= Threshold
<1>1. t.signers \in Seq(PartyId) /\ Len(t.signers) \in Nat /\ Len(t.signers) >= Threshold
  BY DEF SessionOK
<1>2. /\ IsFiniteSet(ToSet(t.signers)) /\ Cardinality(ToSet(t.signers)) \in Nat
      /\ Cardinality(ToSet(t.signers)) <= Len(t.signers)
  BY <1>1, NamesOfList
<1>3. Cardinality(t.done) \in Nat /\ Cardinality(t.done) <= Cardinality(ToSet(t.signers))
      /\ (Cardinality(t.done) = Cardinality(ToSet(t.signers)) => t.done = ToSet(t.signers))
  BY <1>2, FS_Subset, FS_CardinalityType DEF SessionOK
<1>4. Threshold \in Nat
  BY KeygenAssumption
<1> QED BY <1>1, <1>2, <1>3, <1>4

\* The round a party gets to that lacks a message of the second round is no later.
LEMMA NotBeyondTwo ==
  ASSUME NEW round \in {1, 2}, NEW got, NEW me, NEW n \in Nat, n >= 2,
         \A g \in got : g.round # 2
  PROVE  Reached(round, got, me, n) \in {1, 2}
<1>1. Rounds \in Nat /\ Rounds >= 2 /\ Emits[2] \subseteq {"p2p", "broadcast"} /\ Emits[2] # {}
  BY EmitsAssumption DEF Rounds
<1>2. ~HasAll(got, 2, me, n)
  <2>1. PICK kind \in Emits[2] : TRUE
    BY <1>1
  <2>2. PICK slot \in 1..n : slot # me
    <3>1. 1 \in 1..n /\ 2 \in 1..n
      OBVIOUS
    <3> QED BY <3>1
  <2>3. [round |-> 2, kind |-> kind, slot |-> slot] \notin got
    OBVIOUS
  <2> QED BY <2>1, <2>2, <2>3 DEF HasAll
<1> DEFINE P(r) == /\ \A q \in round..(r - 1) : HasAll(got, q, me, n)
                   /\ r <= Rounds => ~HasAll(got, r, me, n)
<1>3. \E r \in round..(Rounds + 1) : P(r)
  <2>1. CASE round = 2
    BY <1>1, <1>2, <2>1
  <2>2. CASE round = 1
    <3>1. CASE HasAll(got, 1, me, n)
      <4>1. P(2)
        BY <1>1, <1>2, <2>2, <3>1
      <4> QED BY <1>1, <2>2, <4>1
    <3>2. CASE ~HasAll(got, 1, me, n)
      <4>1. P(1)
        BY <1>1, <2>2, <3>2
      <4> QED BY <1>1, <2>2, <4>1
    <3> QED BY <3>1, <3>2
  <2> QED BY <2>1, <2>2
<1>4. Reached(round, got, me, n) = CHOOSE r \in round..(Rounds + 1) : P(r)
  BY DEF Reached
<1>5. PICK c : c = Reached(round, got, me, n)
  OBVIOUS
<1>6. c \in round..(Rounds + 1) /\ P(c)
  BY <1>3, <1>4, <1>5
<1>7. c <= 2
  BY <1>1, <1>2, <1>6
<1> QED BY <1>1, <1>5, <1>6, <1>7

\* A held party stays so: when it starts, and when it takes a message of another round.
LEMMA HeldStarts ==
  ASSUME NEW p, Held(p), NEW me, NEW n
  PROVE  Held(Started(p, me, n))
BY DEF Held, Started

LEMMA HeldTakes ==
  ASSUME NEW p, Held(p), NEW m, m.round # 2, NEW me, NEW n \in Nat, n >= 2
  PROVE  Held(Updated(p, m, me, n))
<1> DEFINE got == p.got \cup {m}
           r == IF p.round = 0 THEN 0 ELSE Reached(p.round, got, me, n)
<1>1. \A g \in got : g.round # 2
  BY DEF Held
<1>2. r \in {0, 1, 2}
  BY <1>1, NotBeyondTwo DEF Held
<1>3. Rounds \in Nat /\ Rounds >= 2
  BY EmitsAssumption DEF Rounds
<1> HIDE DEF got, r
<1>4. /\ DOMAIN Updated(p, m, me, n) = {"round", "got", "out", "end"}
      /\ Updated(p, m, me, n).round = r /\ Updated(p, m, me, n).got = got
      /\ Updated(p, m, me, n).end = (p.end \/ (r > Rounds /\ p.round <= Rounds))
  BY DEF Updated, r, got
<1>5. ~(r > Rounds)
  BY <1>2, <1>3
<1> QED BY <1>1, <1>2, <1>4, <1>5 DEF Held

-----------------------------------------------------------------------------

\* The signers, and so whether they are mixed up, are settled with the session.
LEMMA MixedIsKept ==
  ASSUME NEW t, NEW new, new.signers = t.signers, new.sorted = t.sorted
  PROVE  Mixed(new) <=> Mixed(t)
BY DEF Mixed, PartyIDOf, Position

\* A step of one session keeps the invariant if it keeps that session in order.
LEMMA SessionStep ==
  ASSUME Inv, NEW s \in SigningId, NEW new, SessionOK(new),
         session' = [session EXCEPT ![s] = new]
  PROVE  Inv'
BY DEF Inv

\* What keeps a session in order: its parties stay held, and who has signed is one
\* of them; the status is left alone.
LEMMA KeptOK ==
  ASSUME NEW t, SessionOK(t), NEW new,
         DOMAIN new = Fields,
         new.status = t.status, new.signers = t.signers, new.sorted = t.sorted,
         new.watching = t.watching, new.router \in {t.router, "ended"}, t.status = "none" => new.router = t.router,
         DOMAIN new.party = DOMAIN t.party,
         Mixed(t) => \A p \in DOMAIN t.party : Held(new.party[p]),
         new.done = t.done, new.signed = t.signed
  PROVE  SessionOK(new)
<1>1. Mixed(new) <=> Mixed(t)
  BY MixedIsKept
<1> QED BY <1>1 DEF SessionOK

\* The initial state satisfies the invariant.
LEMMA InitInv == Init => Inv
<1> SUFFICES ASSUME Init PROVE Inv
  OBVIOUS
<1>1. ToSet(<<>>) = {}
  BY DEF ToSet
<1>2. DOMAIN None = Fields
  BY DEF None, Fields
<1>3. /\ None.status = "none" /\ None.watching = FALSE /\ None.done = {} /\ None.router = "off"
      /\ None.signers = <<>> /\ None.party = <<>>
  BY DEF None
<1>4. ~Mixed(None)
  BY <1>1, <1>3 DEF Mixed
<1>5. SessionOK(None)
  <2>1. DOMAIN None.party = {}
    BY <1>3
  <2> QED BY <1>1, <1>2, <1>3, <1>4, <2>1 DEF SessionOK
<1> QED BY <1>5 DEF Init, Inv

\* A new session is in order: nobody has signed, and every party is held.
LEMMA CreatedOK ==
  ASSUME NEW s, NEW signers \in SignerLists, Len(signers) >= Threshold
  PROVE  SessionOK(Mine(s, signers))
<1> DEFINE new == Mine(s, signers)
<1>1. signers \in Seq(PartyId)
  BY SignersAssumption
<1>2. /\ DOMAIN new = Fields /\ new.status = "in_progress" /\ new.signers = signers
      /\ new.party = [p \in ToSet(signers) |-> NewParty] /\ new.watching = TRUE /\ new.done = {}
  BY DEF Mine, None, Fields
<1>3. Held(NewParty)
  BY DEF Held, NewParty
<1> HIDE DEF new
<1>4. DOMAIN new.party = ToSet(signers) /\ \A p \in ToSet(signers) : new.party[p] = NewParty
  BY <1>2
<1>5. SessionOK(new)
  BY <1>1, <1>2, <1>3, <1>4 DEF SessionOK
<1> QED BY <1>5 DEF new

\* The other sessions are at most disturbed by a new one.
LEMMA CreateStep ==
  ASSUME Inv, NEW s \in SigningId, CreateAndExecuteSigning(s)
  PROVE  Inv'
<1>1. PICK signers \in SignerLists :
        /\ Len(signers) >= Threshold
        /\ DOMAIN session' = SigningId
        /\ session'[s] = Mine(s, signers)
        /\ \A t \in SigningId \ {s} : \E d : session'[t] = [session[t] EXCEPT !.disturbed = d]
  BY DEF CreateAndExecuteSigning
<1>2. SessionOK(session'[s])
  BY <1>1, CreatedOK
<1>3. ASSUME NEW t \in SigningId \ {s} PROVE SessionOK(session'[t])
  <2>1. PICK d : session'[t] = [session[t] EXCEPT !.disturbed = d]
    BY <1>1
  <2>2. SessionOK(session[t])
    BY DEF Inv
  <2>3. /\ DOMAIN session'[t] = Fields
        /\ \A f \in Fields \ {"disturbed"} : session'[t][f] = session[t][f]
    BY <2>1, <2>2 DEF SessionOK
  <2>4. /\ session'[t].status = session[t].status /\ session'[t].signers = session[t].signers
        /\ session'[t].sorted = session[t].sorted /\ session'[t].watching = session[t].watching
        /\ session'[t].router = session[t].router /\ session'[t].party = session[t].party
        /\ session'[t].done = session[t].done /\ session'[t].signed = session[t].signed
    BY <2>3 DEF Fields
  <2> QED BY <2>2, <2>3, <2>4, KeptOK DEF SessionOK
<1> QED BY <1>1, <1>2, <1>3 DEF Inv

\* A Start leaves a held party held.
LEMMA StartStep ==
  ASSUME Inv, NEW s \in SigningId, NEW p, StartParty(s, p)
  PROVE  Inv'
<1> DEFINE t == session[s]
<1>1. SessionOK(t)
  BY DEF Inv
<1>2. CASE session' = [session EXCEPT ![s].starting = @ \ {p}, ![s].errs = @ + 1]
  <2> DEFINE new == [t EXCEPT !.starting = @ \ {p}, !.errs = @ + 1]
  <2>1. session' = [session EXCEPT ![s] = new]
    BY <1>2 DEF Inv
  <2>2. SessionOK(new)
    <3>1. /\ DOMAIN new = Fields
          /\ \A f \in Fields \ {"starting", "errs"} : new[f] = t[f]
      BY <1>1 DEF SessionOK, Fields
    <3> HIDE DEF new
    <3>2. /\ new.status = t.status /\ new.signers = t.signers
        /\ new.sorted = t.sorted /\ new.watching = t.watching
        /\ new.router = t.router /\ new.party = t.party
        /\ new.done = t.done /\ new.signed = t.signed
      BY <3>1 DEF Fields
    <3> QED BY <1>1, <3>1, <3>2, KeptOK DEF SessionOK
  <2> QED BY <2>1, <2>2, SessionStep
<1>3. ASSUME NEW me, NEW n,
             session' = [session EXCEPT ![s].starting = @ \ {p}, ![s].party[p] = Started(@, me, n)]
      PROVE  Inv'
  <2> DEFINE party == [t.party EXCEPT ![p] = Started(t.party[p], me, n)]
             new == [t EXCEPT !.starting = @ \ {p}, !.party = party]
  <2>1. session' = [session EXCEPT ![s] = new]
    BY <1>3 DEF Inv
  <2>2. SessionOK(new)
    <3>0. DOMAIN party = DOMAIN t.party /\ (Mixed(t) => \A q \in DOMAIN t.party : Held(party[q]))
      BY <1>1, HeldStarts DEF SessionOK
    <3>1. /\ DOMAIN new = Fields /\ new.party = party
          /\ \A f \in Fields \ {"starting", "party"} : new[f] = t[f]
      BY <1>1 DEF SessionOK, Fields
    <3> HIDE DEF new, party
    <3>2. /\ new.status = t.status /\ new.signers = t.signers
        /\ new.sorted = t.sorted /\ new.watching = t.watching
        /\ new.router = t.router
        /\ new.done = t.done /\ new.signed = t.signed
      BY <3>1 DEF Fields
    <3> QED BY <1>1, <3>0, <3>1, <3>2, KeptOK DEF SessionOK
  <2> QED BY <2>1, <2>2, SessionStep
<1> QED BY <1>2, <1>3 DEF StartParty

\* The rest of a message leaves a held party held.
LEMMA HeldSends ==
  ASSUME NEW p, Held(p), NEW out
  PROVE  Held([p EXCEPT !.out = out])
BY DEF Held

\* No party of a session with mixed-up shares takes a message of the second round.
LEMMA RouteStep ==
  ASSUME Inv, NEW s \in SigningId, NEW p, RouteMessage(s, p)
  PROVE  Inv'
<1> DEFINE t == session[s]
           m == Head(t.party[p].out)
           to == Addressees(t, p, m)
           Me(q) == index[PartyIDOf(t, q)]
           Sending == [t.party EXCEPT ![p].out = Tail(@)]
           After(failed) == [q \in DOMAIN t.party |->
                               IF q \in to \ failed
                               THEN Updated(Sending[q], Kept(m, Me(p)), Me(q), Len(t.signers))
                               ELSE Sending[q]]
<1>1. SessionOK(t) /\ Running(t)
  BY DEF Inv, RouteMessage, AtLoop
<1>2. PICK failed \in SUBSET to :
        /\ MayFail(t, m, to, failed)
        /\ session' = [session EXCEPT ![s].party = After(failed)]
  BY <1>1 DEF RouteMessage, SessionOK, Fields, Inv
<1>3. t.signers \in Seq(PartyId) /\ Len(t.signers) \in Nat /\ Len(t.signers) >= 2
  BY <1>1, KeygenAssumption DEF SessionOK, Running
<1>4. Kept(m, Me(p)).round = m.round
  BY DEF Kept
<1>5. Mixed(t) /\ m.round = 2 => failed = to
  BY <1>2 DEF MayFail
<1>6. DOMAIN After(failed) = DOMAIN t.party
  OBVIOUS
<1>7. ASSUME Mixed(t), NEW q \in DOMAIN t.party PROVE Held(After(failed)[q])
  <2>1. Held(t.party[q])
    BY <1>1, <1>7 DEF SessionOK
  <2>2. Held(Sending[q])
    <3>1. CASE q = p
      <4>1. Sending[q] = [t.party[q] EXCEPT !.out = Tail(t.party[q].out)]
        BY <3>1, <1>7
      <4> QED BY <2>1, <4>1, HeldSends
    <3>2. CASE q # p
      BY <2>1, <3>2, <1>7
    <3> QED BY <3>1, <3>2
  <2>3. CASE q \in to \ failed
    <3>1. m.round # 2
      BY <1>5, <1>7, <2>3
    <3> HIDE DEF m, Me, to, Sending
    <3>2. Held(Updated(Sending[q], Kept(m, Me(p)), Me(q), Len(t.signers)))
      BY <1>3, <1>4, <2>2, <3>1, HeldTakes
    <3> QED BY <1>7, <2>3, <3>2
  <2>4. CASE q \notin to \ failed
    <3> HIDE DEF m, Me, to, Sending
    <3> QED BY <1>7, <2>2, <2>4
  <2> QED BY <2>3, <2>4
<1> DEFINE party == After(failed)
           new == [t EXCEPT !.party = party]
<1>8. session' = [session EXCEPT ![s] = new]
  BY <1>2 DEF Inv
<1>9. SessionOK(new)
  <2>1. DOMAIN party = DOMAIN t.party /\ (Mixed(t) => \A q \in DOMAIN t.party : Held(party[q]))
    BY <1>6, <1>7
  <2> HIDE DEF party
  <2>2. /\ DOMAIN new = Fields /\ new.party = party
        /\ \A f \in Fields \ {"party"} : new[f] = t[f]
    BY <1>1 DEF SessionOK, Fields
  <2> HIDE DEF new
  <2>3. /\ new.status = t.status /\ new.signers = t.signers
        /\ new.sorted = t.sorted /\ new.watching = t.watching
        /\ new.router = t.router
        /\ new.done = t.done /\ new.signed = t.signed
    BY <2>2 DEF Fields
  <2> QED BY <1>1, <2>1, <2>2, <2>3, KeptOK DEF SessionOK
<1> HIDE DEF new
<1> QED BY <1>8, <1>9, SessionStep

\* A party that comes to its end is not held: the shares of its session are not mixed up.
LEMMA FinishStep ==
  ASSUME Inv, NEW s \in SigningId, NEW p, Finish(s, p)
  PROVE  Inv'
<1> DEFINE t == session[s]
           party == [t.party EXCEPT ![p].end = FALSE]
           new == [t EXCEPT !.party = party, !.done = @ \cup {p}]
<1>1. SessionOK(t) /\ (t.done = {} \/ t.signed) /\ Running(t) /\ p \in DOMAIN t.party /\ t.party[p].end
  BY DEF Inv, Finish, AtLoop
<1>2. session' = [session EXCEPT ![s] = new]
  BY DEF Finish, Inv
<1>3. ~Mixed(t)
  BY <1>1 DEF SessionOK, Held
<1>4. SessionOK(new)
  <2>1. DOMAIN party = DOMAIN t.party
    OBVIOUS
  <2> HIDE DEF party
  <2>2. /\ DOMAIN new = Fields /\ new.party = party /\ new.done = t.done \cup {p}
        /\ \A f \in Fields \ {"party", "done"} : new[f] = t[f]
    BY <1>1 DEF SessionOK, Fields
  <2> HIDE DEF new
  <2>3. /\ new.status = t.status /\ new.signers = t.signers /\ new.signed = t.signed
        /\ new.sorted = t.sorted /\ new.watching = t.watching /\ new.router = t.router
    BY <2>2 DEF Fields
  <2>4. ~Mixed(new)
    BY <1>3, <2>3, MixedIsKept
  <2>5. t.status = "completed" => new.done = t.done
    BY <1>1, <2>2 DEF SessionOK
  <2> HIDE DEF t
  <2> QED BY <1>1, <2>1, <2>2, <2>3, <2>4, <2>5 DEF SessionOK
<1> HIDE DEF new
<1> QED BY <1>2, <1>4, SessionStep

\* The signature is stored.
LEMMA StoreStep ==
  ASSUME Inv, NEW s \in SigningId, StoreSignature(s)
  PROVE  Inv'
<1> DEFINE t == session[s]
           new == [t EXCEPT !.signed = TRUE]
<1>1. SessionOK(t)
  BY DEF Inv
<1>2. session' = [session EXCEPT ![s] = new]
  BY DEF StoreSignature, Inv
<1>3. SessionOK(new)
  <2>1. /\ DOMAIN new = Fields /\ new.signed = TRUE
        /\ \A f \in Fields \ {"signed"} : new[f] = t[f]
    BY <1>1 DEF SessionOK, Fields
  <2> HIDE DEF new
  <2>2. /\ new.status = t.status /\ new.signers = t.signers /\ new.sorted = t.sorted
        /\ new.watching = t.watching /\ new.party = t.party /\ new.done = t.done /\ new.router = t.router
    BY <2>1 DEF Fields
  <2>3. Mixed(new) <=> Mixed(t)
    BY <2>2, MixedIsKept
  <2> QED BY <1>1, <2>1, <2>2, <2>3 DEF SessionOK
<1> HIDE DEF new
<1> QED BY <1>2, <1>3, SessionStep

\* The router's end is nobody's business but its own.
LEMMA RouterEndsStep ==
  ASSUME Inv, NEW s \in SigningId, RouterEnds(s)
  PROVE  Inv'
<1> DEFINE t == session[s]
           new == [t EXCEPT !.router = "ended"]
<1>1. SessionOK(t) /\ Running(t)
  BY DEF Inv, RouterEnds, AtLoop
<1>2. session' = [session EXCEPT ![s] = new]
  BY DEF RouterEnds, Inv
<1>3. SessionOK(new)
  <2>1. /\ DOMAIN new = Fields /\ new.router = "ended"
        /\ \A f \in Fields \ {"router"} : new[f] = t[f]
    BY <1>1 DEF SessionOK, Fields
  <2> HIDE DEF new
  <2>2. /\ new.status = t.status /\ new.signers = t.signers /\ new.sorted = t.sorted
        /\ new.watching = t.watching /\ new.party = t.party
        /\ new.done = t.done /\ new.signed = t.signed
    BY <2>1 DEF Fields
  <2> QED BY <1>1, <2>1, <2>2, KeptOK DEF SessionOK, Running
<1> HIDE DEF new
<1> QED BY <1>2, <1>3, SessionStep

\* The request is answered once; with success only when all have signed.
LEMMA ReturnStep ==
  ASSUME Inv, NEW s \in SigningId, NEW final \in {"completed", "failed"}, Return(s, final),
         final = "completed" => Cardinality(session[s].done) >= Len(session[s].signers)
  PROVE  Inv'
<1> DEFINE t == session[s]
           new == [t EXCEPT !.watching = FALSE, !.status = final]
<1>1. SessionOK(t) /\ t.watching /\ t.status = "in_progress"
  BY DEF Inv, Return, SessionOK
<1>2. session' = [session EXCEPT ![s] = new]
  BY DEF Return, Inv
<1>3. SessionOK(new)
  <2>1. /\ DOMAIN new = Fields /\ new.watching = FALSE /\ new.status = final
        /\ \A f \in Fields \ {"watching", "status"} : new[f] = t[f]
    BY <1>1 DEF SessionOK, Fields
  <2> HIDE DEF new
  <2>2. /\ new.signers = t.signers /\ new.sorted = t.sorted
        /\ new.router = t.router /\ new.party = t.party
        /\ new.done = t.done /\ new.signed = t.signed
    BY <2>1 DEF Fields
  <2>3. Mixed(new) <=> Mixed(t)
    BY <2>2, MixedIsKept
  <2>4. final = "completed" => t.done = ToSet(t.signers) /\ Cardinality(t.done) >= Threshold
    BY <1>1, AllHaveSigned
  <2> QED BY <1>1, <2>1, <2>2, <2>3, <2>4 DEF SessionOK
<1> HIDE DEF new
<1> QED BY <1>2, <1>3, SessionStep

\* Every action keeps the invariant.
LEMMA NextInv == Inv /\ [Next]_vars => Inv'
<1> SUFFICES ASSUME Inv, [Next]_vars PROVE Inv'
  OBVIOUS
<1>1. ASSUME NEW s \in SigningId, CreateAndExecuteSigning(s) PROVE Inv'
  BY <1>1, CreateStep
<1>2. ASSUME NEW s \in SigningId, NEW p \in PartyId, StartParty(s, p) PROVE Inv'
  BY <1>2, StartStep
<1>3. ASSUME NEW s \in SigningId, NEW p \in PartyId, RouteMessage(s, p) PROVE Inv'
  BY <1>3, RouteStep
<1>4. ASSUME NEW s \in SigningId, NEW p \in PartyId, Finish(s, p) PROVE Inv'
  BY <1>4, FinishStep
<1>5. ASSUME NEW s \in SigningId, StoreSignature(s) \/ RouterEnds(s) PROVE Inv'
  BY <1>5, StoreStep, RouterEndsStep
<1>6. ASSUME NEW s \in SigningId, StartFailed(s) \/ Timeout(s) PROVE Inv'
  BY <1>6, ReturnStep DEF StartFailed, Timeout
<1>7. ASSUME NEW s \in SigningId, AllDone(s) PROVE Inv'
  BY <1>7, ReturnStep DEF AllDone
<1>8. CASE UNCHANGED vars \/ \E s \in SigningId, p \in PartyId : Panic(s, p)
  <2>1. session' = session
    BY <1>8 DEF vars, Panic
  <2> QED BY <2>1 DEF Inv, SessionOK, Held, Mixed, PartyIDOf, Position
<1> QED BY <1>1, <1>2, <1>3, <1>4, <1>5, <1>6, <1>7, <1>8 DEF Next

-----------------------------------------------------------------------------

\* Inv is an invariant of every execution.
THEOREM Invariance == Spec => []Inv
BY InitInv, NextInv, PTL DEF Spec

\* A request is answered with success only when all signers it named, as many different
\* parties as the threshold, have signed under their own PartyIDs (executeSigning's loop).
THEOREM SuccessMeansSigned == Spec => []CompletedIsSigned
<1>1. Inv => CompletedIsSigned
  <2> SUFFICES ASSUME Inv, NEW s \in SigningId, session[s].status = "completed"
               PROVE  /\ session[s].done = ToSet(session[s].signers)
                      /\ Cardinality(session[s].done) >= Threshold
                      /\ session[s].signed /\ ~Mixed(session[s])
    BY DEF CompletedIsSigned
  <2>1. SessionOK(session[s])
    BY DEF Inv
  <2>2. session[s].done # {} /\ ~(\A p, q \in session[s].done : p = q)
    <3>0. KeygenParties \in Seq(PartyId) /\ Threshold \in 2..Len(KeygenParties)
      BY KeygenAssumption
    <3>1. Cardinality(session[s].done) >= Threshold /\ Threshold \in Nat /\ Threshold >= 2
      BY <2>1, <3>0 DEF SessionOK
    <3>2. Cardinality({}) = 0
      BY FS_EmptySet
    <3>3. session[s].done # {}
      BY <3>1, <3>2
    <3>4. ASSUME NEW p PROVE session[s].done # {p}
      <4>1. Cardinality({p}) = 1
        BY FS_Singleton
      <4> QED BY <3>1, <4>1
    <3> QED BY <3>3, <3>4
  <2> QED BY <2>1, <2>2 DEF SessionOK
<1> QED BY <1>1, Invariance, PTL

\* The request's loop has ended when the status is final, and nothing else writes it.
LEMMA AnsweredStep ==
  ASSUME Inv, [Next]_vars, NEW s \in SigningId, session[s].status \in {"completed", "failed"}
  PROVE  session'[s].status = session[s].status
<1>1. SessionOK(session[s]) /\ DOMAIN session = SigningId /\ DOMAIN session[s] = Fields
  BY DEF Inv, SessionOK
<1>2. ~session[s].watching /\ session[s].status # "none"
  BY <1>1 DEF SessionOK
<1>3. ASSUME NEW t \in SigningId, CreateAndExecuteSigning(t) PROVE session'[s].status = session[s].status
  <2>1. t # s
    BY <1>2, <1>3 DEF CreateAndExecuteSigning
  <2>2. \E d : session'[s] = [session[s] EXCEPT !.disturbed = d]
    BY <1>3, <2>1 DEF CreateAndExecuteSigning
  <2> QED BY <1>1, <2>2 DEF Fields
<1>4. ASSUME NEW t \in SigningId, NEW p \in PartyId, StartParty(t, p)
      PROVE  session'[s].status = session[s].status
  BY <1>1, <1>4 DEF StartParty, Fields
<1>5. ASSUME NEW t \in SigningId, NEW p \in PartyId, RouteMessage(t, p)
      PROVE  session'[s].status = session[s].status
  <2>1. \E party : session' = [session EXCEPT ![t].party = party]
    BY <1>1, <1>5 DEF RouteMessage
  <2> QED BY <1>1, <2>1 DEF Fields
<1>6. ASSUME NEW t \in SigningId, NEW p \in PartyId, Finish(t, p)
      PROVE  session'[s].status = session[s].status
  BY <1>1, <1>6 DEF Finish, Fields
<1>7. ASSUME NEW t \in SigningId, StoreSignature(t) \/ RouterEnds(t) PROVE session'[s].status = session[s].status
  BY <1>1, <1>7 DEF StoreSignature, RouterEnds, Fields
<1>8. ASSUME NEW t \in SigningId, StartFailed(t) \/ Timeout(t) \/ AllDone(t)
      PROVE  session'[s].status = session[s].status
  <2>1. t # s
    BY <1>2, <1>8 DEF StartFailed, Timeout, AllDone, Return
  <2>2. \E new : session' = [session EXCEPT ![t] = new]
    BY <1>1, <1>8 DEF StartFailed, Timeout, AllDone, Return
  <2> QED BY <1>1, <2>1, <2>2
<1>9. CASE UNCHANGED vars \/ \E t \in SigningId, p \in PartyId : Panic(t, p)
  BY <1>9 DEF vars, Panic
<1> QED BY <1>3, <1>4, <1>5, <1>6, <1>7, <1>8, <1>9 DEF Next

\* Whatever the router, the parties and other sessions do after the request has been
\* answered, the status stays (executeSigning returns at the first end it meets).
THEOREM AnswersAreFinal == Spec => Answered
<1>1. Inv /\ [Next]_vars =>
        [\A s \in SigningId : session[s].status \in {"completed", "failed"} =>
           session'[s].status = session[s].status]_vars
  BY AnsweredStep
<1> QED BY <1>1, Invariance, PTL DEF Spec, Answered

-----------------------------------------------------------------------------
(* Sorting: SortPartyIDs gives the signers in some order. *)

\* Whatever n things weigh, there is an order of them by weight.
Sortable(n) ==
  \A key \in [1..n -> Nat] :
     \E f \in Bijection(1..n, 1..n) : \A i, j \in 1..n : i < j => key[f[i]] <= key[f[j]]

\* The lightest comes first, then the others in their order.
LEMMA OneMoreSortable ==
  ASSUME NEW n \in Nat, n >= 1, Sortable(n - 1)
  PROVE  Sortable(n)
<1> SUFFICES ASSUME NEW key \in [1..n -> Nat]
             PROVE  \E f \in Bijection(1..n, 1..n) : \A i, j \in 1..n : i < j => key[f[i]] <= key[f[j]]
  BY DEF Sortable
<1> DEFINE T == {key[i] : i \in 1..n}
<1>1. PICK first \in 1..n : \A i \in 1..n : key[first] <= key[i]
  <2>1. key[1] \in T /\ T \in SUBSET Nat
    OBVIOUS
  <2>2. PICK w \in T : \A v \in T : w <= v
    <3> HIDE DEF T
    <3> QED BY <2>1, LeastNatural
  <2> QED BY <2>2
<1> DEFINE Other(i) == IF i < first THEN i ELSE i + 1
           rest == [i \in 1..(n - 1) |-> key[Other(i)]]
<1>2. \A i \in 1..(n - 1) : Other(i) \in (1..n) \ {first}
  OBVIOUS
<1>3. rest \in [1..(n - 1) -> Nat]
  BY <1>2
<1>4. PICK g \in Bijection(1..(n - 1), 1..(n - 1)) :
        \A i, j \in 1..(n - 1) : i < j => rest[g[i]] <= rest[g[j]]
  <2> HIDE DEF rest
  <2> QED BY <1>3 DEF Sortable
<1>5. /\ g \in [1..(n - 1) -> 1..(n - 1)]
      /\ \A i, j \in 1..(n - 1) : g[i] = g[j] => i = j
      /\ \A k \in 1..(n - 1) : \E i \in 1..(n - 1) : g[i] = k
  BY <1>4 DEF Bijection, Injection, Surjection, IsInjective
<1> DEFINE f == [i \in 1..n |-> IF i = 1 THEN first ELSE Other(g[i - 1])]
<1>6. f \in [1..n -> 1..n]
  <2>1. ASSUME NEW i \in 1..n, i # 1 PROVE Other(g[i - 1]) \in 1..n
    <3>1. i - 1 \in 1..(n - 1) /\ g[i - 1] \in 1..(n - 1)
      BY <1>5, <2>1
    <3> QED BY <1>2, <3>1
  <2> HIDE DEF Other
  <2> QED BY <1>1, <2>1
<1>7. ASSUME NEW i \in 1..n, NEW j \in 1..n, i < j PROVE f[i] # f[j] /\ key[f[i]] <= key[f[j]]
  <2>1. j - 1 \in 1..(n - 1) /\ g[j - 1] \in 1..(n - 1) /\ f[j] = Other(g[j - 1]) /\ f[j] \in 1..n
    <3>1. j # 1 /\ j - 1 \in 1..(n - 1)
      BY <1>7
    <3>2. g[j - 1] \in 1..(n - 1)
      BY <1>5, <3>1
    <3>3. f[j] = Other(g[j - 1])
      <4> HIDE DEF Other
      <4> QED BY <3>1
    <3>4. f[j] \in 1..n
      <4> HIDE DEF f
      <4> QED BY <1>6
    <3> QED BY <3>1, <3>2, <3>3, <3>4
  <2>2. CASE i = 1
    <3>1. f[i] = first
      BY <2>2
    <3> HIDE DEF Other, f
    <3> QED BY <1>1, <1>2, <2>1, <3>1
  <2>3. CASE i # 1
    <3>1. i - 1 \in 1..(n - 1) /\ g[i - 1] \in 1..(n - 1) /\ f[i] = Other(g[i - 1])
      BY <1>5, <2>3
    <3>2. g[i - 1] # g[j - 1]
      BY <1>5, <1>7, <2>1, <3>1
    <3>3. f[i] # f[j]
      <4>1. \A a, b \in 1..(n - 1) : a # b => Other(a) # Other(b)
        OBVIOUS
      <4> HIDE DEF Other, f
      <4> QED BY <2>1, <3>1, <3>2, <4>1
    <3>4. rest[g[i - 1]] <= rest[g[j - 1]]
      <4> HIDE DEF rest
      <4> QED BY <1>4, <1>7, <2>1, <3>1
    <3>5. rest[g[i - 1]] = key[f[i]] /\ rest[g[j - 1]] = key[f[j]]
      <4> HIDE DEF Other, f
      <4> QED BY <2>1, <3>1
    <3> QED BY <3>3, <3>4, <3>5
  <2> QED BY <2>2, <2>3
<1>8. ASSUME NEW k \in 1..n PROVE \E i \in 1..n : f[i] = k
  <2>1. CASE k = first
    <3>1. 1 \in 1..n /\ f[1] = k
      BY <2>1
    <3> QED BY <3>1
  <2>2. CASE k # first
    <3>1. PICK o \in 1..(n - 1) : Other(o) = k
      <4>1. CASE k < first
        <5>1. k \in 1..(n - 1) /\ Other(k) = k
          BY <4>1
        <5> QED BY <5>1
      <4>2. CASE k > first
        <5>1. k - 1 \in 1..(n - 1) /\ Other(k - 1) = k
          BY <4>2
        <5> QED BY <5>1
      <4> QED BY <2>2, <4>1, <4>2
    <3>2. PICK i \in 1..(n - 1) : g[i] = o
      BY <1>5
    <3>3. i + 1 \in 1..n /\ i + 1 # 1 /\ (i + 1) - 1 = i
      OBVIOUS
    <3> HIDE DEF Other
    <3>4. f[i + 1] = k
      BY <3>1, <3>2, <3>3
    <3> QED BY <3>3, <3>4
  <2> QED BY <2>1, <2>2
<1>9. f \in Bijection(1..n, 1..n)
  <2>1. \A i, j \in 1..n : f[i] = f[j] => i = j
    <3> SUFFICES ASSUME NEW i \in 1..n, NEW j \in 1..n, i # j PROVE f[i] # f[j]
      OBVIOUS
    <3>1. i < j \/ j < i
      OBVIOUS
    <3> HIDE DEF f
    <3> QED BY <1>7, <3>1
  <2> HIDE DEF f
  <2> QED BY <1>6, <1>8, <2>1 DEF Bijection, Injection, Surjection, IsInjective
<1> HIDE DEF f
<1> QED BY <1>7, <1>9

\* So it is for any number of things.
LEMMA EverythingSortable ==
  ASSUME NEW n \in Nat
  PROVE  Sortable(n)
<1> DEFINE T == {k \in Nat : ~Sortable(k)}
<1>1. SUFFICES ASSUME n \in T PROVE FALSE
  OBVIOUS
<1>2. PICK k \in T : \A x \in T : k <= x
  <2>1. T \in SUBSET Nat
    OBVIOUS
  <2> HIDE DEF T
  <2> QED BY <1>1, <2>1, LeastNatural
<1>3. Sortable(0)
  <2> SUFFICES ASSUME NEW key \in [1..0 -> Nat]
               PROVE  \E f \in Bijection(1..0, 1..0) : \A i, j \in 1..0 : i < j => key[f[i]] <= key[f[j]]
    BY DEF Sortable
  <2> DEFINE f == [i \in 1..0 |-> i]
  <2>1. f \in Bijection(1..0, 1..0)
    BY DEF Bijection, Injection, Surjection, IsInjective
  <2>2. \A i, j \in 1..0 : i < j => key[f[i]] <= key[f[j]]
    OBVIOUS
  <2> QED BY <2>1, <2>2
<1>4. k \in Nat /\ k >= 1 /\ k - 1 \in Nat
  BY <1>2, <1>3
<1>5. Sortable(k - 1)
  BY <1>2, <1>4
<1> QED BY <1>2, <1>4, <1>5, OneMoreSortable

\* A party's key is its place in the keygen session.
LEMMA KeyIsPlace ==
  ASSUME NEW p \in PartyId
  PROVE  Key(p) \in 1..Len(KeygenParties)
<1>1. KeygenParties \in Seq(PartyId) /\ DOMAIN KeygenParties = 1..Len(KeygenParties)
  BY KeygenAssumption
<1>2. \E i \in DOMAIN KeygenParties : KeygenParties[i] = p
  BY DEF PartyId, ToSet
<1> QED BY <1>1, <1>2 DEF Key

\* Sorting changes the order of the signers and nothing else.
LEMMA SortedAreSigners ==
  ASSUME NEW signers \in Seq(PartyId)
  PROVE  /\ SortPartyIDs(signers) \in Seq(PartyId)
         /\ Len(SortPartyIDs(signers)) = Len(signers)
         /\ ToSet(SortPartyIDs(signers)) = ToSet(signers)
<1> DEFINE places == DOMAIN signers
           n == Len(signers)
           key == [i \in 1..n |-> Key(signers[i])]
           Orders(f) == \A i, j \in places : i < j => Key(signers[f[i]]) <= Key(signers[f[j]])
           order == CHOOSE f \in Bijection(places, places) : Orders(f)
           sorted == [i \in places |-> signers[order[i]]]
<1>1. n \in Nat /\ places = 1..n /\ \A i \in 1..n : signers[i] \in PartyId
  OBVIOUS
<1>2. key \in [1..n -> Nat]
  <2>1. \A i \in 1..n : Key(signers[i]) \in Nat
    BY <1>1, KeyIsPlace
  <2> QED BY <2>1
<1>3. PICK g \in Bijection(1..n, 1..n) : \A i, j \in 1..n : i < j => key[g[i]] <= key[g[j]]
  <2> HIDE DEF key
  <2> QED BY <1>1, <1>2, EverythingSortable DEF Sortable
<1>4. Orders(g)
  <2> SUFFICES ASSUME NEW i \in places, NEW j \in places, i < j PROVE Key(signers[g[i]]) <= Key(signers[g[j]])
    OBVIOUS
  <2>1. g[i] \in 1..n /\ g[j] \in 1..n
    BY <1>1, <1>3 DEF Bijection, Injection
  <2>2. key[g[i]] = Key(signers[g[i]]) /\ key[g[j]] = Key(signers[g[j]])
    BY <2>1
  <2> HIDE DEF key
  <2> QED BY <1>1, <1>3, <2>2
<1>5. order \in Bijection(1..n, 1..n)
  <2> HIDE DEF Orders
  <2> QED BY <1>1, <1>3, <1>4
<1>6. SortPartyIDs(signers) = sorted
  BY DEF SortPartyIDs
<1> HIDE DEF order
<1>7. order \in [1..n -> 1..n] /\ \A k \in 1..n : \E i \in 1..n : order[i] = k
  BY <1>5 DEF Bijection, Injection, Surjection
<1>8. \A i \in 1..n : sorted[i] = signers[order[i]] /\ sorted[i] \in PartyId
  BY <1>1, <1>7
<1>9. sorted \in Seq(PartyId) /\ Len(sorted) = n /\ DOMAIN sorted = 1..n
  <2>1. sorted = [i \in 1..n |-> sorted[i]]
    BY <1>1
  <2> HIDE DEF sorted
  <2> QED BY <1>1, <1>8, <2>1
<1>10. ToSet(sorted) = ToSet(signers)
  <2>1. ASSUME NEW i \in 1..n PROVE sorted[i] \in ToSet(signers)
    BY <1>1, <1>7, <1>8 DEF ToSet
  <2>2. ASSUME NEW k \in 1..n PROVE signers[k] \in ToSet(sorted)
    <3>1. PICK i \in 1..n : order[i] = k
      BY <1>7
    <3>2. sorted[i] = signers[k]
      BY <1>8, <3>1
    <3> HIDE DEF sorted
    <3> QED BY <1>9, <3>2 DEF ToSet
  <2>3. DOMAIN sorted = 1..n /\ DOMAIN signers = 1..n
    BY <1>1, <1>9
  <2> HIDE DEF sorted
  <2> QED BY <2>1, <2>2, <2>3 DEF ToSet
<1> QED BY <1>6, <1>9, <1>10

\* A signer's place, and the PartyID its local party is made with.
LEMMA PlacesOfSigners ==
  ASSUME NEW signers \in Seq(PartyId), NEW p \in ToSet(signers)
  PROVE  /\ PlaceIn(signers, p) \in 1..Len(signers) /\ signers[PlaceIn(signers, p)] = p
         /\ PlaceIn(SortPartyIDs(signers), p) \in 1..Len(signers)
         /\ SortPartyIDs(signers)[PlaceIn(signers, p)] \in PartyId
<1>1. \A seq : PlaceIn(seq, p) = LastPlace(seq, p)
  BY DEF PlaceIn, LastPlace
<1>2. PlaceIn(signers, p) \in 1..Len(signers) /\ signers[PlaceIn(signers, p)] = p
  BY <1>1, LastPlaceIsOne
<1>3. PlaceIn(SortPartyIDs(signers), p) \in 1..Len(signers)
  BY <1>1, LastPlaceIsOne, SortedAreSigners
<1>4. SortPartyIDs(signers)[PlaceIn(signers, p)] \in PartyId
  BY <1>2, SortedAreSigners
<1> QED BY <1>2, <1>3, <1>4

-----------------------------------------------------------------------------
(* Types: an error is that of a party that is not to be started any more. *)

\* The types of a session, with as many errors as parties at most.
Typed(t) ==
  /\ DOMAIN t = Fields
  /\ t.status \in {"none", "in_progress", "completed", "failed"}
  /\ t.signers \in SignerLists \cup {<<>>}
  /\ t.sorted = SortPartyIDs(t.signers)
  /\ t.party \in [ToSet(t.signers) -> PartySet(Len(KeygenParties))]
  /\ t.starting \subseteq ToSet(t.signers) /\ t.done \subseteq ToSet(t.signers)
  /\ t.errs \in Nat /\ t.errs + Cardinality(t.starting) <= Cardinality(ToSet(t.signers))
  /\ t.router \in {"off", "on", "ended"}
  /\ t.watching \in BOOLEAN /\ t.signed \in BOOLEAN /\ t.disturbed \in BOOLEAN

Shape ==
  /\ index \in [PartyId -> 1..Len(KeygenParties)]
  /\ lost \in 0..MaxLost
  /\ DOMAIN session = SigningId
  /\ \A s \in SigningId : Typed(session[s])

\* The signers of a session are some of the parties of the key generation.
LEMMA SignersFit ==
  ASSUME NEW t, Typed(t)
  PROVE  /\ t.signers \in Seq(PartyId)
         /\ Len(KeygenParties) \in Nat /\ Len(t.signers) \in 0..Len(KeygenParties)
         /\ IsFiniteSet(ToSet(t.signers)) /\ Cardinality(ToSet(t.signers)) \in Nat
         /\ IsFiniteSet(t.starting) /\ Cardinality(t.starting) \in Nat
<1>1. t.signers \in SignerLists \/ t.signers = <<>>
  BY DEF Typed
<1>2. Len(KeygenParties) \in Nat
  BY KeygenAssumption
<1>3. t.signers \in Seq(PartyId) /\ Len(t.signers) \in 0..Len(KeygenParties)
  <2>1. CASE t.signers \in SignerLists
    BY <1>2, <2>1, SignersAssumption
  <2>2. CASE t.signers = <<>>
    BY <1>2, <2>2, EmptySeq
  <2> QED BY <1>1, <2>1, <2>2
<1>4. IsFiniteSet(ToSet(t.signers)) /\ Cardinality(ToSet(t.signers)) \in Nat
  BY <1>3, NamesOfList
<1>5. t.starting \subseteq ToSet(t.signers)
  BY DEF Typed
<1>6. IsFiniteSet(t.starting) /\ Cardinality(t.starting) \in Nat
  BY <1>4, <1>5, FS_Subset, FS_CardinalityType
<1> QED BY <1>2, <1>3, <1>4, <1>6

\* Typed sessions have the types the runs check.
LEMMA ShapeTypes == Shape /\ down \in BOOLEAN => TypeOK
<1> SUFFICES ASSUME Shape, down \in BOOLEAN PROVE TypeOK
  OBVIOUS
<1>1. ASSUME NEW s \in SigningId
      PROVE  LET t == session[s]
             IN  /\ DOMAIN t = DOMAIN None
                 /\ t.status \in {"none", "in_progress", "completed", "failed"}
                 /\ t.signers \in SignerLists \cup {<<>>}
                 /\ t.sorted = SortPartyIDs(t.signers)
                 /\ t.party \in [ToSet(t.signers) -> PartySet(Len(KeygenParties))]
                 /\ t.starting \cup t.done \subseteq ToSet(t.signers)
                 /\ t.errs \in 0..Cardinality(ToSet(t.signers))
                 /\ t.router \in {"off", "on", "ended"}
                 /\ {t.watching, t.signed, t.disturbed} \subseteq BOOLEAN
  <2> DEFINE t == session[s]
  <2>1. Typed(t)
    BY DEF Shape
  <2>2. t.errs \in 0..Cardinality(ToSet(t.signers))
    BY <2>1, SignersFit DEF Typed
  <2>3. DOMAIN None = Fields
    BY DEF None, Fields
  <2>4. {t.watching, t.signed, t.disturbed} \subseteq BOOLEAN
    BY <2>1 DEF Typed
  <2> HIDE DEF t
  <2>5. /\ DOMAIN t = DOMAIN None
        /\ t.status \in {"none", "in_progress", "completed", "failed"}
        /\ t.signers \in SignerLists \cup {<<>>}
        /\ t.sorted = SortPartyIDs(t.signers)
        /\ t.party \in [ToSet(t.signers) -> PartySet(Len(KeygenParties))]
        /\ t.starting \cup t.done \subseteq ToSet(t.signers)
        /\ t.router \in {"off", "on", "ended"}
    BY <2>1, <2>3 DEF Typed
  <2> QED BY <2>2, <2>4, <2>5 DEF t
<1> QED BY <1>1, Zenon DEF TypeOK, Shape

\* A step of one session keeps the types if it keeps those of that session.
LEMMA TypedStep ==
  ASSUME Shape, NEW s \in SigningId, NEW new, Typed(new),
         session' = [session EXCEPT ![s] = new], index' = index, lost' \in 0..MaxLost
  PROVE  Shape'
<1>1. \A u \in SigningId : Typed(session'[u])
  BY DEF Shape
<1>2. /\ \A u \in SigningId : Typed(session[u])'
  BY <1>1 DEF Typed
<1> QED BY <1>2 DEF Shape

\* The initial state has the types.
LEMMA InitShape == Init => Shape
<1> SUFFICES ASSUME Init PROVE Shape
  OBVIOUS
<1>1. ToSet(<<>>) = {} /\ Cardinality({}) = 0
  BY FS_EmptySet DEF ToSet
<1>2. <<>> = SortPartyIDs(<<>>)
  <2>1. <<>> \in Seq(PartyId) /\ Len(<<>>) = 0
    BY EmptySeq
  <2>2. SortPartyIDs(<<>>) \in Seq(PartyId) /\ Len(SortPartyIDs(<<>>)) = 0
    BY <2>1, SortedAreSigners
  <2> QED BY <2>2, EmptySeq
<1>3. <<>> \in [{} -> PartySet(Len(KeygenParties))]
  <2>1. <<>> \in [1..0 -> PartySet(Len(KeygenParties))] /\ 1..0 = {}
    BY EmptySeq, LenProperties
  <2> QED BY <2>1
<1>4. /\ DOMAIN None = Fields /\ None.status = "none" /\ None.signers = <<>> /\ None.sorted = <<>>
      /\ None.party = <<>> /\ None.starting = {} /\ None.done = {} /\ None.errs = 0 /\ None.router = "off"
      /\ None.watching = FALSE /\ None.signed = FALSE /\ None.disturbed = FALSE
  BY DEF None, Fields
<1>5. Typed(None)
  <2>1. None.party \in [ToSet(None.signers) -> PartySet(Len(KeygenParties))]
    BY <1>1, <1>3, <1>4
  <2>2. None.sorted = SortPartyIDs(None.signers)
    BY <1>2, <1>4
  <2>3. None.errs \in Nat /\ None.errs + Cardinality(None.starting) <= Cardinality(ToSet(None.signers))
    <3>1. ToSet(None.signers) = {} /\ None.starting = {} /\ None.errs = 0
      BY <1>1, <1>4
    <3>2. Cardinality(None.starting) = 0 /\ Cardinality(ToSet(None.signers)) = 0
      BY <1>1, <3>1
    <3> QED BY <3>1, <3>2
  <2>4. None.watching \in BOOLEAN /\ None.signed \in BOOLEAN /\ None.disturbed \in BOOLEAN
    BY <1>4
  <2>5. /\ None.status \in {"none", "in_progress", "completed", "failed"}
        /\ None.signers \in SignerLists \cup {<<>>}
        /\ None.starting \subseteq ToSet(None.signers) /\ None.done \subseteq ToSet(None.signers)
        /\ None.router \in {"off", "on", "ended"}
    BY <1>4
  <2> QED BY <1>4, <2>1, <2>2, <2>3, <2>4, <2>5, Zenon DEF Typed
<1>6. index \in [PartyId -> 1..Len(KeygenParties)]
  BY KeyIsPlace DEF Init
<1>7. lost \in 0..MaxLost
  BY BoundAssumption DEF Init
<1> QED BY <1>5, <1>6, <1>7 DEF Init, Shape

\* What one session does to another: it may disturb it.
Disturbed(t, new) ==
  /\ DOMAIN new = DOMAIN t
  /\ \A f \in Fields \ {"disturbed"} : new[f] = t[f]
  /\ new.disturbed \in BOOLEAN /\ (t.disturbed => new.disturbed)

\* A disturbed session has the types it had.
LEMMA DisturbedTyped ==
  ASSUME NEW t, Typed(t), NEW new, Disturbed(t, new)
  PROVE  /\ Typed(new)
         /\ new.signers = t.signers /\ new.sorted = t.sorted /\ new.party = t.party /\ new.router = t.router
         /\ new.starting = t.starting /\ new.done = t.done /\ new.status = t.status
<1>1. /\ DOMAIN new = Fields /\ new.status = t.status /\ new.signers = t.signers /\ new.sorted = t.sorted
      /\ new.party = t.party /\ new.starting = t.starting /\ new.done = t.done /\ new.errs = t.errs
      /\ new.router = t.router /\ new.watching = t.watching /\ new.signed = t.signed
  BY DEF Disturbed, Typed, Fields
<1>2. new.disturbed \in BOOLEAN
  BY DEF Disturbed
<1> QED BY <1>1, <1>2 DEF Typed

\* A new session writes the index of its signers' PartyIDs, and may disturb others.
LEMMA CreatedIndex ==
  ASSUME Shape, NEW s \in SigningId, CreateAndExecuteSigning(s)
  PROVE  \E signers \in SignerLists :
           /\ signers \in Seq(PartyId) /\ Len(signers) >= 2
           /\ index' = [p \in PartyId |->
                          IF p \in ToSet(signers) THEN PlaceIn(SortPartyIDs(signers), p) ELSE index[p]]
           /\ DOMAIN session' = SigningId /\ session'[s] = Mine(s, signers) /\ lost' = lost
           /\ \A u \in SigningId \ {s} :
                /\ Disturbed(session[u], session'[u])
                /\ Running(session[u]) /\ ~session'[u].disturbed =>
                     \A p \in ToSet(session[u].sorted) : index'[p] = index[p]
<1>1. PICK signers \in SignerLists :
        /\ index' = [p \in PartyId |->
                       IF p \in ToSet(signers) THEN PlaceIn(SortPartyIDs(signers), p) ELSE index[p]]
        /\ session' = [t \in SigningId |->
                         IF t = s THEN Mine(s, signers)
                         ELSE [session[t] EXCEPT !.disturbed =
                                 @ \/ /\ Running(session[t])
                                      /\ \E p \in ToSet(session[t].sorted) : index'[p] # index[p]]]
        /\ lost' = lost
  BY Zenon DEF CreateAndExecuteSigning
<1>2. signers \in Seq(PartyId) /\ Len(signers) >= 2
  BY SignersAssumption
<1>3. DOMAIN session' = SigningId /\ session'[s] = Mine(s, signers)
  BY <1>1
<1>4. ASSUME NEW u \in SigningId \ {s}
      PROVE  /\ Disturbed(session[u], session'[u])
             /\ Running(session[u]) /\ ~session'[u].disturbed =>
                  \A p \in ToSet(session[u].sorted) : index'[p] = index[p]
  <2> DEFINE t == session[u]
             new == session'[u]
             hit == /\ Running(t)
                    /\ \E p \in ToSet(t.sorted) : index'[p] # index[p]
             d == t.disturbed \/ hit
  <2>1. new = [t EXCEPT !.disturbed = d]
    BY <1>1
  <2>2. DOMAIN t = Fields /\ t.disturbed \in BOOLEAN
    BY DEF Shape, Typed
  <2>3. hit \in BOOLEAN /\ d \in BOOLEAN
    BY Zenon
  <2> HIDE DEF t, new, d
  <2>4. /\ DOMAIN new = DOMAIN t /\ new.disturbed = d
        /\ \A f \in Fields \ {"disturbed"} : new[f] = t[f]
    BY <2>1, <2>2 DEF Fields
  <2>5. t.disturbed => d
    BY DEF d
  <2>6. ~d => ~hit
    BY DEF d
  <2>7. Disturbed(t, new)
    BY <2>3, <2>4, <2>5, Zenon DEF Disturbed
  <2>8. Running(t) /\ ~new.disturbed => \A p \in ToSet(t.sorted) : index'[p] = index[p]
    BY <2>4, <2>6
  <2> QED BY <2>7, <2>8 DEF t, new
<1> QED BY <1>1, <1>2, <1>3, <1>4

\* A new session has a party for each of its signers, all of them to be started.
LEMMA CreatedTyped ==
  ASSUME NEW s, NEW signers \in SignerLists
  PROVE  LET new == Mine(s, signers)
         IN  /\ Typed(new)
             /\ new.signers = signers /\ new.sorted = SortPartyIDs(signers)
             /\ new.party = [p \in ToSet(signers) |-> NewParty] /\ new.done = {}
<1> DEFINE new == Mine(s, signers)
<1>1. /\ DOMAIN new = Fields /\ new.status = "in_progress" /\ new.signers = signers
      /\ new.sorted = SortPartyIDs(signers) /\ new.party = [p \in ToSet(signers) |-> NewParty]
      /\ new.starting = ToSet(signers) /\ new.done = {} /\ new.errs = 0 /\ new.router = "on"
      /\ new.watching = TRUE /\ new.signed = FALSE /\ new.disturbed = FALSE
  BY DEF Mine, None, Fields
<1> HIDE DEF new
<1>2. Cardinality(ToSet(signers)) \in Nat
  BY NamesOfList, SignersAssumption
<1>3. NewParty \in PartySet(Len(KeygenParties))
  BY NewIsParty, KeygenAssumption
<1>4. new.party \in [ToSet(new.signers) -> PartySet(Len(KeygenParties))]
  BY <1>1, <1>3
<1>5. new.errs \in Nat /\ new.errs + Cardinality(new.starting) <= Cardinality(ToSet(new.signers))
  BY <1>1, <1>2
<1>6. new.watching \in BOOLEAN /\ new.signed \in BOOLEAN /\ new.disturbed \in BOOLEAN
  BY <1>1
<1>7. /\ new.status \in {"none", "in_progress", "completed", "failed"}
      /\ new.signers \in SignerLists \cup {<<>>} /\ new.sorted = SortPartyIDs(new.signers)
      /\ new.starting \subseteq ToSet(new.signers) /\ new.done \subseteq ToSet(new.signers)
      /\ new.router \in {"off", "on", "ended"}
  BY <1>1
<1>8. Typed(new)
  BY <1>1, <1>4, <1>5, <1>6, <1>7, Zenon DEF Typed
<1> QED BY <1>1, <1>8 DEF new

\* CreateAndExecuteSigning keeps the types.
LEMMA CreateShape ==
  ASSUME Shape, NEW s \in SigningId, CreateAndExecuteSigning(s)
  PROVE  Shape'
<1>1. PICK signers \in SignerLists :
        /\ signers \in Seq(PartyId)
        /\ index' = [p \in PartyId |->
                       IF p \in ToSet(signers) THEN PlaceIn(SortPartyIDs(signers), p) ELSE index[p]]
        /\ DOMAIN session' = SigningId /\ session'[s] = Mine(s, signers) /\ lost' = lost
        /\ \A u \in SigningId \ {s} : Disturbed(session[u], session'[u])
  BY CreatedIndex
<1>2. Len(signers) \in 0..Len(KeygenParties) /\ Len(KeygenParties) \in Nat
  BY KeygenAssumption, SignersAssumption
<1>3. index' \in [PartyId -> 1..Len(KeygenParties)]
  <2>1. ASSUME NEW p \in ToSet(signers) PROVE PlaceIn(SortPartyIDs(signers), p) \in 1..Len(KeygenParties)
    BY <1>1, <1>2, PlacesOfSigners
  <2>2. \A p \in PartyId : index[p] \in 1..Len(KeygenParties)
    BY DEF Shape
  <2> QED BY <1>1, <2>1, <2>2
<1>4. ASSUME NEW u \in SigningId PROVE Typed(session'[u])
  <2>1. CASE u = s
    <3>1. Typed(Mine(s, signers))
      BY CreatedTyped
    <3> QED BY <1>1, <2>1, <3>1
  <2>2. CASE u # s
    BY <1>1, <2>2, DisturbedTyped DEF Shape
  <2> QED BY <2>1, <2>2
<1>5. \A u \in SigningId : Typed(session[u])'
  BY <1>4 DEF Typed
<1> QED BY <1>1, <1>3, <1>5 DEF Shape

\* A party that is started is one less to be started, and at most one error more.
LEMMA StartShape ==
  ASSUME Shape, NEW s \in SigningId, NEW p, StartParty(s, p)
  PROVE  Shape'
<1> DEFINE t == session[s]
           n == Len(t.signers)
           me == index[PartyIDOf(t, p)]
<1>1. Typed(t) /\ p \in t.starting /\ index' = index /\ lost' \in 0..MaxLost
  BY DEF Shape, StartParty
<1>2. /\ t.signers \in Seq(PartyId) /\ Len(KeygenParties) \in Nat /\ n \in 0..Len(KeygenParties)
      /\ IsFiniteSet(t.starting) /\ Cardinality(t.starting) \in Nat /\ Cardinality(ToSet(t.signers)) \in Nat
  BY <1>1, SignersFit
<1>3. p \in ToSet(t.signers)
  BY <1>1 DEF Typed
<1>4. Cardinality(t.starting \ {p}) = Cardinality(t.starting) - 1
  BY <1>1, <1>2, FS_RemoveElement
<1>5. CASE session' = [session EXCEPT ![s].starting = @ \ {p}, ![s].errs = @ + 1]
  <2> DEFINE new == [t EXCEPT !.starting = @ \ {p}, !.errs = @ + 1]
  <2>1. session' = [session EXCEPT ![s] = new]
    BY <1>5 DEF Shape
  <2>2. Typed(new)
    <3>1. /\ DOMAIN new = Fields /\ new.starting = t.starting \ {p} /\ new.errs = t.errs + 1
          /\ \A f \in Fields \ {"starting", "errs"} : new[f] = t[f]
      BY <1>1 DEF Typed, Fields
    <3> HIDE DEF new, t
    <3>2. /\ new.status = t.status /\ new.signers = t.signers /\ new.sorted = t.sorted /\ new.party = t.party
          /\ new.done = t.done /\ new.router = t.router /\ new.watching = t.watching
          /\ new.signed = t.signed /\ new.disturbed = t.disturbed
      BY <3>1 DEF Fields
    <3>3. new.errs \in Nat /\ new.errs + Cardinality(new.starting) <= Cardinality(ToSet(new.signers))
      BY <1>1, <1>2, <1>4, <3>1, <3>2 DEF Typed
    <3> QED BY <1>1, <3>1, <3>2, <3>3 DEF Typed
  <2> HIDE DEF new
  <2> QED BY <1>1, <2>1, <2>2, TypedStep
<1>6. CASE session' = [session EXCEPT ![s].starting = @ \ {p}, ![s].party[p] = Started(@, me, n)]
  <2> DEFINE party == [t.party EXCEPT ![p] = Started(t.party[p], me, n)]
             new == [t EXCEPT !.starting = @ \ {p}, !.party = party]
  <2>1. session' = [session EXCEPT ![s] = new]
    BY <1>6 DEF Shape
  <2>2. party \in [ToSet(t.signers) -> PartySet(Len(KeygenParties))]
    <3>1. me \in Nat \ {0}
      <4>1. PartyIDOf(t, p) \in PartyId
        BY <1>1, <1>2, <1>3, PlacesOfSigners DEF PartyIDOf, Position, Typed
      <4> QED BY <1>2, <4>1 DEF Shape
    <3>2. t.party[p] \in PartySet(Len(KeygenParties))
      BY <1>1, <1>3 DEF Typed
    <3> HIDE DEF me, n
    <3>3. Started(t.party[p], me, n) \in PartySet(Len(KeygenParties))
      BY <1>2, <3>1, <3>2, StartedParty
    <3> QED BY <1>1, <3>3 DEF Typed
  <2> HIDE DEF party
  <2>3. Typed(new)
    <3>1. /\ DOMAIN new = Fields /\ new.starting = t.starting \ {p} /\ new.party = party
          /\ \A f \in Fields \ {"starting", "party"} : new[f] = t[f]
      BY <1>1 DEF Typed, Fields
    <3> HIDE DEF new, t
    <3>2. /\ new.status = t.status /\ new.signers = t.signers /\ new.sorted = t.sorted /\ new.errs = t.errs
          /\ new.done = t.done /\ new.router = t.router /\ new.watching = t.watching
          /\ new.signed = t.signed /\ new.disturbed = t.disturbed
      BY <3>1 DEF Fields
    <3>3. new.errs \in Nat /\ new.errs + Cardinality(new.starting) <= Cardinality(ToSet(new.signers))
      BY <1>1, <1>2, <1>4, <3>1, <3>2 DEF Typed
    <3> QED BY <1>1, <2>2, <3>1, <3>2, <3>3 DEF Typed
  <2> HIDE DEF new
  <2> QED BY <1>1, <2>1, <2>3, TypedStep
<1> QED BY <1>5, <1>6 DEF StartParty

\* The parties of a session after the message at the head of p's out has been routed,
\* to all but those the Update fails for.
After(t, p, failed) ==
  LET m == Head(t.party[p].out)
      Me(q) == index[PartyIDOf(t, q)]
      Sending == [t.party EXCEPT ![p].out = Tail(@)]
  IN  [q \in DOMAIN t.party |->
         IF q \in Addressees(t, p, m) \ failed
         THEN Updated(Sending[q], Kept(m, Me(p)), Me(q), Len(t.signers)) ELSE Sending[q]]

\* What a step of the router does to its session.
LEMMA RouteOne ==
  ASSUME Shape, NEW s \in SigningId, NEW p, RouteMessage(s, p)
  PROVE  LET t == session[s]
             m == Head(t.party[p].out)
         IN  /\ Typed(t) /\ Running(t) /\ p \in ToSet(t.signers) /\ t.party[p].out # <<>>
             /\ \E failed \in SUBSET Addressees(t, p, m) :
                  /\ MayFail(t, m, Addressees(t, p, m), failed)
                  /\ session' = [session EXCEPT ![s] = [t EXCEPT !.party = After(t, p, failed)]]
             /\ index' = index
<1> DEFINE t == session[s]
           m == Head(t.party[p].out)
<1>1. Typed(t) /\ Running(t) /\ p \in DOMAIN t.party /\ t.party[p].out # <<>> /\ index' = index
  BY DEF Shape, RouteMessage, AtLoop
<1>2. PICK failed \in SUBSET Addressees(t, p, m) :
        /\ MayFail(t, m, Addressees(t, p, m), failed)
        /\ session' = [session EXCEPT ![s].party = After(t, p, failed)]
  BY <1>1 DEF RouteMessage, Typed, Fields, Shape, After
<1>3. session' = [session EXCEPT ![s] = [t EXCEPT !.party = After(t, p, failed)]]
  BY <1>2 DEF Shape
<1>4. p \in ToSet(t.signers)
  BY <1>1 DEF Typed
<1> QED BY <1>1, <1>2, <1>3, <1>4

\* Routing keeps every party one, and counts what fails.
LEMMA RouteShape ==
  ASSUME Shape, NEW s \in SigningId, NEW p, RouteMessage(s, p)
  PROVE  Shape'
<1> DEFINE t == session[s]
           m == Head(t.party[p].out)
           n == Len(t.signers)
           k == Len(KeygenParties)
           to == Addressees(t, p, m)
           Me(q) == index[PartyIDOf(t, q)]
           Sending == [t.party EXCEPT ![p].out = Tail(@)]
<1>1. Typed(t) /\ p \in ToSet(t.signers) /\ t.party[p].out # <<>> /\ index' = index
  BY RouteOne
<1>2. PICK failed \in SUBSET to :
        /\ MayFail(t, m, to, failed)
        /\ session' = [session EXCEPT ![s] = [t EXCEPT !.party = After(t, p, failed)]]
  BY RouteOne
<1>3. /\ t.signers \in Seq(PartyId) /\ k \in Nat /\ n \in 0..k
      /\ IsFiniteSet(ToSet(t.signers)) /\ t.party \in [ToSet(t.signers) -> PartySet(k)]
  BY <1>1, SignersFit DEF Typed
<1>4. lost' \in 0..MaxLost
  <2>1. to \subseteq ToSet(t.signers)
    BY DEF Addressees
  <2>2. Cardinality(failed) \in Nat
    BY <1>2, <1>3, <2>1, FS_Subset, FS_CardinalityType
  <2>3. lost \in 0..MaxLost /\ MaxLost \in Nat
    BY BoundAssumption DEF Shape
  <2> HIDE DEF t, m, to
  <2> QED BY <1>2, <2>2, <2>3 DEF MayFail
<1>5. ASSUME NEW q \in ToSet(t.signers) PROVE Me(q) \in 1..k
  <2>1. PartyIDOf(t, q) \in PartyId
    BY <1>1, <1>3, PlacesOfSigners DEF PartyIDOf, Position, Typed
  <2> QED BY <2>1 DEF Shape
<1>6. /\ [t.party[p] EXCEPT !.out = Tail(@)] \in PartySet(k)
      /\ Kept(m, Me(p)) \in KeptSet(k)
  <2>1. t.party[p] \in PartySet(k) /\ Me(p) \in 1..k
    BY <1>1, <1>3, <1>5
  <2> HIDE DEF Me, k
  <2> QED BY <1>1, <1>3, <2>1, HeadIsMessage
<1>7. ASSUME NEW q \in ToSet(t.signers) PROVE Sending[q] \in PartySet(k)
  BY <1>3, <1>6
<1>8. ASSUME NEW q \in ToSet(t.signers) PROVE Updated(Sending[q], Kept(m, Me(p)), Me(q), n) \in PartySet(k)
  <2>1. Me(q) \in Nat \ {0}
    BY <1>5
  <2>2. Sending[q] \in PartySet(k)
    BY <1>7
  <2> HIDE DEF m, Me, Sending, n, k
  <2> QED BY <1>3, <1>6, <2>1, <2>2, UpdatedParty DEF Grows
<1> DEFINE party == After(t, p, failed)
           new == [t EXCEPT !.party = party]
<1>9. party \in [ToSet(t.signers) -> PartySet(k)]
  <2>1. party = [q \in DOMAIN t.party |->
                   IF q \in to \ failed THEN Updated(Sending[q], Kept(m, Me(p)), Me(q), n) ELSE Sending[q]]
    BY DEF After
  <2>2. DOMAIN t.party = ToSet(t.signers)
    BY <1>3
  <2> HIDE DEF party, m, Me, Sending, n, k, to, t
  <2> QED BY <1>7, <1>8, <2>1, <2>2
<1>10. Typed(new)
  <2> HIDE DEF party
  <2>1. /\ DOMAIN new = Fields /\ new.party = party
        /\ \A f \in Fields \ {"party"} : new[f] = t[f]
    BY <1>1 DEF Typed, Fields
  <2> HIDE DEF new, t
  <2>2. /\ new.status = t.status /\ new.signers = t.signers /\ new.sorted = t.sorted /\ new.errs = t.errs
        /\ new.starting = t.starting /\ new.done = t.done /\ new.router = t.router
        /\ new.watching = t.watching /\ new.signed = t.signed /\ new.disturbed = t.disturbed
    BY <2>1 DEF Fields
  <2> QED BY <1>1, <1>9, <2>1, <2>2 DEF Typed
<1> HIDE DEF new
<1> QED BY <1>1, <1>2, <1>4, <1>10, TypedStep DEF new

\* Taking a result leaves the party one.
LEMMA FinishShape ==
  ASSUME Shape, NEW s \in SigningId, NEW p, Finish(s, p)
  PROVE  Shape'
<1> DEFINE t == session[s]
           party == [t.party EXCEPT ![p].end = FALSE]
           new == [t EXCEPT !.party = party, !.done = @ \cup {p}]
<1>1. Typed(t) /\ p \in DOMAIN t.party /\ index' = index /\ lost' \in 0..MaxLost
  BY DEF Shape, Finish
<1>2. session' = [session EXCEPT ![s] = new]
  BY DEF Finish, Shape
<1>3. t.party \in [ToSet(t.signers) -> PartySet(Len(KeygenParties))] /\ p \in ToSet(t.signers)
  BY <1>1 DEF Typed
<1>4. party \in [ToSet(t.signers) -> PartySet(Len(KeygenParties))]
  <2>1. [t.party[p] EXCEPT !.end = FALSE] \in PartySet(Len(KeygenParties))
    BY <1>3 DEF PartySet
  <2> HIDE DEF t
  <2> QED BY <1>3, <2>1
<1> HIDE DEF party
<1>5. Typed(new)
  <2>1. /\ DOMAIN new = Fields /\ new.party = party /\ new.done = t.done \cup {p}
        /\ \A f \in Fields \ {"party", "done"} : new[f] = t[f]
    BY <1>1 DEF Typed, Fields
  <2> HIDE DEF new, t
  <2>2. /\ new.status = t.status /\ new.signers = t.signers /\ new.sorted = t.sorted /\ new.errs = t.errs
        /\ new.starting = t.starting /\ new.router = t.router
        /\ new.watching = t.watching /\ new.signed = t.signed /\ new.disturbed = t.disturbed
    BY <2>1 DEF Fields
  <2>3. new.watching \in BOOLEAN /\ new.signed \in BOOLEAN /\ new.disturbed \in BOOLEAN
    BY <1>1, <2>1, <2>2 DEF Typed
  <2> QED BY <1>1, <1>3, <1>4, <2>1, <2>2, <2>3 DEF Typed
<1> HIDE DEF new
<1> QED BY <1>1, <1>2, <1>5, TypedStep

\* So does storing the signature, ...
LEMMA StoreShape ==
  ASSUME Shape, NEW s \in SigningId, StoreSignature(s)
  PROVE  Shape'
<1> DEFINE t == session[s]
           new == [t EXCEPT !.signed = TRUE]
<1>1. Typed(t) /\ index' = index /\ lost' \in 0..MaxLost
  BY DEF Shape, StoreSignature
<1>2. session' = [session EXCEPT ![s] = new]
  BY DEF StoreSignature, Shape
<1>3. Typed(new)
  <2>1. DOMAIN new = Fields /\ new.signed = TRUE /\ \A f \in Fields \ {"signed"} : new[f] = t[f]
    BY <1>1 DEF Typed, Fields
  <2> HIDE DEF new, t
  <2>2. /\ new.status = t.status /\ new.signers = t.signers /\ new.sorted = t.sorted /\ new.errs = t.errs
        /\ new.party = t.party /\ new.starting = t.starting /\ new.done = t.done
        /\ new.watching = t.watching /\ new.router = t.router /\ new.disturbed = t.disturbed
    BY <2>1 DEF Fields
  <2> QED BY <1>1, <2>1, <2>2 DEF Typed
<1> HIDE DEF new
<1> QED BY <1>1, <1>2, <1>3, TypedStep

\* ... the end of the router, ...
LEMMA RouterEndsShape ==
  ASSUME Shape, NEW s \in SigningId, RouterEnds(s)
  PROVE  Shape'
<1> DEFINE t == session[s]
           new == [t EXCEPT !.router = "ended"]
<1>1. Typed(t) /\ index' = index /\ lost' \in 0..MaxLost
  BY DEF Shape, RouterEnds
<1>2. session' = [session EXCEPT ![s] = new]
  BY DEF RouterEnds, Shape
<1>3. Typed(new)
  <2>1. DOMAIN new = Fields /\ new.router = "ended" /\ \A f \in Fields \ {"router"} : new[f] = t[f]
    BY <1>1 DEF Typed, Fields
  <2> HIDE DEF new, t
  <2>2. /\ new.status = t.status /\ new.signers = t.signers /\ new.sorted = t.sorted /\ new.errs = t.errs
        /\ new.party = t.party /\ new.starting = t.starting /\ new.done = t.done
        /\ new.watching = t.watching /\ new.signed = t.signed /\ new.disturbed = t.disturbed
    BY <2>1 DEF Fields
  <2> QED BY <1>1, <2>1, <2>2 DEF Typed
<1> HIDE DEF new
<1> QED BY <1>1, <1>2, <1>3, TypedStep

\* ... and the answer to the request.
LEMMA ReturnShape ==
  ASSUME Shape, NEW s \in SigningId, NEW final \in {"completed", "failed"}, Return(s, final)
  PROVE  Shape'
<1> DEFINE t == session[s]
           new == [t EXCEPT !.watching = FALSE, !.status = final]
<1>1. Typed(t) /\ index' = index /\ lost' \in 0..MaxLost
  BY DEF Shape, Return
<1>2. session' = [session EXCEPT ![s] = new]
  BY DEF Return, Shape
<1>3. Typed(new)
  <2>1. /\ DOMAIN new = Fields /\ new.watching = FALSE /\ new.status = final
        /\ \A f \in Fields \ {"watching", "status"} : new[f] = t[f]
    BY <1>1 DEF Typed, Fields
  <2> HIDE DEF new, t
  <2>2. /\ new.router = t.router /\ new.signers = t.signers /\ new.sorted = t.sorted /\ new.errs = t.errs
        /\ new.party = t.party /\ new.starting = t.starting /\ new.done = t.done
        /\ new.signed = t.signed /\ new.disturbed = t.disturbed
    BY <2>1 DEF Fields
  <2>3. new.watching \in BOOLEAN /\ new.signed \in BOOLEAN /\ new.disturbed \in BOOLEAN
    BY <1>1, <2>1, <2>2 DEF Typed
  <2> QED BY <1>1, <2>1, <2>2, <2>3 DEF Typed
<1> HIDE DEF new
<1> QED BY <1>1, <1>2, <1>3, TypedStep

\* Every action keeps the types.
LEMMA NextShape == Shape /\ [Next]_vars => Shape'
<1> SUFFICES ASSUME Shape, [Next]_vars PROVE Shape'
  OBVIOUS
<1>1. ASSUME NEW s \in SigningId, CreateAndExecuteSigning(s) PROVE Shape'
  BY <1>1, CreateShape
<1>2. ASSUME NEW s \in SigningId, NEW p \in PartyId, StartParty(s, p) PROVE Shape'
  BY <1>2, StartShape
<1>3. ASSUME NEW s \in SigningId, NEW p \in PartyId, RouteMessage(s, p) PROVE Shape'
  BY <1>3, RouteShape
<1>4. ASSUME NEW s \in SigningId, NEW p \in PartyId, Finish(s, p) PROVE Shape'
  BY <1>4, FinishShape
<1>5. ASSUME NEW s \in SigningId, StoreSignature(s) \/ RouterEnds(s) PROVE Shape'
  BY <1>5, StoreShape, RouterEndsShape
<1>6. ASSUME NEW s \in SigningId, StartFailed(s) \/ Timeout(s) \/ AllDone(s) PROVE Shape'
  BY <1>6, ReturnShape DEF StartFailed, Timeout, AllDone
<1>7. CASE UNCHANGED vars \/ \E s \in SigningId, p \in PartyId : Panic(s, p)
  <2>1. session' = session /\ index' = index /\ lost' = lost
    BY <1>7 DEF vars, Panic
  <2> QED BY <2>1 DEF Shape, Typed
<1> QED BY <1>1, <1>2, <1>3, <1>4, <1>5, <1>6, <1>7 DEF Next

\* The variables have their types: the sorted PartyIDs are always the signers', an index is
\* a place in the keygen session, and no more errors wait than a session has parties.
THEOREM TypeCorrectness == Spec => []TypeOK
<1>1. Init => down \in BOOLEAN
  BY DEF Init
<1>2. down \in BOOLEAN /\ [Next]_vars => (down \in BOOLEAN)'
  <2> SUFFICES ASSUME down \in BOOLEAN, [Next]_vars PROVE down' \in BOOLEAN
    OBVIOUS
  <2>1. ASSUME NEW s \in SigningId, NEW p \in PartyId PROVE RouteMessage(s, p) => down' = down
    BY DEF RouteMessage
  <2>2. ASSUME NEW s \in SigningId, NEW p \in PartyId
        PROVE  /\ StartParty(s, p) \/ Finish(s, p) => down' = down
               /\ Panic(s, p) => down' = TRUE
    BY DEF StartParty, Finish, Panic
  <2>3. ASSUME NEW s \in SigningId
        PROVE  CreateAndExecuteSigning(s) \/ StoreSignature(s) \/ RouterEnds(s) \/ StartFailed(s) \/ Timeout(s) \/ AllDone(s)
                 => down' = down
    BY DEF CreateAndExecuteSigning, StoreSignature, RouterEnds, StartFailed, Timeout, AllDone, Return
  <2> QED BY <2>1, <2>2, <2>3 DEF Next, vars
<1> QED BY <1>1, <1>2, InitShape, NextShape, ShapeTypes, PTL DEF Spec

-----------------------------------------------------------------------------
(* Nobody waits for good: the parties of a session that is left alone, by place in *)
(* its list, follow Protocol.                                                      *)

Parties(t) == [i \in 1..Len(t.signers) |-> t.party[t.signers[i]]]
Through(t) == {i \in 1..Len(t.signers) : t.signers[i] \in t.done}

\* The signers came in the order of their keys, each of them once.
Sorted(t) == t.sorted = t.signers /\ Cardinality(ToSet(t.signers)) = Len(t.signers)

Calm(t) == Running(t) /\ ~t.disturbed /\ Sorted(t)

\* A session that is left alone finds the indices it has set, and its parties in order.
Orderly(t, idx) ==
  Calm(t) =>
    /\ \A i \in 1..Len(t.signers) : idx[t.signers[i]] = i
    /\ Protocol(Parties(t), Len(t.signers), Through(t))
    /\ \A p \in t.starting : t.party[p].round = 0

Runs == lost = 0 => \A s \in SigningId : Orderly(session[s], index)

\* In a sorted session everybody is in its own place and under its own PartyID.
LEMMA SortedPlaces ==
  ASSUME NEW t, Typed(t), Sorted(t)
  PROVE  /\ Len(t.signers) \in Nat
         /\ \A i \in 1..Len(t.signers) : t.signers[i] \in ToSet(t.signers) /\ Position(t, t.signers[i]) = i
         /\ \A p \in ToSet(t.signers) : /\ Position(t, p) \in 1..Len(t.signers)
                                        /\ t.signers[Position(t, p)] = p
                                        /\ PartyIDOf(t, p) = p
         /\ ~Mixed(t)
<1>1. t.signers \in Seq(PartyId)
  BY SignersFit
<1>2. Len(t.signers) \in Nat /\ DOMAIN t.signers = 1..Len(t.signers)
  BY <1>1
<1>3. \A i, j \in 1..Len(t.signers) : t.signers[i] = t.signers[j] => i = j
  BY <1>1, <1>2, NamedOnce DEF Sorted
<1>4. ASSUME NEW p \in ToSet(t.signers)
      PROVE  /\ Position(t, p) \in 1..Len(t.signers) /\ t.signers[Position(t, p)] = p
             /\ PartyIDOf(t, p) = p
  <2>1. Position(t, p) \in 1..Len(t.signers) /\ t.signers[Position(t, p)] = p
    BY <1>1, PlacesOfSigners DEF Position
  <2> QED BY <2>1 DEF PartyIDOf, Sorted
<1>5. \A i \in 1..Len(t.signers) : t.signers[i] \in ToSet(t.signers)
  BY <1>2 DEF ToSet
<1>6. ~Mixed(t)
  BY <1>4 DEF Mixed
<1> QED BY <1>2, <1>3, <1>4, <1>5, <1>6

\* What is not about the parties keeps a session orderly.
LEMMA OrderlyKept ==
  ASSUME NEW t, NEW idx, Orderly(t, idx), NEW new,
         new.signers = t.signers, new.sorted = t.sorted, new.router = t.router,
         new.disturbed = t.disturbed, new.party = t.party, new.done = t.done,
         new.starting \subseteq t.starting
  PROVE  Orderly(new, idx)
<1>1. Parties(new) = Parties(t) /\ Through(new) = Through(t) /\ (Calm(new) <=> Calm(t))
  BY DEF Parties, Through, Calm, Running, Sorted
<1> QED BY <1>1 DEF Orderly

\* A step of one session leaves the others as they are.
LEMMA OrderlyStep ==
  ASSUME Shape, Runs, NEW s \in SigningId, NEW new, session' = [session EXCEPT ![s] = new], index' = index,
         lost' = 0 => lost = 0, lost' = 0 => Orderly(new, index)
  PROVE  Runs'
<1> SUFFICES ASSUME lost' = 0, NEW u \in SigningId PROVE Orderly(session'[u], index)
  BY DEF Runs
<1>1. session'[u] = IF u = s THEN new ELSE session[u]
  BY DEF Shape
<1> QED BY <1>1 DEF Runs

\* A new session writes the indices of its PartyIDs, which disturbs a session that runs
\* with other ones.
LEMMA CreateRuns ==
  ASSUME Shape, Runs, NEW s \in SigningId, CreateAndExecuteSigning(s)
  PROVE  Runs'
<1>1. PICK signers \in SignerLists :
        /\ signers \in Seq(PartyId)
        /\ index' = [p \in PartyId |->
                       IF p \in ToSet(signers) THEN PlaceIn(SortPartyIDs(signers), p) ELSE index[p]]
        /\ session'[s] = Mine(s, signers) /\ lost' = lost
        /\ \A u \in SigningId \ {s} :
             /\ Disturbed(session[u], session'[u])
             /\ Running(session[u]) /\ ~session'[u].disturbed =>
                  \A p \in ToSet(session[u].sorted) : index'[p] = index[p]
  BY CreatedIndex
<1> SUFFICES ASSUME lost = 0, NEW u \in SigningId PROVE Orderly(session'[u], index')
  BY <1>1 DEF Runs
<1>2. CASE u = s
  <2> DEFINE t == Mine(s, signers)
             n == Len(signers)
  <2>1. /\ Typed(t) /\ t.signers = signers /\ t.sorted = SortPartyIDs(signers)
        /\ t.party = [p \in ToSet(signers) |-> NewParty] /\ t.done = {}
    BY CreatedTyped
  <2> HIDE DEF t
  <2> SUFFICES ASSUME Calm(t)
               PROVE  /\ \A i \in 1..n : index'[signers[i]] = i
                      /\ Protocol(Parties(t), n, Through(t))
                      /\ \A p \in t.starting : t.party[p].round = 0
    BY <1>1, <1>2, <2>1 DEF Orderly, t
  <2>2. /\ n \in Nat
        /\ \A i \in 1..n : signers[i] \in ToSet(signers) /\ PlaceIn(signers, signers[i]) = i
    BY <2>1, SortedPlaces DEF Calm, Position
  <2>3. SortPartyIDs(signers) = signers
    BY <2>1 DEF Calm, Sorted
  <2>4. ASSUME NEW i \in 1..n PROVE index'[signers[i]] = i
    <3>1. signers[i] \in PartyId
      BY <1>1
    <3> QED BY <1>1, <2>2, <2>3, <3>1
  <2>5. Parties(t) = [i \in 1..n |-> NewParty] /\ Through(t) = {}
    BY <2>1, <2>2 DEF Parties, Through
  <2>6. Protocol(Parties(t), n, Through(t))
    BY <2>2, <2>5, ProtocolBegins
  <2>7. \A p \in t.starting : t.party[p].round = 0
    BY <2>1 DEF Typed, NewParty
  <2> QED BY <2>4, <2>6, <2>7
<1>3. CASE u # s
  <2> DEFINE t == session[u]
             new == session'[u]
  <2>1. Typed(t) /\ Disturbed(t, new) /\ Orderly(t, index)
    BY <1>1, <1>3 DEF Shape, Runs
  <2>2. /\ new.signers = t.signers /\ new.sorted = t.sorted /\ new.party = t.party /\ new.router = t.router
        /\ new.starting = t.starting /\ new.done = t.done /\ (t.disturbed => new.disturbed)
    BY <2>1, DisturbedTyped DEF Disturbed
  <2>3. Running(t) /\ ~new.disturbed => \A p \in ToSet(t.sorted) : index'[p] = index[p]
    BY <1>1, <1>3
  <2> HIDE DEF t, new
  <2>4. Parties(new) = Parties(t) /\ Through(new) = Through(t)
    BY <2>2 DEF Parties, Through
  <2> SUFFICES ASSUME Calm(new)
               PROVE  /\ \A i \in 1..Len(new.signers) : index'[new.signers[i]] = i
                      /\ Protocol(Parties(new), Len(new.signers), Through(new))
                      /\ \A p \in new.starting : new.party[p].round = 0
    BY DEF Orderly, new
  <2>5. Calm(t) /\ ~new.disturbed
    BY <2>2 DEF Calm, Running, Sorted
  <2>6. ASSUME NEW i \in 1..Len(t.signers) PROVE index'[t.signers[i]] = i
    <3>1. t.signers[i] \in ToSet(t.sorted)
      BY <2>1, <2>5, SortedPlaces DEF Calm, Sorted
    <3>2. index[t.signers[i]] = i
      BY <2>1, <2>5 DEF Orderly
    <3> QED BY <2>3, <2>5, <3>1, <3>2 DEF Calm
  <2> QED BY <2>1, <2>2, <2>4, <2>5, <2>6 DEF Orderly
<1> QED BY <1>2, <1>3

\* A party is started, or not.
LEMMA StartRuns ==
  ASSUME Shape, Runs, NEW s \in SigningId, NEW p, StartParty(s, p)
  PROVE  Runs'
<1> DEFINE t == session[s]
           n == Len(t.signers)
           me == index[PartyIDOf(t, p)]
<1>1. Typed(t) /\ p \in t.starting /\ index' = index /\ lost' = lost /\ (lost = 0 => Orderly(t, index))
  BY DEF Shape, Runs, StartParty
<1>2. CASE session' = [session EXCEPT ![s].starting = @ \ {p}, ![s].errs = @ + 1]
  <2> DEFINE new == [t EXCEPT !.starting = @ \ {p}, !.errs = @ + 1]
  <2>1. session' = [session EXCEPT ![s] = new]
    BY <1>2 DEF Shape
  <2>2. /\ new.signers = t.signers /\ new.sorted = t.sorted /\ new.router = t.router
        /\ new.disturbed = t.disturbed /\ new.party = t.party /\ new.done = t.done
        /\ new.starting \subseteq t.starting
    BY <1>1 DEF Typed, Fields
  <2> HIDE DEF new, t
  <2>3. lost = 0 => Orderly(new, index)
    BY <1>1, <2>2, OrderlyKept
  <2> QED BY <1>1, <2>1, <2>3, OrderlyStep
<1>3. CASE session' = [session EXCEPT ![s].starting = @ \ {p}, ![s].party[p] = Started(@, me, n)]
  <2> DEFINE party == [t.party EXCEPT ![p] = Started(t.party[p], me, n)]
             new == [t EXCEPT !.starting = @ \ {p}, !.party = party]
  <2>1. session' = [session EXCEPT ![s] = new]
    BY <1>3 DEF Shape
  <2>2. /\ new.signers = t.signers /\ new.sorted = t.sorted /\ new.router = t.router
        /\ new.disturbed = t.disturbed /\ new.party = party /\ new.done = t.done
        /\ new.starting = t.starting \ {p}
    BY <1>1 DEF Typed, Fields
  <2>3. DOMAIN t.party = ToSet(t.signers) /\ p \in ToSet(t.signers) /\ t.starting \subseteq ToSet(t.signers)
    BY <1>1 DEF Typed
  <2>4. /\ party[p] = Started(t.party[p], me, n)
        /\ \A q \in ToSet(t.signers) \ {p} : party[q] = t.party[q]
    BY <2>3
  <2> HIDE DEF new, party, t
  <2>5. ASSUME lost = 0, Calm(new)
        PROVE  /\ \A i \in 1..n : index[t.signers[i]] = i
               /\ Protocol(Parties(new), n, Through(new))
               /\ \A q \in new.starting : new.party[q].round = 0
    <3>1. Calm(t)
      BY <2>2, <2>5 DEF Calm, Running, Sorted
    <3>2. /\ \A i \in 1..n : index[t.signers[i]] = i
          /\ Protocol(Parties(t), n, Through(t))
          /\ \A q \in t.starting : t.party[q].round = 0
      BY <1>1, <2>5, <3>1 DEF Orderly
    <3> DEFINE i == Position(t, p)
    <3>3. /\ n \in Nat /\ i \in 1..n /\ t.signers[i] = p
          /\ \A j \in 1..n : t.signers[j] \in ToSet(t.signers) /\ (t.signers[j] = p <=> j = i)
          /\ PartyIDOf(t, p) = p
      BY <1>1, <2>3, <3>1, SortedPlaces DEF Calm
    <3>4. me = i
      BY <3>2, <3>3
    <3> HIDE DEF me, i, n
    <3>5. Parties(new) = [Parties(t) EXCEPT ![i] = Started(@, i, n)]
      <4>1. Parties(t) = [j \in 1..n |-> t.party[t.signers[j]]]
        BY DEF Parties, n
      <4>2. Parties(new) = [j \in 1..n |-> party[t.signers[j]]]
        BY <2>2 DEF Parties, n
      <4>3. Parties(t)[i] = t.party[p]
        BY <3>3, <4>1
      <4>4. ASSUME NEW j \in 1..n
            PROVE  party[t.signers[j]] = IF j = i THEN Started(Parties(t)[i], i, n) ELSE Parties(t)[j]
        BY <2>4, <3>3, <3>4, <4>1, <4>3
      <4> QED BY <4>1, <4>2, <4>4
    <3>6. Parties(t)[i].round = 0
      BY <1>1, <3>2, <3>3 DEF Parties, n
    <3>7. Through(new) = Through(t)
      BY <2>2 DEF Through
    <3>8. Protocol(Parties(new), n, Through(new))
      <4>1. Protocol(Parties(t), n, Through(t))
        BY <3>2
      <4>2. Protocol([Parties(t) EXCEPT ![i] = Started(@, i, n)], n, Through(t))
        BY <3>3, <3>6, <4>1, ProtocolStarts
      <4> QED BY <3>5, <3>7, <4>2
    <3>9. \A q \in new.starting : new.party[q].round = 0
      BY <2>2, <2>3, <2>4, <3>2
    <3> QED BY <3>2, <3>8, <3>9
  <2>6. lost = 0 => Orderly(new, index)
    BY <2>2, <2>5 DEF Orderly, n
  <2> QED BY <1>1, <2>1, <2>6, OrderlyStep DEF t
<1> QED BY <1>2, <1>3 DEF StartParty

\* A message is routed: in a session that is left alone to everybody else, or to the party
\* at its place.
LEMMA RouteRuns ==
  ASSUME Shape, Runs, NEW s \in SigningId, NEW p, RouteMessage(s, p)
  PROVE  Runs'
<1> DEFINE t == session[s]
           m == Head(t.party[p].out)
           n == Len(t.signers)
           to == Addressees(t, p, m)
<1>1. Typed(t) /\ Running(t) /\ p \in ToSet(t.signers) /\ t.party[p].out # <<>> /\ index' = index
  BY RouteOne
<1>2. PICK failed \in SUBSET to :
        /\ MayFail(t, m, to, failed)
        /\ session' = [session EXCEPT ![s] = [t EXCEPT !.party = After(t, p, failed)]]
  BY RouteOne
<1> DEFINE party == After(t, p, failed)
           new == [t EXCEPT !.party = party]
<1>3. /\ new.signers = t.signers /\ new.sorted = t.sorted /\ new.router = t.router
      /\ new.disturbed = t.disturbed /\ new.party = party /\ new.done = t.done /\ new.starting = t.starting
  BY <1>1 DEF Typed, Fields
<1>4. IsFiniteSet(to) /\ IsFiniteSet(failed) /\ Cardinality(failed) \in Nat /\ lost \in Nat
  <2>1. to \subseteq ToSet(t.signers)
    BY DEF Addressees
  <2>2. IsFiniteSet(ToSet(t.signers))
    BY <1>1, SignersFit
  <2>3. lost \in Nat
    BY BoundAssumption DEF Shape
  <2> HIDE DEF to, t
  <2> QED BY <1>2, <2>1, <2>2, <2>3, FS_Subset, FS_CardinalityType
<1>5. lost' = 0 => lost = 0
  <2> HIDE DEF to, t, m
  <2> QED BY <1>2, <1>4 DEF MayFail
<1>6. t.party \in [ToSet(t.signers) -> PartySet(Len(KeygenParties))] /\ t.starting \subseteq ToSet(t.signers)
  BY <1>1 DEF Typed
<1> HIDE DEF new, party
<1>7. ASSUME lost' = 0, Calm(new)
      PROVE  /\ \A i \in 1..n : index[t.signers[i]] = i
             /\ Protocol(Parties(new), n, Through(new))
             /\ \A q \in new.starting : new.party[q].round = 0
  <2>1. Calm(t)
    BY <1>3, <1>7 DEF Calm, Running, Sorted
  <2>2. /\ \A i \in 1..n : index[t.signers[i]] = i
        /\ Protocol(Parties(t), n, Through(t))
        /\ \A q \in t.starting : t.party[q].round = 0
    BY <1>5, <1>7, <2>1 DEF Orderly, Runs
  <2>3. /\ n \in Nat
        /\ \A j \in 1..n : t.signers[j] \in ToSet(t.signers) /\ Position(t, t.signers[j]) = j
        /\ \A q \in ToSet(t.signers) : /\ Position(t, q) \in 1..n /\ t.signers[Position(t, q)] = q
                                       /\ PartyIDOf(t, q) = q
        /\ ~Mixed(t) /\ t.sorted = t.signers
    BY <1>1, <2>1, SortedPlaces DEF Calm, Sorted
  <2>4. failed = {}
    <3>1. ~t.disturbed
      BY <2>1 DEF Calm
    <3>2. lost' = lost + Cardinality(failed)
      <4> HIDE DEF t, to, m
      <4> QED BY <1>2, <2>3, <3>1 DEF MayFail
    <3>3. Cardinality(failed) = 0
      BY <1>4, <1>7, <3>2
    <3> QED BY <1>4, <3>3, FS_EmptySet
  <2>5. \A q \in ToSet(t.signers) : index[PartyIDOf(t, q)] = Position(t, q)
    BY <2>2, <2>3
  <2> DEFINE i == Position(t, p)
             P == Parties(t)
  <2>6. i \in 1..n /\ P[i] = t.party[p] /\ P[i].out # <<>> /\ m = Head(P[i].out)
    BY <1>1, <2>3 DEF Parties
  <2>7. m.to \in 0..n /\ m.to # i
    <3>1. P \in [1..n -> PartySet(n)] /\ NothingEarly(P, n)
      BY <2>2 DEF Protocol
    <3>2. m \in ToSet(P[i].out)
      <4>1. P[i].out \in Seq(MessageSet(n))
        BY <2>6, <3>1 DEF PartySet
      <4>2. 1 \in DOMAIN P[i].out /\ Head(P[i].out) = P[i].out[1]
        BY <2>6, <4>1, EmptySeq
      <4> QED BY <2>6, <4>2 DEF ToSet
    <3> HIDE DEF P, i, m, n
    <3> QED BY <2>3, <2>6, <3>1, <3>2, LettersAreMessages DEF NothingEarly
  <2>8. \A j \in 1..n : t.signers[j] \in to <=> j # i /\ m.to \in {Everybody, j}
    <3>1. m.to # Everybody => index[t.sorted[m.to]] = m.to
      <4> HIDE DEF t, m, n, i, P, to
      <4>1. m.to # 0 => m.to \in 1..n
        BY <2>3, <2>7
      <4>2. \A j \in 1..n : index[t.sorted[j]] = j
        BY <2>2, <2>3
      <4> QED BY <4>1, <4>2 DEF Everybody
    <3>2. \A j \in 1..n : t.signers[j] = p <=> j = i
      BY <1>1, <2>3
    <3> HIDE DEF t, m, n, i
    <3> QED BY <2>3, <2>6, <2>7, <3>1, <3>2 DEF Addressees
  <2>9. ASSUME NEW q \in ToSet(t.signers)
        PROVE  party[q] = IF q \in to THEN Updated([t.party EXCEPT ![p].out = Tail(@)][q], Kept(m, i), Position(t, q), n)
                          ELSE [t.party EXCEPT ![p].out = Tail(@)][q]
    <3>1. q \in DOMAIN t.party /\ index[PartyIDOf(t, q)] = Position(t, q) /\ index[PartyIDOf(t, p)] = i
      BY <1>1, <1>6, <2>5
    <3> QED BY <2>4, <3>1 DEF party, After
  <2>10. ASSUME NEW q \in ToSet(t.signers)
         PROVE  [t.party EXCEPT ![p].out = Tail(@)][q] = IF q = p THEN [t.party[q] EXCEPT !.out = Tail(@)] ELSE t.party[q]
    BY <1>6
  <2>11. ASSUME NEW j \in 1..n
         PROVE  party[t.signers[j]] =
                  IF j = i THEN [P[j] EXCEPT !.out = Tail(@)]
                  ELSE IF m.to \in {Everybody, j} THEN Updated(P[j], Kept(m, i), j, n) ELSE P[j]
    <3> DEFINE q == t.signers[j]
    <3>1. q \in ToSet(t.signers) /\ Position(t, q) = j /\ P[j] = t.party[q] /\ (q = p <=> j = i)
      BY <1>1, <2>3 DEF Parties
    <3>2. q \in to <=> j # i /\ m.to \in {Everybody, j}
      BY <2>8
    <3> HIDE DEF q, to, m, n, P, i, t
    <3> QED BY <2>9, <2>10, <3>1, <3>2 DEF q
  <2>12. Parties(new) = Routed(P, i, n)
    <3>1. Parties(new) = [j \in 1..n |-> party[t.signers[j]]]
      BY <1>3 DEF Parties
    <3> HIDE DEF P, i, n, m
    <3> QED BY <2>6, <2>11, <3>1 DEF Routed
  <2>13. Through(new) = Through(t)
    BY <1>3 DEF Through
  <2>14. Protocol(Parties(new), n, Through(new))
    <3> HIDE DEF P, i, n
    <3> QED BY <2>2, <2>3, <2>6, <2>12, <2>13, ProtocolRoutes DEF P
  <2>15. ASSUME NEW q \in t.starting PROVE party[q].round = 0
    <3>1. q \in ToSet(t.signers) /\ Position(t, q) \in 1..n /\ t.signers[Position(t, q)] = q
      BY <1>6, <2>3
    <3> DEFINE j == Position(t, q)
    <3>2. P[j] = t.party[q] /\ P[j].round = 0
      BY <2>2, <3>1 DEF Parties
    <3>3. P[j] \in PartySet(n) /\ P[i] \in PartySet(n)
      BY <2>2, <2>6, <3>1 DEF Protocol
    <3>4. Kept(m, i) \in KeptSet(n)
      <4> HIDE DEF P, i, n, m
      <4> QED BY <2>3, <2>6, <3>3, HeadIsMessage
    <3>5. party[t.signers[j]] =
            IF j = i THEN [P[j] EXCEPT !.out = Tail(@)]
            ELSE IF m.to \in {Everybody, j} THEN Updated(P[j], Kept(m, i), j, n) ELSE P[j]
      BY <2>11, <3>1
    <3>6. Updated(P[j], Kept(m, i), j, n).round = 0
      <4>1. j \in Nat \ {0} /\ n \in 0..n
        BY <2>3, <3>1
      <4> HIDE DEF P, i, j, n, m
      <4>2. Grows(P[j], Updated(P[j], Kept(m, i), j, n), Kept(m, i), j, n, n)
        BY <2>3, <3>3, <3>4, <4>1, UpdatedParty
      <4> QED BY <3>2, <4>2 DEF Grows
    <3>7. [P[j] EXCEPT !.out = Tail(@)].round = 0
      <4> HIDE DEF P, j
      <4> QED BY <3>2, <3>3 DEF PartySet
    <3> HIDE DEF P, i, j, m, n, t
    <3> QED BY <3>1, <3>2, <3>5, <3>6, <3>7 DEF j
  <2> QED BY <1>3, <2>2, <2>14, <2>15
<1>8. lost' = 0 => Orderly(new, index)
  BY <1>3, <1>7 DEF Orderly
<1> QED BY <1>1, <1>2, <1>5, <1>8, OrderlyStep DEF new, party

\* A result is taken.
LEMMA FinishRuns ==
  ASSUME Shape, Runs, NEW s \in SigningId, NEW p, Finish(s, p)
  PROVE  Runs'
<1> DEFINE t == session[s]
           n == Len(t.signers)
           party == [t.party EXCEPT ![p].end = FALSE]
           new == [t EXCEPT !.party = party, !.done = @ \cup {p}]
<1>1. Typed(t) /\ p \in DOMAIN t.party /\ index' = index /\ lost' = lost /\ (lost = 0 => Orderly(t, index))
  BY DEF Shape, Runs, Finish
<1>2. session' = [session EXCEPT ![s] = new]
  BY DEF Finish, Shape
<1>3. /\ new.signers = t.signers /\ new.sorted = t.sorted /\ new.router = t.router
      /\ new.disturbed = t.disturbed /\ new.party = party /\ new.done = t.done \cup {p}
      /\ new.starting = t.starting
  BY <1>1 DEF Typed, Fields
<1>4. /\ t.party \in [ToSet(t.signers) -> PartySet(Len(KeygenParties))]
      /\ p \in ToSet(t.signers) /\ t.starting \subseteq ToSet(t.signers)
  BY <1>1 DEF Typed
<1>5. /\ party[p] = [t.party[p] EXCEPT !.end = FALSE]
      /\ \A q \in ToSet(t.signers) \ {p} : party[q] = t.party[q]
      /\ \A q \in ToSet(t.signers) : party[q].round = t.party[q].round
  <2>1. [t.party[p] EXCEPT !.end = FALSE].round = t.party[p].round
    BY <1>4 DEF PartySet
  <2> HIDE DEF t
  <2> QED BY <1>4, <2>1
<1> HIDE DEF new, party, t
<1>6. ASSUME lost = 0, Calm(new)
      PROVE  /\ \A i \in 1..n : index[t.signers[i]] = i
             /\ Protocol(Parties(new), n, Through(new))
             /\ \A q \in new.starting : new.party[q].round = 0
  <2>1. Calm(t)
    BY <1>3, <1>6 DEF Calm, Running, Sorted
  <2>2. /\ \A i \in 1..n : index[t.signers[i]] = i
        /\ Protocol(Parties(t), n, Through(t))
        /\ \A q \in t.starting : t.party[q].round = 0
    BY <1>1, <1>6, <2>1 DEF Orderly
  <2> DEFINE i == Position(t, p)
  <2>3. /\ n \in Nat /\ i \in 1..n /\ t.signers[i] = p
        /\ \A j \in 1..n : t.signers[j] \in ToSet(t.signers) /\ (t.signers[j] = p <=> j = i)
    BY <1>1, <1>4, <2>1, SortedPlaces DEF Calm
  <2> HIDE DEF i, n
  <2>4. Parties(t) = [j \in 1..n |-> t.party[t.signers[j]]]
    BY DEF Parties, n
  <2>5. Parties(new) = [Parties(t) EXCEPT ![i].end = FALSE]
    <3>1. Parties(new) = [j \in 1..n |-> party[t.signers[j]]]
      BY <1>3 DEF Parties, n
    <3>2. Parties(t)[i] = t.party[p]
      BY <2>3, <2>4
    <3>3. ASSUME NEW j \in 1..n
          PROVE  party[t.signers[j]] = IF j = i THEN [Parties(t)[i] EXCEPT !.end = FALSE] ELSE Parties(t)[j]
      BY <1>5, <2>3, <2>4, <3>2
    <3> QED BY <2>4, <3>1, <3>3
  <2>6. Through(new) = Through(t) \cup {i}
    BY <1>3, <2>3 DEF Through, n
  <2>7. Protocol(Parties(new), n, Through(new))
    <3>1. Protocol(Parties(t), n, Through(t))
      BY <2>2
    <3>2. Protocol([Parties(t) EXCEPT ![i].end = FALSE], n, Through(t) \cup {i})
      BY <2>3, <3>1, ProtocolEnds
    <3> QED BY <2>5, <2>6, <3>2
  <2>8. \A q \in new.starting : new.party[q].round = 0
    BY <1>3, <1>4, <1>5, <2>2
  <2> QED BY <2>2, <2>7, <2>8
<1>7. lost = 0 => Orderly(new, index)
  BY <1>3, <1>6 DEF Orderly, n
<1> QED BY <1>1, <1>2, <1>7, OrderlyStep DEF t

\* The signature, the router's end and the answer have nothing to do with the parties.
LEMMA EndRuns ==
  ASSUME Shape, Runs, NEW s \in SigningId,
         StoreSignature(s) \/ RouterEnds(s) \/ \E final \in {"completed", "failed"} : Return(s, final)
  PROVE  Runs'
<1> DEFINE t == session[s]
<1>1. Typed(t) /\ index' = index /\ lost' = lost /\ (lost = 0 => Orderly(t, index))
  BY DEF Shape, Runs, StoreSignature, RouterEnds, Return
<1>4. CASE StoreSignature(s)
  <2> DEFINE new == [t EXCEPT !.signed = TRUE]
  <2>1. session' = [session EXCEPT ![s] = new]
    BY <1>4 DEF StoreSignature, Shape
  <2>2. /\ new.signers = t.signers /\ new.sorted = t.sorted /\ new.router = t.router
        /\ new.disturbed = t.disturbed /\ new.party = t.party /\ new.done = t.done
        /\ new.starting \subseteq t.starting
    BY <1>1 DEF Typed, Fields
  <2> HIDE DEF new, t
  <2>3. lost = 0 => Orderly(new, index)
    BY <1>1, <2>2, OrderlyKept
  <2> QED BY <1>1, <2>1, <2>3, OrderlyStep
<1>2. CASE RouterEnds(s)
  <2> DEFINE new == [t EXCEPT !.router = "ended"]
  <2>1. session' = [session EXCEPT ![s] = new]
    BY <1>2 DEF RouterEnds, Shape
  <2>2. Orderly(new, index)
    <3>1. new.router = "ended"
      BY <1>1 DEF Typed, Fields
    <3> HIDE DEF new
    <3> QED BY <3>1 DEF Orderly, Calm, Running
  <2> HIDE DEF new
  <2> QED BY <1>1, <2>1, <2>2, OrderlyStep
<1>3. ASSUME NEW final \in {"completed", "failed"}, Return(s, final) PROVE Runs'
  <2> DEFINE new == [t EXCEPT !.watching = FALSE, !.status = final]
  <2>1. session' = [session EXCEPT ![s] = new]
    BY <1>3 DEF Return, Shape
  <2>2. /\ new.signers = t.signers /\ new.sorted = t.sorted /\ new.router = t.router
        /\ new.disturbed = t.disturbed /\ new.party = t.party /\ new.done = t.done
        /\ new.starting \subseteq t.starting
    BY <1>1 DEF Typed, Fields
  <2> HIDE DEF new, t
  <2>3. lost = 0 => Orderly(new, index)
    BY <1>1, <2>2, OrderlyKept
  <2> QED BY <1>1, <2>1, <2>3, OrderlyStep
<1> QED BY <1>2, <1>3, <1>4

\* Every action keeps the sessions that are left alone orderly.
LEMMA NextRuns == Shape /\ Runs /\ [Next]_vars => Runs'
<1> SUFFICES ASSUME Shape, Runs, [Next]_vars PROVE Runs'
  OBVIOUS
<1>1. ASSUME NEW s \in SigningId, CreateAndExecuteSigning(s) PROVE Runs'
  BY <1>1, CreateRuns
<1>2. ASSUME NEW s \in SigningId, NEW p \in PartyId, StartParty(s, p) PROVE Runs'
  BY <1>2, StartRuns
<1>3. ASSUME NEW s \in SigningId, NEW p \in PartyId, RouteMessage(s, p) PROVE Runs'
  BY <1>3, RouteRuns
<1>4. ASSUME NEW s \in SigningId, NEW p \in PartyId, Finish(s, p) PROVE Runs'
  BY <1>4, FinishRuns
<1>5. ASSUME NEW s \in SigningId, StoreSignature(s) \/ RouterEnds(s) PROVE Runs'
  BY <1>5, EndRuns
<1>6. ASSUME NEW s \in SigningId, StartFailed(s) \/ Timeout(s) \/ AllDone(s) PROVE Runs'
  BY <1>6, EndRuns DEF StartFailed, Timeout, AllDone
<1>7. CASE UNCHANGED vars \/ \E s \in SigningId, p \in PartyId : Panic(s, p)
  <2>1. session' = session /\ index' = index /\ lost' = lost
    BY <1>7 DEF vars, Panic
  <2> QED BY <2>1 DEF Runs
<1> QED BY <1>1, <1>2, <1>3, <1>4, <1>5, <1>6, <1>7 DEF Next

\* In such a session some party has a step, or all have signed.
LEMMA RunsNeverStalls == Inv /\ Shape /\ Runs => NeverStalls
<1> SUFFICES ASSUME Inv, Shape, Runs, NEW s \in SigningId, Running(session[s]), Untroubled(session[s]),
                    session[s].starting = {},
                    \A p \in ToSet(session[s].signers) :
                       ~(session[s].party[p].out # <<>> \/ session[s].party[p].end)
             PROVE  session[s].done = ToSet(session[s].signers)
  BY DEF NeverStalls
<1> DEFINE t == session[s]
           n == Len(t.signers)
<1>1. Typed(t) /\ SessionOK(t) /\ Calm(t) /\ lost = 0
  BY DEF Shape, Inv, Untroubled, Calm, Sorted
<1>2. n \in Nat /\ n >= 2
  <2>1. t.status # "none"
    BY <1>1 DEF SessionOK, Running
  <2>2. Len(t.signers) >= Threshold /\ Threshold >= 2 /\ Threshold \in Nat /\ n \in Nat
    BY <1>1, <2>1, KeygenAssumption, SignersFit DEF SessionOK
  <2> QED BY <2>2
<1>3. Protocol(Parties(t), n, Through(t))
  BY <1>1 DEF Runs, Orderly
<1>4. /\ \A i \in 1..n : t.signers[i] \in ToSet(t.signers)
      /\ \A p \in ToSet(t.signers) : Position(t, p) \in 1..n /\ t.signers[Position(t, p)] = p
  BY <1>1, SortedPlaces DEF Calm
<1>5. ASSUME NEW i \in 1..n
      PROVE  Parties(t)[i].out = <<>> /\ ~Parties(t)[i].end /\ Parties(t)[i].round # 0
  <2>1. Parties(t)[i] = t.party[t.signers[i]] /\ t.signers[i] \in ToSet(t.signers)
    BY <1>4 DEF Parties
  <2>2. t.party[t.signers[i]].round > 0
    BY <2>1 DEF Untroubled
  <2> QED BY <2>1, <2>2
<1>6. \A i \in 1..n : i \in Through(t)
  <2> HIDE DEF t, n
  <2> QED BY <1>2, <1>3, <1>5, NobodyWaits
<1>7. ASSUME NEW p \in ToSet(t.signers) PROVE p \in t.done
  BY <1>4, <1>6 DEF Through
<1>8. t.done \subseteq ToSet(t.signers)
  BY <1>1 DEF Typed
<1> QED BY <1>7, <1>8

\* A session whose signers come in the keygen order, each of them once, and whose PartyIDs
\* keep their index, is never stuck before all have signed, as long as no Start and no
\* Update fails and the process is up, whatever other sessions do (routeSigningMessages
\* and deliverSigningMessage).
THEOREM NobodyStalls == Spec => []NeverStalls
<1>1. Init => Runs
  <2> SUFFICES ASSUME Init PROVE Runs
    OBVIOUS
  <2>1. None.router = "off"
    BY DEF None
  <2> QED BY <2>1 DEF Init, Runs, Orderly, Calm, Running
<1> QED BY <1>1, InitShape, NextShape, NextRuns, RunsNeverStalls, Invariance, PTL DEF Spec
=============================================================================
