------------------------------ MODULE Signing ------------------------------
(***************************************************************************)
(* Signing sessions over one completed key generation (signing_service.go).  *)
(* Each request creates a session with a local party per signer, starts and  *)
(* watches them as KeyGen does, and a goroutine routes their messages.       *)
(*                                                                         *)
(* Sessions share one thing: the PartyIDs.  CreateAndExecuteSigning takes    *)
(* the pointers of the keygen session and SortPartyIDs writes the Index      *)
(* field of each, which the library and the routers of all sessions read     *)
(* whenever they send, store or route a message.                             *)
(***************************************************************************)
EXTENDS TssLib, FiniteSets

CONSTANTS
  KeygenParties,  \* the parties of the keygen session in its order
  Threshold,      \* its threshold
  SigningId,      \* the signing ids
  SignerLists,    \* the signers requests come with
  MaxLost         \* bound: the Updates that fail in sessions that are in order

PartyId == ToSet(KeygenParties)

ASSUME KeygenAssumption ==
  /\ KeygenParties \in Seq(PartyId)
  /\ Cardinality(PartyId) = Len(KeygenParties)
  /\ Threshold \in 2..Len(KeygenParties)

ASSUME SignersAssumption ==
  \A signers \in SignerLists :
     signers \in Seq(PartyId) /\ Len(signers) \in 2..Len(KeygenParties)

ASSUME BoundAssumption == MaxLost \in Nat

VARIABLES
  index,    \* PartyID.Index, counted from 1
  session,  \* the signing sessions, by signing id
  lost,     \* the Updates that have failed
  down      \* a goroutine has panicked, which ends the process and all sessions

vars == <<index, session, lost, down>>

None == [status |-> "none", signers |-> <<>>, sorted |-> <<>>, party |-> <<>>,
         starting |-> {}, errs |-> 0, router |-> "off", watching |-> FALSE,
         done |-> {}, signed |-> FALSE, disturbed |-> FALSE]

\* PartyIDs are ordered by their key, which follows the keygen session's order.
Key(p) == CHOOSE i \in DOMAIN KeygenParties : KeygenParties[i] = p

SortPartyIDs(signers) ==
  LET places == DOMAIN signers
      order  == CHOOSE f \in Bijection(places, places) :
                  \A i, j \in places : i < j => Key(signers[f[i]]) <= Key(signers[f[j]])
  IN  [i \in places |-> signers[order[i]]]

PlaceIn(s, p) == CHOOSE i \in DOMAIN s : s[i] = p /\ \A j \in DOMAIN s : s[j] = p => j <= i

\* partyIdToIdx
Position(t, p) == PlaceIn(t.signers, p)

\* The PartyID a signer's local party is made with: the one that has the
\* signer's place in the sorted list.
PartyIDOf(t, p) == t.sorted[Position(t, p)]

\* A signer's share is used under the PartyID of another.
Mixed(t) == \E p \in ToSet(t.signers) : PartyIDOf(t, p) # p

Running(t) == t.router = "on"

Init == /\ index = [p \in PartyId |-> Key(p)]
        /\ session = [s \in SigningId |-> None]
        /\ lost = 0
        /\ down = FALSE

-----------------------------------------------------------------------------
(* CreateAndExecuteSigning up to the loop of executeSigning.  The keygen      *)
(* session is completed, so a party with a share stands behind each name.     *)

Mine(s, signers) ==
  [None EXCEPT !.status = "in_progress", !.signers = signers,
               !.sorted = SortPartyIDs(signers),
               !.party = [p \in ToSet(signers) |-> NewParty],
               !.starting = ToSet(signers), !.router = "on", !.watching = TRUE]

\* A session whose PartyIDs get another index while it runs is disturbed.
CreateAndExecuteSigning(s) ==
  /\ session[s].status = "none"
  /\ \E signers \in SignerLists :
       /\ Len(signers) >= Threshold
       /\ index' = [p \in PartyId |->
                      IF p \in ToSet(signers) THEN PlaceIn(SortPartyIDs(signers), p) ELSE index[p]]
       /\ session' = [t \in SigningId |->
                        IF t = s THEN Mine(s, signers)
                        ELSE [session[t] EXCEPT !.disturbed =
                                @ \/ /\ Running(session[t])
                                     /\ \E p \in ToSet(session[t].sorted) : index'[p] # index[p]]]
  /\ UNCHANGED <<lost, down>>

\* Mutant: the goroutine starts its party over and over.
StartPartyAgain(s, p) ==
  /\ p \in session[s].starting
  /\ session' = [session EXCEPT ![s].errs = @ + 1]
  /\ UNCHANGED <<index, lost, down>>

StartPanics(t, p) == \/ Cardinality(ToSet(t.signers)) < Len(t.signers)
                     \/ index[PartyIDOf(t, p)] > Len(t.signers)

StartParty(s, p) ==
  /\ p \in session[s].starting
  /\ ~StartPanics(session[s], p)
  /\ \/ session' = [session EXCEPT ![s].starting = @ \ {p},
                      ![s].party[p] = Started(@, index[PartyIDOf(session[s], p)], Len(session[s].signers))]
     \/ session' = [session EXCEPT ![s].starting = @ \ {p}, ![s].errs = @ + 1]
  /\ UNCHANGED <<index, lost, down>>

-----------------------------------------------------------------------------
(* routeSigningMessages *)

\* The router is at its loop, not between the two stores of the first party to finish.
AtLoop(t) == Running(t) /\ (t.done = {} \/ t.signed)

\* Mutant: the index is taken for the place in the keygen session.
AddresseesKeygen(t, p, m) ==
  IF m.to = Everybody THEN ToSet(t.signers) \ {p}
  ELSE {q \in ToSet(t.signers) : Key(q) = index[t.sorted[m.to]]}

\* deliverSigningMessage: everybody else, or whoever has the position that is now
\* the index of the PartyID the message is to; nobody when there is none.
Addressees(t, p, m) ==
  IF m.to = Everybody THEN ToSet(t.signers) \ {p}
  ELSE {q \in ToSet(t.signers) : Position(t, q) = index[t.sorted[m.to]]}

\* The error of an Update is printed and the message is gone.  The proofs of the
\* second round do not hold for a share under another's PartyID; nor need any
\* message of a disturbed session.
MayFail(t, m, to, failed) ==
  /\ Mixed(t) /\ m.round >= 2 => failed = to
  /\ lost' = IF Mixed(t) \/ t.disturbed THEN lost ELSE lost + Cardinality(failed)
  /\ lost' <= MaxLost

RouteMessage(s, p) ==
  LET t == session[s]
      m == Head(t.party[p].out)
      Me(q) == index[PartyIDOf(t, q)]
      to == Addressees(t, p, m)
  IN  /\ AtLoop(t)
      /\ p \in DOMAIN t.party
      /\ t.party[p].out # <<>>
      /\ \E failed \in SUBSET to :
           /\ MayFail(t, m, to, failed)
           /\ LET Sending == [t.party EXCEPT ![p].out = Tail(@)]
              IN  session' = [session EXCEPT ![s].party = [q \in DOMAIN @ |->
                     IF q \in to \ failed
                     THEN Updated(Sending[q], Kept(m, Me(p)), Me(q), Len(t.signers))
                     ELSE Sending[q]]]
      /\ UNCHANGED <<index, down>>

\* The library (external) panics in the goroutine of a Start that finds a signer twice
\* or its own index beyond the signers, and may in an Update of a disturbed session,
\* whose indexes are no longer those its rounds have begun with.
Panic(s, p) ==
  LET t == session[s]
  IN  /\ \/ p \in t.starting /\ StartPanics(t, p)
         \/ AtLoop(t) /\ t.disturbed /\ p \in DOMAIN t.party /\ t.party[p].out # <<>>
      /\ down' = TRUE
      /\ UNCHANGED <<index, session, lost>>

\* A signature arrives on EndCh: the party is Done, and then the signature is stored
\* if it is the first.
Finish(s, p) ==
  /\ AtLoop(session[s])
  /\ p \in DOMAIN session[s].party
  /\ session[s].party[p].end
  /\ session' = [session EXCEPT ![s].party[p].end = FALSE, ![s].done = @ \cup {p}]
  /\ UNCHANGED <<index, lost, down>>

StoreSignature(s) ==
  /\ Running(session[s]) /\ ~AtLoop(session[s])
  /\ session' = [session EXCEPT ![s].signed = TRUE]
  /\ UNCHANGED <<index, lost, down>>

RouterEnds(s) ==
  /\ AtLoop(session[s])
  /\ session[s].done = ToSet(session[s].signers)
  /\ session' = [session EXCEPT ![s].router = "ended"]
  /\ UNCHANGED <<index, lost, down>>

-----------------------------------------------------------------------------
(* The monitor loop of executeSigning *)

Return(s, final) ==
  /\ session[s].watching
  /\ session' = [session EXCEPT ![s].watching = FALSE, ![s].status = final]
  /\ UNCHANGED <<index, lost, down>>

StartFailed(s) == session[s].errs > 0 /\ Return(s, "failed")

\* Mutant: the timer goes on when the loop has ended.
TimeoutLate(s) ==
  /\ session[s].status # "none"
  /\ session' = [session EXCEPT ![s].watching = FALSE, ![s].status = "failed"]
  /\ UNCHANGED <<index, lost, down>>

\* Three minutes have passed.
Timeout(s) == Return(s, "failed")

\* Mutant: the first signature is enough.
AllDoneFirst(s) == session[s].signed /\ Return(s, "completed")

AllDone(s) == Cardinality(session[s].done) >= Len(session[s].signers) /\ Return(s, "completed")

Next == /\ ~down
        /\ \E s \in SigningId :
             \/ CreateAndExecuteSigning(s)
             \/ \E p \in PartyId : StartParty(s, p) \/ RouteMessage(s, p) \/ Finish(s, p) \/ Panic(s, p)
             \/ StoreSignature(s) \/ RouterEnds(s) \/ StartFailed(s) \/ Timeout(s) \/ AllDone(s)

Spec == Init /\ [][Next]_vars

-----------------------------------------------------------------------------
(* Properties *)

TypeOK ==
  /\ index \in [PartyId -> 1..Len(KeygenParties)]
  /\ lost \in 0..MaxLost
  /\ down \in BOOLEAN
  /\ \A s \in SigningId :
       LET t == session[s]
       IN  /\ DOMAIN t = DOMAIN None
           /\ t.status \in {"none", "in_progress", "completed", "failed"}
           /\ t.signers \in SignerLists \cup {<<>>}
           /\ t.sorted = SortPartyIDs(t.signers)
           /\ t.party \in [ToSet(t.signers) -> PartySet(Len(KeygenParties))]
           /\ t.starting \cup t.done \subseteq ToSet(t.signers)
           /\ t.errs \in 0..Cardinality(ToSet(t.signers))
           /\ t.router \in {"off", "on", "ended"}
           /\ {t.watching, t.signed, t.disturbed} \subseteq BOOLEAN

\* A request is answered with success only when the signature is stored and as many
\* different parties as the threshold have signed under their own PartyIDs, and all
\* of those the request named, however the sessions disturb each other, although the
\* loop only looks at who is Done, which is written before the signature
\* (signing_service.go:265, 314-344).
CompletedIsSigned ==
  \A s \in SigningId :
     LET t == session[s]
     IN  t.status = "completed" => /\ t.done = ToSet(t.signers)
                                   /\ Cardinality(t.done) >= Threshold
                                   /\ t.signed /\ ~Mixed(t)

\* A session whose signers are given in the keygen order and which is not disturbed
\* is never stuck before all have signed, unless a Start or an Update fails or the
\* process ends; what another session with the same signers does makes no other
\* difference to it.
Untroubled(t) == /\ lost = 0 /\ ~t.disturbed
                 /\ t.sorted = t.signers /\ Cardinality(ToSet(t.signers)) = Len(t.signers)
                 /\ \A p \in ToSet(t.signers) : p \in t.starting \/ t.party[p].round > 0

NeverStalls ==
  \A s \in SigningId :
     LET t == session[s]
     IN  Running(t) /\ Untroubled(t) =>
           \/ t.starting # {} \/ ~AtLoop(t) \/ t.done = ToSet(t.signers)
           \/ \E p \in ToSet(t.signers) : t.party[p].out # <<>> \/ t.party[p].end

\* The status a request was answered with, and so whether GetSignature serves the
\* signature, is settled, whatever the router left behind does later.
Answered ==
  [][\A s \in SigningId : session[s].status \in {"completed", "failed"} =>
       session'[s].status = session[s].status]_vars

\* "deliverSigningMessage routes a message to recipients" (signing_service.go:358): a
\* message to one party is given to the party of that PartyID and to no other, the
\* sender included, whatever other sessions run.
MessagesReachRecipients ==
  [][\A s \in SigningId : \A p, q \in DOMAIN session[s].party :
       LET t == session[s]
           m == Head(t.party[p].out)
       IN  /\ t.party[p].out # <<>> /\ m.to # Everybody
           /\ session'[s].party[p].out = Tail(t.party[p].out)
           /\ session'[s].party[q].got # t.party[q].got
           => PartyIDOf(t, q) = t.sorted[m.to]]_vars
=============================================================================
