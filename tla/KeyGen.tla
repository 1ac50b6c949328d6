------------------------------- MODULE KeyGen -------------------------------
(***************************************************************************)
(* A key generation (keygen_service.go): the request creates all the local  *)
(* parties, starts each of them in a goroutine, and watches them; another   *)
(* goroutine routes their messages.  Sessions share nothing, so this is one. *)
(*                                                                         *)
(* A step is one call into a party, one iteration of the router's loop for   *)
(* one party, or one of the request's.  What the router stores when a party    *)
(* has finished are two writes without a lock that the request reads between,  *)
(* so they are two steps.                                                    *)
(***************************************************************************)
EXTENDS TssLib, FiniteSets

CONSTANTS
  PartyId,     \* the party names
  PartyLists,  \* the party lists requests come with
  Threshold,   \* the threshold of the request
  MaxLost      \* bound: the Updates that fail

ASSUME ListsAssumption ==
  \A list \in PartyLists : list \in Seq(PartyId) /\ Len(list) >= 2

ASSUME BoundAssumption == MaxLost \in Nat /\ Threshold \in Nat

VARIABLES
  list,      \* the session's party list
  status,    \* the session's status
  party,     \* the local parties, by party name
  starting,  \* the parties whose goroutine has not called Start
  errs,      \* the errors in errChan
  router,    \* the router: "off", "on" or "ended"
  watching,  \* the request is in its monitor loop
  saved,     \* the parties whose share is stored in SaveData
  done,      \* the parties that are Done
  lost       \* the Updates that have failed

session == <<list, status, watching>>
vars    == <<session, party, starting, errs, router, saved, done, lost>>

Ids == ToSet(list)

\* partyIdToIdx, from 1: with a name given twice the later one counts, and the
\* later local party replaces the earlier.
SlotOf(p) == CHOOSE i \in DOMAIN list : list[i] = p /\ \A j \in DOMAIN list : list[j] = p => j <= i

Init == /\ list = <<>>
        /\ status = "none"
        /\ party = <<>>
        /\ starting = {}
        /\ errs = 0
        /\ router = "off"
        /\ watching = FALSE
        /\ saved = {}
        /\ done = {}
        /\ lost = 0

-----------------------------------------------------------------------------
\* CreateAndInitSession: one local party per name, all or nothing.
CreateAndInitSession ==
  /\ status = "none"
  /\ list' \in {l \in PartyLists : 2 <= Threshold /\ Threshold <= Len(l)}
  /\ party' = [p \in ToSet(list') |-> NewParty]
  /\ status' = "initialized"
  /\ UNCHANGED <<starting, errs, router, watching, saved, done, lost>>

\* ExecuteKeyGen up to its loop.
ExecuteKeyGen ==
  /\ status = "initialized"
  /\ status' = "in_progress"
  /\ starting' = Ids
  /\ router' = "on"
  /\ watching' = TRUE
  /\ UNCHANGED <<list, party, errs, saved, done, lost>>

\* Mutant: the goroutine starts its party over and over.
StartPartyAgain(p) ==
  /\ p \in starting
  /\ errs' = errs + 1
  /\ UNCHANGED <<session, party, starting, router, saved, done, lost>>

StartParty(p) ==
  /\ p \in starting
  /\ starting' = starting \ {p}
  /\ \/ /\ party' = [party EXCEPT ![p] = Started(@, SlotOf(p), Len(list))]
        /\ UNCHANGED errs
     \/ /\ errs' = errs + 1
        /\ UNCHANGED party
  /\ UNCHANGED <<session, router, saved, done, lost>>

-----------------------------------------------------------------------------
(* routeMessages *)

\* Mutant: the index of the PartyID is taken to count from 0.
AddresseesOff(p, m) ==
  IF m.to = Everybody THEN Ids \ {p} ELSE {q \in Ids : SlotOf(q) = (m.to % Len(list)) + 1}

\* deliverMessage: everybody else, or the party at the index of the PartyID.
Addressees(p, m) ==
  IF m.to = Everybody THEN Ids \ {p} ELSE {q \in Ids : SlotOf(q) = m.to}

\* The router is not between the two stores of Finish.
AtLoop == router = "on" /\ saved = done

\* The error of an Update is printed, and the message is gone for that party.
RouteMessage(p) ==
  /\ AtLoop
  /\ party[p].out # <<>>
  /\ LET m == Head(party[p].out)
         to == Addressees(p, m)
     IN  \E failed \in SUBSET to :
           /\ lost + Cardinality(failed) <= MaxLost
           /\ lost' = lost + Cardinality(failed)
           /\ party' = [q \in Ids |->
                          IF q = p THEN [party[q] EXCEPT !.out = Tail(@)]
                          ELSE IF q \in to \ failed
                               THEN Updated(party[q], Kept(m, SlotOf(p)), SlotOf(q), Len(list))
                               ELSE party[q]]
  /\ UNCHANGED <<session, starting, errs, router, saved, done>>

\* The share arrives on EndCh and is stored, and then the party is Done.
Save(p) ==
  /\ AtLoop
  /\ party[p].end
  /\ party' = [party EXCEPT ![p].end = FALSE]
  /\ saved' = saved \cup {p}
  /\ UNCHANGED <<session, starting, errs, router, done, lost>>

Mark(p) ==
  /\ router = "on"
  /\ p \in saved \ done
  /\ done' = done \cup {p}
  /\ UNCHANGED <<session, party, starting, errs, router, saved, lost>>

\* Mutant: the party is Done before its share is stored.
FinishBackwards(p) ==
  \/ /\ AtLoop
     /\ party[p].end
     /\ party' = [party EXCEPT ![p].end = FALSE]
     /\ done' = done \cup {p}
     /\ UNCHANGED <<session, starting, errs, router, saved, lost>>
  \/ /\ p \in done \ saved
     /\ saved' = saved \cup {p}
     /\ UNCHANGED <<session, party, starting, errs, router, done, lost>>

Finish(p) == Save(p) \/ Mark(p)

RouterEnds ==
  /\ AtLoop /\ done = Ids
  /\ router' = "ended"
  /\ UNCHANGED <<session, party, starting, errs, saved, done, lost>>

-----------------------------------------------------------------------------
(* ExecuteKeyGen's monitor loop.  It returns on the first of these; the router *)
(* and the parties go on regardless.                                           *)

Return(final) ==
  /\ watching
  /\ watching' = FALSE
  /\ status' = final
  /\ UNCHANGED <<list, party, starting, router, saved, done, lost>>

StartFailed == errs > 0 /\ errs' = errs - 1 /\ Return("failed")

\* Mutant: the timer goes on when the loop has ended.
TimeoutLate ==
  /\ status # "none" /\ status' = "failed" /\ watching' = FALSE
  /\ UNCHANGED <<list, party, starting, errs, router, saved, done, lost>>

\* Mutant: the loop waits for an error or the last party only.
TimeoutNever == errs > 0 /\ UNCHANGED errs /\ Return("failed")

\* Five minutes have passed, whatever the parties have done.
Timeout == Return("failed") /\ UNCHANGED errs

AllDone == Cardinality(done) >= Len(list) /\ Return("completed") /\ UNCHANGED errs

Next == \/ CreateAndInitSession \/ ExecuteKeyGen
        \/ \E p \in Ids : StartParty(p) \/ RouteMessage(p) \/ Finish(p)
        \/ RouterEnds \/ StartFailed \/ Timeout \/ AllDone

Spec == Init /\ [][Next]_vars

\* The goroutines are scheduled, and the request's timer ends.
Fairness == /\ WF_vars(StartFailed \/ Timeout \/ AllDone)
            /\ WF_vars(RouterEnds)
            /\ \A p \in PartyId : WF_vars(p \in Ids /\ (StartParty(p) \/ RouteMessage(p) \/ Finish(p)))

FairSpec == Spec /\ Fairness

-----------------------------------------------------------------------------
(* Properties *)

TypeOK ==
  /\ list \in Seq(PartyId)
  /\ status \in {"none", "initialized", "in_progress", "completed", "failed"}
  /\ party \in [Ids -> PartySet(Len(list))]
  /\ starting \subseteq Ids
  /\ errs \in 0..Cardinality(Ids)
  /\ router \in {"off", "on", "ended"}
  /\ watching \in BOOLEAN
  /\ saved \subseteq Ids /\ done \subseteq Ids
  /\ lost \in 0..MaxLost

\* A completed session holds the share of every party of the request, although the
\* loop that completes it only looks whether the parties are Done, between any two
\* stores of the router (keygen_service.go:241, 292-293; a signing needs the share
\* of whoever it is asked to sign with).
CompletedHasShares ==
  status = "completed" => saved = Ids /\ Cardinality(Ids) = Len(list)

\* As long as no Start and no Update fails and the names differ, the protocol is
\* never stuck before everybody is done, whatever the order in which goroutines
\* start and the router serves them: messages that reach a party before its Start,
\* or a round ahead, are not lost.
Untroubled == lost = 0 /\ Cardinality(Ids) = Len(list)
              /\ \A p \in Ids : p \in starting \/ party[p].round > 0

NeverStalls ==
  router = "on" /\ Untroubled =>
    starting # {} \/ saved # done \/ done = Ids \/ \E p \in Ids : party[p].out # <<>> \/ party[p].end

\* The status a request was answered with is the status for good, whatever the
\* router and the parties it has left behind do later.
Answered == [][(status \in {"completed", "failed"}) => (status' = status)]_vars

\* Every execution ends, with everybody done or by an error or the timeout.
Executes == status = "in_progress" ~> status \in {"completed", "failed"}
=============================================================================
