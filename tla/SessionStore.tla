---------------------------- MODULE SessionStore ----------------------------
(***************************************************************************)
(* What the session endpoints of the relay promise.  Every request takes   *)
(* effect in one step, on the session as it is at that moment, with one    *)
(* exception the code allows: while a session is "exposed" (a request holds *)
(* a copy of it that is out of date) it can be overwritten by some other    *)
(* well-formed session, or come back after it was removed.                 *)
(***************************************************************************)
EXTENDS SessionRecord

CONSTANTS Session,       \* the session ids
          PartyLists     \* the party lists clients create sessions with

VARIABLES session,  \* session id -> SessionRec, or NoSession
          exposed   \* the sessions some request holds an outdated copy of

vars == <<session, exposed>>

Live(s) == session[s] # NoSession

Set(s, ses) == session' = [session EXCEPT ![s] = ses]

Init == /\ session = [s \in Session |-> NoSession]
        /\ exposed = {}

Create(s) == /\ ~Live(s)
             /\ \E parties \in PartyLists : Set(s, NewSession(parties))

Join(s) == /\ Live(s)
           /\ \E d \in Device : /\ MayJoin(session[s], d)
                                /\ Set(s, WithJoined(session[s], d))

Patch(s) == /\ Live(s)
            /\ \E status \in PatchStatus, round \in 0..MaxRound :
                  Set(s, WithPatch(session[s], status, round))

Remove(s) == Live(s) /\ Set(s, NoSession)

Overwrite(s) == /\ s \in exposed
                /\ session'[s] \in SessionRec
                /\ WellFormed(session'[s])
                /\ Set(s, session'[s])

Next == \/ \E s \in Session : Create(s) \/ Join(s) \/ Patch(s) \/ Remove(s) \/ Overwrite(s)
        \/ UNCHANGED session

Spec == Init /\ [][Next]_vars
=============================================================================
