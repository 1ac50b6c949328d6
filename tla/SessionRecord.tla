--------------------------- MODULE SessionRecord ---------------------------
(***************************************************************************)
(* The relay session as the relay stores it (relay/types.go, RelaySession) *)
(* and the three changes the handlers make to a copy of it.  The session   *)
(* type, the threshold and the timestamps are copied through and never     *)
(* read by the relay, so they are left out.                                *)
(***************************************************************************)
EXTENDS Naturals, Sequences

CONSTANTS Device,     \* the device ids
          NoSession,  \* what GetSession finds under a key that is not there
          MaxRound,   \* bound: the highest round a client reports
          PatchStatus \* what clients PATCH a status with, "" for none; any string will do

ASSUME MaxRoundAssumption == MaxRound \in Nat

\* The statuses a session can have: types.go names four, but only these two are
\* set by the relay, and a PATCH stores whatever it is sent.
Status == {"waiting", "in_progress"} \cup (PatchStatus \ {""})

SessionRec == [parties : Seq(Device),
               joined  : Seq(Device),
               status  : Status,
               round   : 0..MaxRound]

ASSUME NoSessionAssumption == NoSession \notin SessionRec

Members(seq) == {seq[i] : i \in DOMAIN seq}

\* No duplicate among the joined parties, and nobody but a party among them.
WellFormed(ses) ==
  /\ \A i, j \in DOMAIN ses.joined : ses.joined[i] = ses.joined[j] => i = j
  /\ Members(ses.joined) \subseteq Members(ses.parties)

NewSession(parties) ==
  [parties |-> parties, joined |-> <<>>, status |-> "waiting", round |-> 0]

\* Mutant: without the already-joined check.
MayJoinAgain(ses, d) == d \in Members(ses.parties)

\* The party check and the already-joined check, both on the same copy.
MayJoin(ses, d) ==
  /\ d \in Members(ses.parties)
  /\ d \notin Members(ses.joined)

\* Mutant: the count is taken before the party is appended.
WithJoinedLate(ses, d) ==
  [ses EXCEPT !.joined = Append(@, d),
              !.status = IF Len(ses.joined) = Len(ses.parties)
                         THEN "in_progress" ELSE @]

\* The counts are compared, not the members, and the status is overwritten
\* whatever it was.
WithJoined(ses, d) ==
  [ses EXCEPT !.joined = Append(@, d),
              !.status = IF Len(ses.joined) + 1 = Len(ses.parties)
                         THEN "in_progress" ELSE @]

\* Mutant: the round is added, not assigned.
WithPatchAdded(ses, status, round) ==
  [ses EXCEPT !.status = IF status # "" THEN status ELSE @,
              !.round  = IF round > 0 THEN @ + round ELSE @]

\* An empty status and a zero round mean "leave it".
WithPatch(ses, status, round) ==
  [ses EXCEPT !.status = IF status # "" THEN status ELSE @,
              !.round  = IF round > 0 THEN round ELSE @]
=============================================================================
