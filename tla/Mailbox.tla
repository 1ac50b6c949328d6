------------------------------ MODULE Mailbox ------------------------------
(***************************************************************************)
(* What devices may rely on of the relay's messages, one step an event: a    *)
(* message is put into its recipient's mailbox once, and a poll finds it     *)
(* there until it is acknowledged or its time is over, not a moment less.    *)
(* Who is told that a message is acknowledged does not see it again.  A      *)
(* command on a mailbox that fails unseen spoils it: nothing is promised of  *)
(* it any more.  A message can be lost while it is being sent, and then never *)
(* comes; one that waits in a mailbox is not lost.                            *)
(***************************************************************************)
EXTENDS Naturals

CONSTANTS
  Id,      \* the messages, one for each recipient
  Device,  \* the recipients
  TTL      \* how long a message stays

VARIABLES
  now,     \* the time
  open,    \* the messages that may still come
  pending, \* those that wait to be acknowledged, with their ends
  acked,   \* those that somebody was told are acknowledged
  spoiled, \* the devices whose mailbox a command has failed on
  lost     \* the messages that were lost on their way

vars == <<now, open, pending, acked, spoiled, lost>>

Waiting(m) == \E p \in pending : p.id = m

Init == /\ now = 0 /\ open = Id /\ pending = {}
        /\ acked = {} /\ spoiled = {} /\ lost = {}

\* The send of a message is answered, perhaps those of others with it.
Put(m) == /\ UNCHANGED <<now, acked, spoiled, lost>>
          /\ m \in open \ (acked \cup lost)
          /\ \E p \in pending' \cap [id : {m}, to : Device \ spoiled, end : (now + 1)..(now + TTL)] :
               pending' = pending \cup {p}
          /\ open' \subseteq open \ {m}

\* Sends are refused, fail, or come too late.
GiveUp == /\ UNCHANGED <<now, acked, spoiled, lost, pending>>
          /\ open' \subseteq open

Acknowledge(m) == /\ UNCHANGED <<now, acked, spoiled, lost>>
                  /\ pending' = {p \in pending : p.id # m}
                  /\ UNCHANGED open

Spoil(d) == /\ spoiled' = spoiled \cup {d}
            /\ pending' = {p \in pending : p.to # d}

Fail(d) == UNCHANGED <<now, acked, open, lost>> /\ Spoil(d)

\* The answer does not tell whether the id could be taken out.
Confirm(m) == /\ acked' = acked \cup {m}
              /\ UNCHANGED <<now, open, lost>>
              /\ ~Waiting(m)
              /\ UNCHANGED <<spoiled, pending>> \/ \E d \in Device : Spoil(d)

Tick == /\ now' = now + 1
        /\ UNCHANGED <<acked, spoiled, open>>
        /\ pending' = {p \in pending : p.end > now + 1}
        /\ lost \subseteq lost' /\ \A m \in lost' \ lost : ~Waiting(m)

Next == \/ GiveUp \/ Tick
        \/ \E m \in Id : Put(m) \/ Acknowledge(m) \/ Confirm(m)
        \/ \E d \in Device : Fail(d)

Spec == Init /\ [][Next]_vars
=============================================================================
