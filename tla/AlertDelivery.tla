----------------------------- MODULE AlertDelivery -----------------------------
(***************************************************************************)
(* What the event forwarder promises of the alerts in eve.json, however it *)
(* does it: every alert is delivered at least once, or waits in a buffer   *)
(* on disk, or is counted as lost, before the forwarder commits to never   *)
(* reading it again; and an alert leaves the buffer for one of the other   *)
(* two only.  EventForwarder implements it.                                *)
(***************************************************************************)
EXTENDS Naturals

CONSTANTS
    Alerts,         \* lines of eve.json, by their number
    Wanted,         \* those that are to be delivered
    SameAlert(_, _) \* whether two lines say the same

VARIABLES
    committed,      \* the lines up to this one are not read again
    buffer,         \* alerts that wait on disk
    received,       \* alerts that have been delivered, once or more often
    lost            \* alerts that were given up

vars == <<committed, buffer, received, lost>>

Init == committed = 0 /\ buffer = {} /\ received = {} /\ lost = {}

Deliver ==
    /\ \E a \in Alerts : received' = received \cup {a}
    /\ UNCHANGED <<committed, buffer, lost>>

\* An alert that could not be delivered waits, and may take the room of others.
Buffer ==
    /\ \E a \in Alerts : \E out \in SUBSET buffer :
          /\ buffer' = (buffer \ out) \cup {a}
          /\ lost' = lost \cup out
    /\ UNCHANGED <<committed, received>>

\* What was delivered need not wait.
Release ==
    /\ \E out \in SUBSET (buffer \cap received) : buffer' = buffer \ out
    /\ UNCHANGED <<committed, received, lost>>

\* The buffer goes with a crash.
LoseBuffer ==
    /\ buffer' = {} /\ lost' = lost \cup buffer
    /\ UNCHANGED <<committed, received>>

SettledIn(a, S) == \E b \in S : SameAlert(a, b)

\* Lines may be given up on the way; an old commitment may be forgotten.
Commit ==
    /\ \E n \in Alerts \cup {0}, out \in SUBSET Alerts :
          /\ lost' = lost \cup out
          /\ \A a \in Wanted :
                a <= n => SettledIn(a, received \cup buffer \cup lost')
          /\ committed' = n
    /\ UNCHANGED <<buffer, received>>

Forget == committed' = 0 /\ UNCHANGED <<buffer, received, lost>>

Next == Deliver \/ Buffer \/ Release \/ LoseBuffer \/ Commit \/ Forget

Spec == Init /\ [][Next]_vars
=============================================================================
