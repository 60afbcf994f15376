---------------------------- MODULE OrderJournal ----------------------------
(* What the durable order journal promises, whoever writes to it: the       *)
(* executor for triangular deals, the rebalancer for conversions.  An order *)
(* is sent at most once, only after it was recorded, and only by the one    *)
(* record that is active; a record the service retires itself holds no      *)
(* order that could still fill, and only the operator may set such a record *)
(* aside.                                                                   *)
CONSTANTS Deals, Labels

VARIABLES
    book,    \* per deal: none, active, retired or cleared
    phase    \* per deal and order: absent, intended, live or settled

vars == <<book, phase>>

Init ==
    /\ book = [d \in Deals |-> "none"]
    /\ phase = [d \in Deals |-> [l \in Labels |-> "absent"]]

Move(d, s)     == book' = [book EXCEPT ![d] = s] /\ UNCHANGED phase
Become(d, l, p) == phase' = [phase EXCEPT ![d][l] = p] /\ UNCHANGED book

\* A record is opened while no other one is active.
Open(d) ==
    /\ book[d] = "none" /\ \A e \in Deals : book[e] # "active"
    /\ Move(d, "active")

Intend(d, l) == book[d] = "active" /\ phase[d][l] = "absent" /\ Become(d, l, "intended")

\* An order is sent while no other order of its record is in doubt.
Send(d, l) ==
    /\ book[d] = "active" /\ phase[d][l] = "intended"
    /\ \A m \in Labels : phase[d][m] # "live"
    /\ Become(d, l, "live")

Settle(d, l) == phase[d][l] = "live" /\ Become(d, l, "settled")

Retire(d) ==
    /\ book[d] = "active" /\ \A l \in Labels : phase[d][l] # "live"
    /\ Move(d, "retired")

\* The operator's clear: whatever is known of the record's orders.
Clear(d) == book[d] = "active" /\ Move(d, "cleared")

Next == \E d \in Deals :
    \/ Open(d) \/ Retire(d) \/ Clear(d)
    \/ \E l \in Labels : Intend(d, l) \/ Send(d, l) \/ Settle(d, l)

Spec == Init /\ [][Next]_vars
=============================================================================
