------------------------------- MODULE Outbox -------------------------------
(* What the trade reports promise (README.md, "Telegram operations"): a trade *)
(* once counted stays counted; its report leaves the queue only after it was  *)
(* told at least once; what is counted silently is never told.                *)
EXTENDS Naturals

CONSTANT Trades

VARIABLES counted, queue, told

vars == <<counted, queue, told>>

Init == counted = {} /\ queue = {} /\ told = [t \in Trades |-> 0]

CountSilently(t) ==
    /\ t \notin counted /\ counted' = counted \cup {t} /\ UNCHANGED <<queue, told>>

Report(t) ==
    /\ t \notin counted /\ counted' = counted \cup {t} /\ queue' = queue \cup {t}
    /\ UNCHANGED told

Tell(t) == t \in queue /\ told' = [told EXCEPT ![t] = @ + 1] /\ UNCHANGED <<counted, queue>>

Dequeue(t) ==
    /\ t \in queue /\ told[t] > 0 /\ queue' = queue \ {t} /\ UNCHANGED <<counted, told>>

Next == \E t \in Trades : CountSilently(t) \/ Report(t) \/ Tell(t) \/ Dequeue(t)

Spec == Init /\ [][Next]_vars
=============================================================================
