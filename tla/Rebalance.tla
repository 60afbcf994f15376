------------------------------ MODULE Rebalance ------------------------------
(* Allocation maintenance (rebalance.py): one process converting holdings in *)
(* runs, each with a durable record.  A run first restores the BNB reserve if *)
(* it is low, then consolidates holdings one conversion after the other; a   *)
(* conversion is a path of FOK orders.  With it the entry gate of the main    *)
(* loop, the operator, the exchange, crashes and restarts.  What a conversion *)
(* is worth is left out; what becomes of its orders is kept.                  *)
EXTENDS Integers

CONSTANTS
    MaxRuns,         \* bound: maintenance runs
    MaxConversions,  \* bound: holdings consolidated in a run
    MaxHops,         \* conversion_path's max_hops
    MaxLong          \* bound: of the runs, the first ones take paths of several orders

ASSUME BoundsAssumption == {MaxRuns, MaxConversions, MaxLong} \subseteq Nat /\ MaxHops \in Nat \ {0}

Runs      == 1..MaxRuns
MaxOrders == (MaxConversions + 1) * MaxHops
Orders    == 1..MaxOrders

VARIABLES
    control, clearAt,               \* the control file
    pc, run, task, left, hops, exc, \* memory of the process
    place, status, orders, count,   \* the durable records: count orders so far,
    failures,                       \* and whether conversions were refused
    ex,                             \* the exchange
    late, heard                     \* history: orders sent while paused, last refusal noted

operator == <<control, clearAt>>
walk     == <<pc, run, task, left, hops, exc>>
files    == <<place, status, orders, count, failures>>
history  == <<late, heard>>
vars     == <<operator, walk, files, ex, history>>

Waiting == {"await", "resolve"}

Gate == \A r \in Runs : place[r] # "active"
Last == count[run]

\* An order may only be journaled while running (mutant: only the first one looks).
AllowedFirst == Last = 0 => control = "running"
Allowed      == control = "running"

\* The exception left an order whose fate nobody knows (mutant: it is taken for refused).
DoubtfulNever == FALSE
Doubtful      == Last > 0 /\ orders[run][Last] = "SUBMITTING" /\ exc = "other"

-----------------------------------------------------------------------------
Init ==
    /\ control = "running" /\ clearAt = FALSE
    /\ pc = "idle" /\ run = 0 /\ task = "none" /\ left = 0 /\ hops = 0 /\ exc = "none"
    /\ place = [r \in Runs |-> "none"]
    /\ status = [r \in Runs |-> "NONE"]
    /\ orders = [r \in Runs |-> [k \in Orders |-> "none"]]
    /\ count = [r \in Runs |-> 0]
    /\ failures = [r \in Runs |-> FALSE]
    /\ ex = [r \in Runs |-> [k \in Orders |-> "none"]]
    /\ late = 0 /\ heard = [r \in Runs |-> 0]

\* The process leaves run: its memory of it is gone.
Leave(p) == pc' = p /\ run' = 0 /\ task' = "none" /\ left' = 0 /\ hops' = 0 /\ exc' = "none"

Goto(p) == pc' = p /\ UNCHANGED <<run, task, left, hops, exc>>

\* The process moves on and changes nothing else.
Step(p) == Goto(p) /\ UNCHANGED <<operator, files, ex, history>>

\* A definite Binance error, or anything else.
Raise(e) == pc' = "raise" /\ exc' = e /\ UNCHANGED <<run, task, left, hops>>

\* _convert returns.
EndConversion ==
    /\ pc' = IF task = "reserve" THEN "recheck" ELSE "next"
    /\ hops' = 0 /\ UNCHANGED <<run, task, left, exc>>

Mark(k, s)   == orders' = [orders EXCEPT ![run][k] = s]
SetStatus(s) == status' = [status EXCEPT ![run] = s]

-----------------------------------------------------------------------------
(* The main loop's maintenance step and the plan of a run.                  *)

\* Nothing active, not paused, and something to do: the intent is saved.
StartRun ==
    /\ pc = "idle" /\ ~clearAt /\ control = "running" /\ Gate
    /\ \E r \in Runs :
        /\ place[r] = "none" /\ \A s \in Runs : s < r => place[s] # "none"
        /\ run' = r
        /\ place' = [place EXCEPT ![r] = "active"]
        /\ status' = [status EXCEPT ![r] = "INTENT"]
    /\ left' \in 0..MaxConversions
    /\ \/ pc' = "convert" /\ task' = "reserve"
       \/ pc' = "next" /\ task' = "cleanup"
    /\ UNCHANGED <<hops, exc>>
    /\ UNCHANGED <<operator, orders, count, failures, ex, history>>

\* A valuation, a balance or a commission request fails; a book is stale, a price
\* moved, the reserve would fall below its floor, the reserve cannot be funded or is
\* still low, the service was paused.
RequestFails ==
    /\ pc \in {"convert", "hop", "credit", "recheck", "next", "wrap"}
    /\ \E e \in {"binance", "other"} : Raise(e)
    /\ UNCHANGED <<operator, files, ex, history>>

\* Mutant: a holding that cannot be converted now is put back.
SkipAgain ==
    /\ pc = "convert"
    /\ \/ task = "reserve" /\ pc' = "recheck" /\ left' = left
       \/ task = "cleanup" /\ pc' = "next" /\ left' = left + 1
    /\ UNCHANGED <<run, task, hops, exc>>
    /\ UNCHANGED <<operator, files, ex, history>>

\* No permitted path, or an amount the filters refuse: noted and skipped.
SkipConversion ==
    /\ pc = "convert"
    /\ EndConversion
    /\ UNCHANGED <<operator, files, ex, history>>

BeginConversion ==
    /\ pc = "convert"
    /\ pc' = "hop" /\ hops' \in IF run <= MaxLong THEN 1..MaxHops ELSE {1}
    /\ UNCHANGED <<run, task, left, exc>>
    /\ UNCHANGED <<operator, files, ex, history>>

\* The snapshot after the reserve's conversion shows it restored.
ReserveRestored ==
    /\ pc = "recheck"
    /\ pc' = "next" /\ task' = "cleanup" /\ UNCHANGED <<run, left, hops, exc>>
    /\ UNCHANGED <<operator, files, ex, history>>

\* Each holding is planned anew; it may be gone or retained by now.
NextHolding ==
    /\ pc = "next" /\ left > 0
    /\ left' = left - 1
    /\ pc' \in {"convert", "next"}
    /\ UNCHANGED <<run, task, hops, exc>>
    /\ UNCHANGED <<operator, files, ex, history>>

PlanDone ==
    /\ pc = "next" /\ left = 0
    /\ Step("wrap")

\* Refused conversions, or holdings still to consolidate, make the run partial.
WrapUp ==
    /\ pc = "wrap"
    /\ SetStatus("PARTIAL") \/ (~failures[run] /\ SetStatus("COMPLETE"))
    /\ Goto("retire")
    /\ UNCHANGED <<operator, place, orders, count, failures, ex, history>>

-----------------------------------------------------------------------------
(* One order of a conversion.                                               *)

\* The account may not trade the symbol, says the commission request: the conversion
\* is dropped, the run goes on.
Restricted ==
    /\ pc = "hop"
    /\ failures' = [failures EXCEPT ![run] = TRUE]
    /\ EndConversion
    /\ UNCHANGED <<operator, place, status, orders, count, ex, history>>

\* The record of the order is saved, SUBMITTING; or its save fails.
Journal ==
    /\ pc = "hop" /\ Allowed
    /\ count' = [count EXCEPT ![run] = @ + 1]
    /\ Mark(Last + 1, "SUBMITTING")
    /\ Goto("send") \/ Raise("other")
    /\ UNCHANGED <<operator, place, status, failures, ex, history>>

Send ==
    /\ pc = "send"
    /\ ex' = [ex EXCEPT ![run][Last] = "wire"]
    /\ late' = IF control = "paused" THEN late + 1 ELSE late
    /\ Goto("await")
    /\ UNCHANGED <<operator, files, heard>>

\* The answer, or the lookup, shows the order terminal.
ReadFill ==
    /\ pc \in Waiting /\ ex[run][Last] = "done"
    /\ Mark(Last, "CLOSED")
    /\ Goto("account")
    /\ UNCHANGED <<operator, place, status, count, failures, ex, history>>

\* Mutants: the order is not marked, or the failure is not noted.
RestrictedUnmarked == orders' = orders /\ failures' = [failures EXCEPT ![run] = TRUE]
RestrictedUnnoted  == Mark(Last, "REJECTED") /\ failures' = failures

\* _record_restricted_conversion for an order the exchange refused.
RestrictedNoted == Mark(Last, "REJECTED") /\ failures' = [failures EXCEPT ![run] = TRUE]

\* The exchange refused the order for the account's permissions: only this conversion
\* ends, unless the save of what was noted fails.
ReadRestricted ==
    /\ pc = "await" /\ ex[run][Last] = "refused"
    /\ RestrictedNoted
    /\ EndConversion \/ Raise("other")
    /\ heard' = [heard EXCEPT ![run] = Last]
    /\ UNCHANGED <<operator, place, status, count, ex, late>>

\* The save of the blocked symbol, made before anything is noted, fails.
BlockFails ==
    /\ pc = "await" /\ ex[run][Last] = "refused"
    /\ Raise("other")
    /\ UNCHANGED <<operator, files, ex, history>>

\* It refused the order for another reason, rate limits included: the run ends.
ReadRejection ==
    /\ pc = "await" /\ ex[run][Last] = "refused"
    /\ Raise("binance")
    /\ UNCHANGED <<operator, files, ex, history>>

\* Mutant: a lost answer or a 5xx counts as a refusal.
TimeoutRefused ==
    /\ pc = "await"
    /\ Raise("binance")
    /\ UNCHANGED <<operator, files, ex, history>>

Timeout ==
    /\ pc = "await"
    /\ Step("resolve")

GiveUp ==
    /\ pc = "resolve"
    /\ Step("ambiguous")

IdentityMismatch ==
    /\ pc \in Waiting /\ ex[run][Last] = "done"
    /\ Mark(Last, "CLOSED")
    /\ Goto("ambiguous")
    /\ UNCHANGED <<operator, place, status, count, failures, ex, history>>

\* The answer does not parse (the record says SUBMITTING), or its save fails.
LocalFault ==
    /\ pc = "await" /\ ex[run][Last] = "done"
    /\ Mark(Last, "CLOSED") \/ UNCHANGED orders
    /\ Raise("other")
    /\ UNCHANGED <<operator, place, status, count, failures, ex, history>>

\* Nothing filled, the fill overspent its budget, another commission asset, a failed save.
FillUnusable ==
    /\ pc = "account"
    /\ Raise("other")
    /\ UNCHANGED <<operator, files, ex, history>>

Book ==
    /\ pc = "account"
    /\ Step("credit")

\* The output is credited: on with the path, or the conversion is done.
Settled ==
    \/ hops > 1 /\ pc' = "hop" /\ hops' = hops - 1 /\ UNCHANGED <<run, task, left, exc>>
    \/ hops = 1 /\ EndConversion

CreditSettles ==
    /\ pc = "credit"
    /\ Settled
    /\ UNCHANGED <<operator, files, ex, history>>

CreditMissing ==
    /\ pc = "credit"
    /\ Step("ambiguous")

-----------------------------------------------------------------------------
(* The ends of a run.  Its exceptions are caught by the main loop.          *)

\* The record stays active, with its outcome unless that save fails.
HandleAmbiguous ==
    /\ pc = "ambiguous"
    /\ SetStatus("RECOVERY_REQUIRED") \/ UNCHANGED status
    /\ Leave("idle")
    /\ UNCHANGED <<operator, place, orders, count, failures, ex, history>>

\* "Unknown local/transport failures must never retire an active order."
HandleDoubt ==
    /\ pc = "raise" /\ Doubtful
    /\ SetStatus("RECOVERY_REQUIRED") \/ UNCHANGED status
    /\ Leave("idle")
    /\ UNCHANGED <<operator, place, orders, count, failures, ex, history>>

HandleFailure ==
    /\ pc = "raise" /\ ~Doubtful
    /\ IF Last > 0 /\ orders[run][Last] = "SUBMITTING" THEN Mark(Last, "REJECTED")
                                                       ELSE UNCHANGED orders
    /\ SetStatus("PARTIAL")
    /\ Goto("retire")
    /\ UNCHANGED <<operator, place, count, failures, ex, history>>

\* finish moves the record, or raises before it does.
Finish ==
    /\ pc = "retire"
    /\ place' = [place EXCEPT ![run] = "archived"] \/ UNCHANGED place
    /\ Leave("idle")
    /\ UNCHANGED <<operator, status, orders, count, failures, ex, history>>

-----------------------------------------------------------------------------
(* The operator's clear, crashes and restarts.                              *)

LoopClear ==
    /\ pc = "idle" /\ clearAt
    /\ place' = [r \in Runs |-> IF place[r] = "active" THEN "archived" ELSE place[r]]
    /\ status' = [r \in Runs |-> IF place[r] = "active" THEN "OPERATOR_CLEARED" ELSE status[r]]
    /\ Goto("clearing")
    /\ UNCHANGED <<operator, orders, count, failures, ex, history>>

ConsumeClear ==
    /\ pc = "clearing"
    /\ control' = "paused" /\ clearAt' = FALSE
    /\ Goto("idle")
    /\ UNCHANGED <<files, ex, history>>

Crash ==
    /\ pc # "dead"
    /\ Leave("dead")
    /\ UNCHANGED <<operator, files, ex, history>>

Restart ==
    /\ pc = "dead"
    /\ Step("idle")

Pause ==
    /\ control = "running"
    /\ control' = "paused"
    /\ UNCHANGED <<clearAt, walk, files, ex, history>>

Resume ==
    /\ control = "paused" \/ clearAt
    /\ control' = "running" /\ clearAt' = FALSE /\ late' = 0
    /\ UNCHANGED <<walk, files, ex, heard>>

RequestClear ==
    /\ ~clearAt
    /\ control' = "paused" /\ clearAt' = TRUE
    /\ UNCHANGED <<walk, files, ex, history>>

\* A FOK order that the exchange takes is final at once, filled or expired.
Accept(r, k) ==
    /\ ex[r][k] = "wire"
    /\ \E s \in {"done", "refused", "lost"} : ex' = [ex EXCEPT ![r][k] = s]
    /\ UNCHANGED <<operator, walk, files, history>>

-----------------------------------------------------------------------------
Plan    == StartRun \/ RequestFails \/ SkipConversion \/ BeginConversion \/ ReserveRestored
           \/ NextHolding \/ PlanDone \/ WrapUp
Convert == Restricted \/ Journal \/ Send \/ ReadFill \/ ReadRestricted \/ BlockFails
           \/ ReadRejection \/ Timeout \/ GiveUp \/ IdentityMismatch \/ LocalFault
           \/ FillUnusable \/ Book \/ CreditSettles \/ CreditMissing
End     == HandleAmbiguous \/ HandleDoubt \/ HandleFailure \/ Finish \/ LoopClear
           \/ ConsumeClear \/ Restart

Process  == Plan \/ Convert \/ End
Operator == Pause \/ Resume \/ RequestClear
Exchange == \E r \in Runs, k \in Orders : Accept(r, k)

Next == Process \/ Crash \/ Operator \/ Exchange
Spec == Init /\ [][Next]_vars

\* As for the executor: the service runs and is restarted, nothing else is fair.
FairSpec == Spec /\ WF_vars(Process)

-----------------------------------------------------------------------------
(* Properties.                                                              *)

\* What a retired record says of its orders is what became of them: none is left
\* undecided, and one called rejected was never taken.
RecordTruthful == \A r \in Runs, k \in Orders :
    /\ orders[r][k] = "REJECTED" => ex[r][k] = "refused"
    /\ place[r] = "archived" /\ status[r] # "OPERATOR_CLEARED" => orders[r][k] # "SUBMITTING"

\* "Only a definitive account-permission rejection is safe to skip": having skipped it,
\* no later failure makes the record look as if that order were in doubt.
SkipDoesNotStop == \A r \in Runs :
    status[r] = "RECOVERY_REQUIRED" => count[r] > 0 /\ heard[r] < count[r]

\* A run counts as complete only if none of its orders was refused.
CompleteMeansDone == \A r \in Runs, k \in Orders :
    status[r] = "COMPLETE" => orders[r][k] \in {"none", "CLOSED"}

\* After an operator pause at most the one order already journaled leaves, wherever in
\* a path of conversions the run is.
PauseRespected == late <= 1

\* Every run ends, whatever the exchange answers.
RunEnds == \A r \in Runs : run = r ~> run # r

-----------------------------------------------------------------------------
(* The runs' records as an order journal.                                   *)

BookOf(r) == IF place[r] # "archived" THEN place[r]
             ELSE IF status[r] = "OPERATOR_CLEARED" THEN "cleared" ELSE "retired"

PhaseOf(r, k) == IF orders[r][k] = "none" THEN "absent"
                 ELSE IF ex[r][k] = "none" THEN "intended"
                 ELSE IF ex[r][k] = "wire" THEN "live" ELSE "settled"

J == INSTANCE OrderJournal WITH
        Deals <- Runs, Labels <- Orders,
        book  <- [r \in Runs |-> BookOf(r)],
        phase <- [r \in Runs |-> [k \in Orders |-> PhaseOf(r, k)]]

\* Maintenance keeps the promises of the order journal, as the executor does.
KeepsJournal == J!Spec
=============================================================================
