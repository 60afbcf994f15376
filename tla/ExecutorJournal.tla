--------------------------- MODULE ExecutorJournal ---------------------------
(* The executor's deal records and orders, seen as an OrderJournal.         *)
EXTENDS Executor

\* Where a deal stands in the journal.
BookOf(d) == IF place[d] # "archived" THEN place[d]
             ELSE IF status[d] = "OPERATOR_CLEARED" THEN "cleared" ELSE "retired"

\* Where an order stands: recorded on disk, then in the exchange's hands, then final.
PhaseOf(d, l) == IF orders[d][l] = "none" THEN "absent"
                 ELSE IF ex[d][l] = "none" THEN "intended"
                 ELSE IF Unresolved(d, l) THEN "live" ELSE "settled"

Book       == [d \in Deals |-> BookOf(d)]
OrderPhase == [d \in Deals |-> [l \in Labels |-> PhaseOf(d, l)]]

J == INSTANCE OrderJournal WITH book <- Book, phase <- OrderPhase

\* Every step of the process, of the exchange and of the operator is a step the order
\* journal allows, or leaves the journal as it is: executing deals keeps its promise.
KeepsJournal == J!Spec

-----------------------------------------------------------------------------
(* The inductive invariant behind that refinement, part by part.            *)

Idling    == {"idle", "scan", "clearing", "dead"}
Placing   == {"send", "account"} \cup Waiting
Executing == pc \notin Idling

\* The policies a leg has not tried yet when it stands at p.
Ahead(p) == CASE p = "FOK" -> Policies [] p = "IOC" -> {"IOC", "MARKET"}
              [] p = "MARKET" -> {"MARKET"} [] OTHER -> {}

\* Where the process is says which part of execute it is in and at which order.
WalkOK ==
    /\ pc \in {"scan", "preflight", "attempt", "credit"} => phase = "legs"
    /\ pc \in {"tickers", "recover"} => phase # "legs"
    /\ pc \in Placing => Label \in Labels
    /\ pc \in Placing /\ phase # "legs" => leg \in todo
    /\ ~Executing => phase = "legs"

\* The deal being executed is the one active record; deals are taken in turn, each
\* after the earlier ones were archived; the operator never clears it under execution.
FilesOK ==
    /\ Executing => deal \in Deals /\ place[deal] = "active"
    /\ pc = "scan" => DealGate
    /\ \A d, e \in Deals : d < e /\ place[e] # "none" => place[d] = "archived"
    /\ Executing => status[deal] # "OPERATOR_CLEARED"

\* No order of the executed deal is unresolved, but for the one being waited on.
Quiet == Executing /\ pc # "ambiguous" =>
    \A l \in Labels : Unresolved(deal, l) => pc \in Waiting /\ l = Label

\* An ambiguous deal has at most one unresolved order, and so has any deal left behind.
Lone == OneAtATime

\* An order is known to the exchange only if it is on record.
Recorded == \A d \in Deals, l \in Labels : ex[d][l] # "none" =>
    place[d] # "none" /\ orders[d][l] # "none" /\ input[d][l] > 0

\* The orders the executed deal may still come to: the one about to be sent, the rest
\* of the leg and the later legs, and the recovery orders of positions not visited.
ToCome == {l \in Labels :
    \/ pc = "preflight"
    \/ pc = "send" /\ l = Label
    \/ /\ phase = "legs" /\ l[2] = "RECOVERY"
    \/ /\ phase = "legs" /\ pc \in {"attempt", "credit"} \cup Placing /\ l[2] # "RECOVERY"
       /\ \/ l[1] > leg
          \/ l[1] = leg /\ l[2] \in Ahead(IF pc = "attempt" THEN policy ELSE NextPolicy(policy))
    \/ /\ phase # "legs" /\ l[2] = "RECOVERY" /\ l[1] \in todo
       /\ pc \in {"tickers", "recover"} \/ (pc \in Placing /\ l[1] # leg)}

\* None of them was ever sent.
Fresh == Executing => \A l \in ToCome : ex[deal][l] = "none"

\* The order the process is placing is on record.
Submitted == pc \in Placing => orders[deal][Label] # "none" /\ input[deal][Label] > 0

\* What local faults leave of FilesOK: finish may have archived the record of the executed
\* deal and raised, and the failure handler then makes it active again.
RecordsOK ==
    /\ Executing => /\ deal \in Deals
                    /\ place[deal] = "active" \/ (pc = "raise" /\ place[deal] = "archived")
                    /\ \A e \in Deals : deal < e => place[e] = "none"
    /\ pc = "scan" => DealGate
    /\ \A d, e \in Deals : d < e /\ place[e] # "none" => place[d] = "archived"

\* While the legs of a deal are executed no order but the last one sent is unresolved,
\* and that one only while it is waited on or has just failed.
LegQuiet == Executing /\ pc # "ambiguous" /\ phase = "legs" =>
    \A l \in Labels : Unresolved(deal, l) => pc \in Waiting \cup {"raise"} /\ l = Label

\* The part that holds through local faults too: which orders were sent, and which may be.
OrdersInv == WalkOK /\ RecordsOK /\ Recorded /\ Fresh /\ Submitted /\ LegQuiet

\* With automatic recovery off a flattening that has failed at nothing leaves no order
\* unresolved either, and what it retires is settled.
FlattenQuiet ==
    /\ phase # "recover"
    /\ Executing /\ pc # "ambiguous" /\ phase = "flatten" /\ ok =>
         \A l \in Labels : Unresolved(deal, l) => pc \in Waiting /\ l = Label
    /\ pc = "retire" => \A l \in Labels : ~Unresolved(deal, l)
SettledInv == FlattenQuiet /\ RetiredSettled

JournalInv == WalkOK /\ FilesOK /\ Quiet /\ Lone /\ Recorded /\ Fresh /\ Submitted
              /\ RetiredSettled
=============================================================================
