------------------------------ MODULE Executor ------------------------------
(* One strategy process of binarb executing triangular deals on the        *)
(* exchange: the main loop's entry gate (app.py), the executor's leg,       *)
(* placement, resolution, accounting and recovery steps (executor.py), the  *)
(* durable deal record (state.py), the operator's control file              *)
(* (control_plane.py, tg_gateway.py), the exchange's side of each order,    *)
(* and crashes and restarts of the process.                                 *)
(*                                                                          *)
(* Every save of the deal record is an atomic replacement of one file, so   *)
(* an action that changes the record changes memory and disk together.      *)
(* Amounts are small naturals: an order spends at most its input amount     *)
(* plus MaxOver and returns what it spent less at most MaxCost (price       *)
(* moves and fees).                                                         *)
EXTENDS Integers, FiniteSets

CONSTANTS
    N,            \* legs of a route; asset 0 is the start asset, leg i buys asset i (leg N asset 0)
    MaxDeals,     \* bound: deals started
    MaxAmount,    \* bound: authorized size of a deal
    MaxOver,      \* bound: what a fill may spend beyond the order's input amount
    MaxCost,      \* bound: what price moves and fees take from one fill
    LimitLots,    \* input amounts that pass the exchange's LIMIT filters
    MarketLots,   \* input amounts that pass the exchange's MARKET filters
    AutoRecover,  \* setting auto_recover
    LocalFaults   \* may a local failure (full disk, unreadable answer) follow an order

ASSUME LegsAssumption == N \in Nat /\ N >= 2
ASSUME BoundsAssumption ==
    /\ MaxDeals \in Nat \ {0} /\ MaxAmount \in Nat \ {0}
    /\ MaxOver \in Nat /\ MaxCost \in Nat
ASSUME LotsAssumption == LimitLots \subseteq Nat \ {0} /\ MarketLots \subseteq Nat \ {0}
ASSUME SwitchesAssumption == AutoRecover \in BOOLEAN /\ LocalFaults \in BOOLEAN

Deals  == 1..MaxDeals
Legs   == 1..N
Assets == 0..(N - 1)
Mids   == 1..(N - 1)

\* The attempts of a leg in order, and the one market order that flattens an asset.
Policies == {"FOK", "IOC", "MARKET"}
Labels   == (Legs \X Policies) \cup (Mids \X {"RECOVERY"})

\* Mutant: the attempts start over after MARKET.
NextPolicyCycles(p) == CASE p = "FOK" -> "IOC" [] p = "IOC" -> "MARKET" [] OTHER -> "FOK"

NextPolicy(p) == CASE p = "FOK" -> "IOC" [] p = "IOC" -> "MARKET" [] OTHER -> "NONE"

Source(l) == IF l[2] = "RECOVERY" THEN l[1] ELSE l[1] - 1
Target(l) == IF l[2] = "RECOVERY" \/ l[1] = N THEN 0 ELSE l[1]

\* Balances f after an order l of deal d that leaves x in its source and y in its target.
Transfer(f, d, l, x, y) ==
    [f EXCEPT ![d] = [a \in Assets |-> CASE a = Source(l) -> x
                                        [] a = Target(l) -> y
                                        [] OTHER -> f[d][a]]]

Fills(q)  == {f \in [spent : 0..(q + MaxOver), out : 0..(q + MaxOver)] :
                 f.out <= f.spent /\ f.spent <= f.out + MaxCost}
NoFill    == [spent |-> 0, out |-> 0]

Executable(p, q) == q \in (IF p \in {"FOK", "IOC"} THEN LimitLots ELSE MarketLots)

VARIABLES
    control, clearAt,                          \* the control file
    pc, phase, deal, leg, policy,              \* memory of the process: where it is
    amount, spent, out, todo, ok, dust,        \* memory of the process: what it carries
    place, status, orders, input,              \* the durable deal records
    inv, startSpent, authorized,
    ex, acct, fill,                            \* the exchange: orders, balances, awaited result
    lateEntries                                \* history: entry orders sent while paused

operator == <<control, clearAt>>
walk     == <<pc, phase, deal, leg, policy>>
carry    == <<amount, spent, out>>
flat     == <<todo, ok, dust>>
ledger   == <<inv, startSpent, authorized>>
journal  == <<orders, input>>
files    == <<place, status>>
exchange == <<ex, acct, fill>>
vars     == <<operator, walk, carry, flat, ledger, journal, files, exchange, lateEntries>>

PCs == {"idle", "scan", "preflight", "attempt", "send", "await", "resolve", "poll", "account",
        "credit", "tickers", "recover", "retire", "raise", "ambiguous", "clearing", "dead"}
Waiting == {"await", "resolve", "poll"}

Statuses == {"NONE", "IN_PROGRESS", "RECOVERING", "RECOVERY_REQUIRED", "REPRICE_UNPROFITABLE",
             "COMPLETE", "COMPLETE_WITH_DUST", "RECOVERED", "OPERATOR_CLEARED"}

\* The order the process is at, as client_id names it.
Label == <<leg, IF phase = "legs" THEN policy ELSE "RECOVERY">>

\* What is left of the leg's budget (mutant: every attempt is for all of it).
RemainingWhole == amount
Remaining == IF spent < amount THEN amount - spent ELSE 0
LegOver   == Remaining = 0 \/ policy = "NONE"
AtEntry   == phase = "legs" /\ leg = 1 /\ spent = 0

\* No record is active (mutant: a deal that needs recovery does not count).
DealGateLoose == \A d \in Deals : place[d] = "active" => status[d] = "RECOVERY_REQUIRED"
DealGate      == \A d \in Deals : place[d] # "active"

\* Leg 1 is sent only while not paused (mutant: only its first policy looks).
EntryAllowedOnce == AtEntry /\ policy = "FOK" => control = "running"
EntryAllowed     == AtEntry => control = "running"

\* One recovery per deal (mutants: a failed flattening is tried again; the switch is ignored).
MayRecoverAgain  == AutoRecover /\ phase # "recover"
MayRecoverAlways == phase = "legs"
MayRecover       == AutoRecover /\ phase = "legs"

Positions == {a \in Mids : inv[deal][a] > 0}

-----------------------------------------------------------------------------
Init ==
    /\ control = "running" /\ clearAt = FALSE
    /\ pc = "idle" /\ phase = "legs" /\ deal = 0 /\ leg = 1 /\ policy = "FOK"
    /\ amount = 0 /\ spent = 0 /\ out = 0
    /\ todo = {} /\ ok = TRUE /\ dust = FALSE
    /\ place = [d \in Deals |-> "none"]
    /\ status = [d \in Deals |-> "NONE"]
    /\ orders = [d \in Deals |-> [l \in Labels |-> "none"]]
    /\ input = [d \in Deals |-> [l \in Labels |-> 0]]
    /\ inv = [d \in Deals |-> [a \in Assets |-> 0]]
    /\ startSpent = [d \in Deals |-> 0]
    /\ authorized = [d \in Deals |-> 0]
    /\ ex = [d \in Deals |-> [l \in Labels |-> "none"]]
    /\ acct = [d \in Deals |-> [a \in Assets |-> 0]]
    /\ fill = NoFill
    /\ lateEntries = 0

\* The process leaves execute (or dies): its memory of the deal is gone.
Leave(p) ==
    /\ pc' = p /\ phase' = "legs" /\ deal' = 0 /\ leg' = 1 /\ policy' = "FOK"
    /\ amount' = 0 /\ spent' = 0 /\ out' = 0
    /\ todo' = {} /\ ok' = TRUE /\ dust' = FALSE
    /\ fill' = NoFill

Goto(p) == pc' = p /\ UNCHANGED <<phase, deal, leg, policy>>

\* The process moves on and changes nothing else.
Step(p) ==
    /\ Goto(p)
    /\ UNCHANGED <<operator, carry, flat, ledger, journal, files, exchange, lateEntries>>

BeginLeg(i, q) ==
    /\ pc' = "attempt" /\ leg' = i /\ policy' = "FOK"
    /\ amount' = q /\ spent' = 0 /\ out' = 0
    /\ UNCHANGED <<phase, deal, flat>>

\* _recover_to_start begins: recovery_attempted is set and positions are listed.
\* The leg's own variables are dead from here.
BeginRecovery(p) ==
    /\ pc' = "tickers" /\ phase' = p /\ leg' = 1 /\ policy' = "FOK"
    /\ todo' = Positions /\ ok' = TRUE /\ UNCHANGED dust
    /\ amount' = 0 /\ spent' = 0 /\ out' = 0
    /\ UNCHANGED deal

SetStatus(s) == status' = [status EXCEPT ![deal] = s]

\* The attempt in hand ends in an ordinary exception: a leg's leaves execute's
\* body, a recovery order's is noted and the next position is tried.
Fails ==
    \/ /\ phase = "legs"
       /\ Goto("raise") /\ UNCHANGED flat
    \/ /\ phase # "legs"
       /\ Goto("recover") /\ ok' = FALSE /\ todo' = todo \ {leg} /\ UNCHANGED dust

-----------------------------------------------------------------------------
(* The main loop and the start of a deal.                                   *)

\* Not paused, nothing to clear, no active record (main and run_once both look).
LoopScan ==
    /\ pc = "idle" /\ ~clearAt /\ control = "running" /\ DealGate
    /\ Step("scan")

NoCandidate ==
    /\ pc = "scan"
    /\ Step("idle")

\* A candidate was found: execute writes the intent before anything else.  The
\* active-record gate was LoopScan's; it is not evaluated again.
StartDeal ==
    /\ pc = "scan"
    /\ \E d \in Deals :
        /\ place[d] = "none" /\ \A e \in Deals : e < d => place[e] # "none"
        /\ deal' = d
        /\ place' = [place EXCEPT ![d] = "active"]
        /\ status' = [status EXCEPT ![d] = "IN_PROGRESS"]
    /\ pc' = "preflight"
    /\ UNCHANGED <<phase, leg, policy>>
    /\ UNCHANGED <<operator, carry, flat, ledger, journal, exchange, lateEntries>>

\* Balances, commission rates, books or the fee plan raise.
PreflightFails ==
    /\ pc = "preflight"
    /\ Step("raise")

\* Stale quotes, an operator pause or an unprofitable repricing: no order is placed.
PreflightRejects ==
    /\ pc = "preflight"
    /\ SetStatus("REPRICE_UNPROFITABLE")
    /\ Goto("retire")
    /\ UNCHANGED <<operator, carry, flat, ledger, journal, place, exchange, lateEntries>>

Authorize ==
    /\ pc = "preflight" /\ control = "running"
    /\ \E q \in 1..MaxAmount :
        /\ authorized' = [authorized EXCEPT ![deal] = q]
        /\ BeginLeg(1, q)
    /\ UNCHANGED <<operator, inv, startSpent, journal, files, exchange, lateEntries>>

-----------------------------------------------------------------------------
(* A leg: FOK, then IOC, then MARKET for what remains.                      *)

\* prepare_limit_order or prepare_market_order raises ValueError.
Skip ==
    /\ pc = "attempt" /\ ~LegOver /\ ~Executable(policy, Remaining)
    /\ policy' = NextPolicy(policy)
    /\ UNCHANGED <<pc, phase, deal, leg>>
    /\ UNCHANGED <<operator, carry, flat, ledger, journal, files, exchange, lateEntries>>

\* A request raises, the leg's book is stale, the fee reserve is depleted, or the
\* entry gate (fresh entry books and no pause) is closed.
AttemptFails ==
    /\ pc = "attempt" /\ ~LegOver
    /\ Step("raise")

\* Mutant: the record is written once the answer is known.
AppendLater(l, q) ==
    /\ orders' = orders
    /\ input' = [input EXCEPT ![deal][l] = q]

\* The record of an order is appended and saved, SUBMITTING, before it is sent.
Append(l, q) ==
    /\ orders' = [orders EXCEPT ![deal][l] = "SUBMITTING"]
    /\ input' = [input EXCEPT ![deal][l] = q]

\* The entry gate is read for every policy of leg 1 until something is spent.
Journal ==
    /\ pc = "attempt" /\ ~LegOver /\ Executable(policy, Remaining)
    /\ EntryAllowed
    /\ Append(Label, Remaining)
    /\ Goto("send")
    /\ UNCHANGED <<operator, carry, flat, ledger, files, exchange, lateEntries>>

FinishLeg ==
    /\ pc = "attempt" /\ LegOver
    /\ Step(IF out = 0 \/ spent = 0 THEN "raise" ELSE "credit")

\* _await_credit saw the balance: the leg's whole output is the next leg's budget.
CreditSettles ==
    /\ pc = "credit"
    /\ \/ leg < N /\ BeginLeg(leg + 1, out)
       \/ leg = N /\ BeginRecovery("flatten")
    /\ UNCHANGED <<operator, ledger, journal, files, exchange, lateEntries>>

CreditFails ==
    /\ pc = "credit"
    /\ Step("raise")

-----------------------------------------------------------------------------
(* Placement and resolution of one order (_place_and_resolve).              *)

Send ==
    /\ pc = "send"
    /\ ex' = [ex EXCEPT ![deal][Label] = "wire"]
    /\ Goto("await")
    /\ lateEntries' = IF AtEntry /\ control = "paused" THEN lateEntries + 1 ELSE lateEntries
    /\ UNCHANGED <<operator, carry, flat, ledger, journal, files, acct, fill>>

\* The answer, the lookup by client id or a poll shows the order terminal.
ReadFill ==
    /\ pc \in Waiting /\ ex[deal][Label] = "done"
    /\ orders' = [orders EXCEPT ![deal][Label] = "CLOSED"]
    /\ Goto("account")
    /\ UNCHANGED <<operator, carry, flat, ledger, input, files, exchange, lateEntries>>

\* The answer or the lookup shows it still working: poll by order id.
ReadNew ==
    /\ pc \in {"await", "resolve"} /\ ex[deal][Label] = "open"
    /\ orders' = [orders EXCEPT ![deal][Label] = "NEW"]
    /\ Goto("poll")
    /\ UNCHANGED <<operator, carry, flat, ledger, input, files, exchange, lateEntries>>

\* A BinanceError that is not ambiguous: the exchange refused the order.  The
\* record keeps its SUBMITTING status.
ReadRejection ==
    /\ pc = "await" /\ ex[deal][Label] = "refused"
    /\ Fails
    /\ UNCHANGED <<operator, carry, ledger, journal, files, exchange, lateEntries>>

\* Mutant: a lost answer is answered by sending again.
TimeoutResends ==
    /\ pc = "await"
    /\ Step("send")

\* The answer is lost, or is a 5xx or -1007 error: look the order up by its id.
Timeout ==
    /\ pc = "await"
    /\ Step("resolve")

\* Mutant: an order that could not be resolved counts as an ordinary failure.
GiveUpOrdinary ==
    /\ pc \in {"resolve", "poll"}
    /\ Fails
    /\ UNCHANGED <<operator, carry, ledger, journal, files, exchange, lateEntries>>

\* Seven lookups find nothing, a lookup fails, or polling runs out.
GiveUp ==
    /\ pc \in {"resolve", "poll"}
    /\ Step("ambiguous")

\* The terminal order found is for another symbol or side than the record's.
IdentityMismatch ==
    /\ pc \in Waiting /\ ex[deal][Label] = "done"
    /\ orders' = [orders EXCEPT ![deal][Label] = "CLOSED"]
    /\ Goto("ambiguous")
    /\ UNCHANGED <<operator, carry, flat, ledger, input, files, exchange, lateEntries>>

\* A failure that is neither a requests nor a Binance error after the order was
\* sent and before its fill is booked: a save that raises, an answer that does
\* not parse.
LocalFault ==
    /\ LocalFaults /\ pc \in {"await", "account"} /\ ex[deal][Label] \in {"open", "done"}
    /\ Fails
    /\ UNCHANGED <<operator, carry, ledger, journal, files, exchange, lateEntries>>

-----------------------------------------------------------------------------
(* Booking a fill in the durable ledger.                                    *)

\* _update_inventory: the source is clamped at zero (mutants: no clamp; the target's
\* balance is overwritten).
Drawn(b)           == IF b > fill.spent THEN b - fill.spent ELSE 0
SourceOf(l)        == inv[deal][Source(l)]
TargetOf(l)        == inv[deal][Target(l)]
BookedUnclamped(l) == Transfer(inv, deal, l, SourceOf(l) - fill.spent, TargetOf(l) + fill.out)
BookedOver(l)      == Transfer(inv, deal, l, Drawn(SourceOf(l)), fill.out)
Booked(l)          == Transfer(inv, deal, l, Drawn(SourceOf(l)), TargetOf(l) + fill.out)

\* A leg's fill.  An unplanned commission asset or an overspend stops the leg
\* after the fill is saved.
Account ==
    /\ pc = "account" /\ phase = "legs"
    /\ spent' = spent + fill.spent /\ out' = out + fill.out
    /\ inv' = Booked(Label)
    /\ startSpent' = IF leg = 1 THEN [startSpent EXCEPT ![deal] = @ + fill.spent]
                                ELSE startSpent
    /\ orders' = [orders EXCEPT ![deal][Label] = "BOOKED"]
    /\ \/ /\ pc' = "raise" /\ UNCHANGED policy
       \/ /\ spent + fill.spent <= amount
          /\ pc' = "attempt" /\ policy' = NextPolicy(policy)
    /\ UNCHANGED <<phase, deal, leg>>
    /\ fill' = NoFill
    /\ UNCHANGED <<operator, amount, flat, authorized, input, files, ex, acct, lateEntries>>

\* A recovery order's fill: an executable remainder means the asset is not flat.
AccountRecovery ==
    /\ pc = "account" /\ phase # "legs"
    /\ inv' = Booked(Label)
    /\ orders' = [orders EXCEPT ![deal][Label] = "BOOKED"]
    /\ LET remainder == inv'[deal][leg] IN
        /\ ok' = (ok /\ ~Executable("MARKET", remainder))
        /\ dust' = (dust \/ (remainder > 0 /\ ~Executable("MARKET", remainder)))
    /\ todo' = todo \ {leg}
    /\ Goto("recover")
    /\ fill' = NoFill
    /\ UNCHANGED <<operator, carry, startSpent, authorized, input, files, ex, acct, lateEntries>>

-----------------------------------------------------------------------------
(* Flattening the intermediate assets to the start asset (_recover_to_start) *)

FetchTickers ==
    /\ pc = "tickers"
    /\ Step("recover")

\* The request for tickers is outside the per-asset try.  Raised while the failure
\* handler is recovering, it leaves execute as it is and stops the service, or only delays
\* the main loop when the rate was too high; the record stays active.
TickersFail ==
    /\ pc = "tickers" /\ todo # {}
    /\ \/ phase = "flatten" /\ Goto("raise") /\ UNCHANGED <<carry, flat, fill>>
       \/ phase = "recover" /\ \E p \in {"dead", "idle"} : Leave(p)
    /\ UNCHANGED <<operator, ledger, journal, files, ex, acct, lateEntries>>

\* Positions are visited in the order their assets entered the inventory.
FirstOf(a) == a \in todo /\ \A b \in todo : a <= b

\* Mutant: a position without an edge is passed over.
RecoverNoEdgeSilent ==
    /\ pc = "recover"
    /\ \E a \in Mids : FirstOf(a) /\ todo' = todo \ {a}
    /\ UNCHANGED <<walk, ok, dust>>
    /\ UNCHANGED <<operator, carry, ledger, journal, files, exchange, lateEntries>>

\* No pair, or no ticker, leads from the asset to the start asset.
RecoverNoEdge ==
    /\ pc = "recover"
    /\ \E a \in Mids : FirstOf(a) /\ todo' = todo \ {a}
    /\ ok' = FALSE
    /\ UNCHANGED <<walk, dust>>
    /\ UNCHANGED <<operator, carry, ledger, journal, files, exchange, lateEntries>>

\* prepare_market_order raises ValueError: the whole position is called dust.
RecoverDust ==
    /\ pc = "recover"
    /\ \E a \in Mids :
        FirstOf(a) /\ ~Executable("MARKET", inv[deal][a]) /\ todo' = todo \ {a}
    /\ dust' = TRUE
    /\ UNCHANGED <<walk, ok>>
    /\ UNCHANGED <<operator, carry, ledger, journal, files, exchange, lateEntries>>

RecoverJournal ==
    /\ pc = "recover"
    /\ \E a \in Mids :
        /\ FirstOf(a) /\ Executable("MARKET", inv[deal][a])
        /\ Append(<<a, "RECOVERY">>, inv[deal][a])
        /\ leg' = a
    /\ pc' = "send"
    /\ UNCHANGED <<phase, deal, policy>>
    /\ UNCHANGED <<operator, carry, flat, ledger, files, exchange, lateEntries>>

\* Everything executable is flat: the deal completes, or counts as recovered.
Flattened ==
    /\ pc = "recover" /\ todo = {} /\ ok
    /\ SetStatus(IF phase = "recover" THEN "RECOVERED"
                 ELSE IF dust THEN "COMPLETE_WITH_DUST" ELSE "COMPLETE")
    /\ Goto("retire")
    /\ UNCHANGED <<operator, carry, flat, ledger, journal, place, exchange, lateEntries>>

NotFlattened ==
    /\ pc = "recover" /\ todo = {} /\ ~ok
    /\ \/ /\ phase = "flatten"
          /\ Goto("raise") /\ UNCHANGED <<carry, flat, files, fill>>
       \/ /\ phase = "recover"
          /\ SetStatus("RECOVERY_REQUIRED") /\ Leave("dead") /\ UNCHANGED place
    /\ UNCHANGED <<operator, ledger, journal, ex, acct, lateEntries>>

-----------------------------------------------------------------------------
(* The ends of execute.                                                     *)

\* An ordinary exception: one recovery is attempted, unless it already was.
HandleFailure ==
    /\ pc = "raise"
    /\ place' = [place EXCEPT ![deal] = "active"]
    /\ \/ /\ MayRecover
          /\ SetStatus("RECOVERING")
          /\ BeginRecovery("recover") /\ UNCHANGED fill
       \/ /\ ~MayRecover
          /\ SetStatus("RECOVERY_REQUIRED")
          /\ Leave("dead")
    /\ UNCHANGED <<operator, ledger, journal, ex, acct, lateEntries>>

\* An order whose outcome is unknown: nothing more is sent, the deal stays active.
HandleAmbiguous ==
    /\ pc = "ambiguous"
    /\ SetStatus("RECOVERY_REQUIRED")
    /\ Leave("dead")
    /\ UNCHANGED <<operator, ledger, journal, place, ex, acct, lateEntries>>

\* finish moved the record to the archive.  A recovered deal still raises
\* RecoveryRequired, which stops the service.
Archive ==
    /\ pc = "retire"
    /\ place' = [place EXCEPT ![deal] = "archived"]
    /\ Leave(IF phase = "recover" THEN "dead" ELSE "idle")
    /\ UNCHANGED <<operator, ledger, journal, status, ex, acct, lateEntries>>

\* finish raised after saving the outcome: before the record is moved, or (a local
\* fault) in the pruning that follows the move.
FinishFails ==
    /\ pc = "retire"
    /\ \/ UNCHANGED place
       \/ LocalFaults /\ place' = [place EXCEPT ![deal] = "archived"]
    /\ \/ phase = "recover" /\ Leave("dead")
       \/ phase # "recover" /\ Goto("raise") /\ UNCHANGED <<carry, flat, fill>>
    /\ UNCHANGED <<operator, ledger, journal, status, ex, acct, lateEntries>>

-----------------------------------------------------------------------------
(* The operator's clear, consumed by the main loop in two writes.           *)

LoopClear ==
    /\ pc = "idle" /\ clearAt
    /\ place' = [d \in Deals |-> IF place[d] = "active" THEN "archived" ELSE place[d]]
    /\ status' = [d \in Deals |-> IF place[d] = "active" THEN "OPERATOR_CLEARED" ELSE status[d]]
    /\ Goto("clearing")
    /\ UNCHANGED <<operator, carry, flat, ledger, journal, exchange, lateEntries>>

\* finish raises, or the process dies, after the outcome is saved: the record stays
\* active and the request pending.
ClearFails ==
    /\ pc = "idle" /\ clearAt
    /\ status' = [d \in Deals |-> IF place[d] = "active" THEN "OPERATOR_CLEARED" ELSE status[d]]
    /\ Leave("dead")
    /\ UNCHANGED <<operator, ledger, journal, place, ex, acct, lateEntries>>

ConsumeClear ==
    /\ pc = "clearing"
    /\ control' = "paused" /\ clearAt' = FALSE
    /\ Goto("idle")
    /\ UNCHANGED <<carry, flat, ledger, journal, files, exchange, lateEntries>>

-----------------------------------------------------------------------------
(* The process may stop anywhere; docker restarts it.                       *)

Crash ==
    /\ pc # "dead"
    /\ Leave("dead")
    /\ UNCHANGED <<operator, ledger, journal, files, ex, acct, lateEntries>>

Restart ==
    /\ pc = "dead"
    /\ Step("idle")

-----------------------------------------------------------------------------
(* The operator's commands, written to the control file by the gateway.     *)

Pause ==
    /\ control = "running"
    /\ control' = "paused" /\ UNCHANGED clearAt
    /\ UNCHANGED <<walk, carry, flat, ledger, journal, files, exchange, lateEntries>>

Resume ==
    /\ control = "paused" \/ clearAt
    /\ control' = "running" /\ clearAt' = FALSE /\ lateEntries' = 0
    /\ UNCHANGED <<walk, carry, flat, ledger, journal, files, exchange>>

RequestClear ==
    /\ ~clearAt
    /\ control' = "paused" /\ clearAt' = TRUE
    /\ UNCHANGED <<walk, carry, flat, ledger, journal, files, exchange, lateEntries>>

-----------------------------------------------------------------------------
(* The exchange.  A request on the wire is accepted, refused or lost, at any *)
(* later time; an accepted order ends with some fill, perhaps empty.         *)

Accept(d, l) ==
    /\ ex[d][l] = "wire"
    /\ \E s \in {"open", "refused", "lost"} : ex' = [ex EXCEPT ![d][l] = s]
    /\ UNCHANGED <<operator, walk, carry, flat, ledger, journal, files, acct, fill, lateEntries>>

Match(d, l) ==
    /\ ex[d][l] = "open"
    /\ \E f \in Fills(input[d][l]) :
        /\ acct' = Transfer(acct, d, l, acct[d][Source(l)] - f.spent, acct[d][Target(l)] + f.out)
        /\ fill' = IF d = deal /\ l = Label /\ pc \in Waiting THEN f ELSE fill
    /\ ex' = [ex EXCEPT ![d][l] = "done"]
    /\ UNCHANGED <<operator, walk, carry, flat, ledger, journal, files, lateEntries>>

-----------------------------------------------------------------------------
Loop    == LoopScan \/ NoCandidate \/ LoopClear \/ ClearFails \/ ConsumeClear \/ Restart
Execute == StartDeal \/ PreflightFails \/ PreflightRejects \/ Authorize
           \/ Skip \/ AttemptFails \/ Journal \/ FinishLeg \/ CreditSettles \/ CreditFails
Place   == Send \/ ReadFill \/ ReadNew \/ ReadRejection \/ Timeout \/ GiveUp
           \/ IdentityMismatch \/ LocalFault \/ Account \/ AccountRecovery
Flatten == FetchTickers \/ TickersFail \/ RecoverNoEdge \/ RecoverDust \/ RecoverJournal
           \/ Flattened \/ NotFlattened
End     == HandleFailure \/ HandleAmbiguous \/ Archive \/ FinishFails

Process  == Loop \/ Execute \/ Place \/ Flatten \/ End
Operator == Pause \/ Resume \/ RequestClear
Exchange == \E d \in Deals, l \in Labels : Accept(d, l) \/ Match(d, l)

Next == Process \/ Crash \/ Operator \/ Exchange
Spec == Init /\ [][Next]_vars

\* The process keeps taking steps while it is up and is restarted when it is not
\* (restart: unless-stopped); nothing is assumed of the exchange or the operator.
FairSpec == Spec /\ WF_vars(Process)

-----------------------------------------------------------------------------
(* Properties.                                                              *)

\* The values the variables take, group by group.
TypeOperator == control \in {"running", "paused"} /\ clearAt \in BOOLEAN /\ lateEntries \in Nat
TypeWalk ==
    /\ pc \in PCs /\ phase \in {"legs", "flatten", "recover"} /\ deal \in Deals \cup {0}
    /\ leg \in Legs /\ policy \in Policies \cup {"NONE"}
TypeCarry == amount \in Nat /\ spent \in Nat /\ out \in Nat
TypeFlat  == todo \subseteq Mids /\ ok \in BOOLEAN /\ dust \in BOOLEAN
TypeFiles ==
    /\ place \in [Deals -> {"none", "active", "archived"}]
    /\ status \in [Deals -> Statuses]
TypeJournal ==
    /\ orders \in [Deals -> [Labels -> {"none", "SUBMITTING", "NEW", "CLOSED", "BOOKED"}]]
    /\ input \in [Deals -> [Labels -> Nat]]
TypeLedger ==
    /\ inv \in [Deals -> [Assets -> Nat]]
    /\ startSpent \in [Deals -> Nat] /\ authorized \in [Deals -> Nat]
TypeFill == fill \in [spent : Nat, out : Nat]
TypeExchange ==
    /\ ex \in [Deals -> [Labels -> {"none", "wire", "open", "done", "refused", "lost"}]]
    /\ acct \in [Deals -> [Assets -> Int]]

TypeOK == TypeOperator /\ TypeWalk /\ TypeCarry /\ TypeFlat /\ TypeFiles /\ TypeJournal
          /\ TypeLedger /\ TypeFill /\ TypeExchange

Unresolved(d, l) == ex[d][l] \in {"wire", "open"}
Retired(d)       == place[d] = "archived" /\ status[d] # "OPERATOR_CLEARED"

\* "Each attempt is fsynced before placement": whatever the exchange knows of is
\* named, with its input amount, in a durable record, also after any crash.
WriteAhead == \A d \in Deals, l \in Labels :
    ex[d][l] # "none" => place[d] # "none" /\ orders[d][l] # "none" /\ input[d][l] > 0

\* "It is never blindly retried": an order that was sent once is never sent again,
\* by a later policy, by recovery or by a restarted process.
NoResubmission == [][\A d \in Deals, l \in Labels :
    ex[d][l] # "none" /\ ex'[d][l] = "wire" => ex[d][l] = "wire"]_vars

\* "Ambiguous exposure stops": of one deal at most one order is ever unresolved, so
\* nothing is sent, recovery orders included, while the fate of another is unknown.
OneAtATime == \A d \in Deals : \A l, m \in Labels :
    Unresolved(d, l) /\ Unresolved(d, m) => l = m

\* "Every confirmed fill updates durable inventory": unless a fill of the deal is not
\* booked yet (or will never be, the process having died), the inventory and the
\* start spend on disk are what the exchange really moved.
LedgerExact == \A d \in Deals :
    (\A l \in Labels : ex[d][l] = "done" => orders[d][l] = "BOOKED") =>
        /\ inv[d][0] - startSpent[d] = acct[d][0]
        /\ \A a \in Mids : inv[d][a] = IF acct[d][a] > 0 THEN acct[d][a] ELSE 0

\* Over all policies, legs and recovery together a deal spends no more of the start
\* asset than was authorized, and no more of an intermediate asset than the deal
\* acquired, except for what a single fill may overspend.
WithinMeans == \A d \in Deals :
    /\ acct[d][0] + authorized[d] + MaxOver >= 0
    /\ \A a \in Mids : acct[d][a] + MaxOver >= 0

\* A deal retired by the service, not by the operator, has no order the exchange
\* could still fill.
RetiredSettled == \A d \in Deals : Retired(d) => \A l \in Labels : ~Unresolved(d, l)

\* "Confirmed intermediate inventory is flattened": a deal retired by the service
\* left no intermediate asset in an amount the market would still take.
RetiredFlat == \A d \in Deals : Retired(d) =>
    \A a \in Mids, q \in MarketLots : acct[d][a] < q

\* Nothing new is started over an unresolved order: only the operator's clear lets a
\* later deal begin while an order of an earlier one may still fill.
UnresolvedBlocksEntry == \A d, e \in Deals :
    d < e /\ place[e] # "none" /\ (\E l \in Labels : Unresolved(d, l))
        => status[d] = "OPERATOR_CLEARED"

\* "An operator pause is checked again before the first order": at most the one entry
\* order already journaled leaves after a pause, whatever policies follow it.
PauseRespected == lateEntries <= 1

\* A deal the process works on ends: every chain of policies, legs, lookups and
\* recovery orders is finite, whatever the exchange answers.
DealEnds == \A d \in Deals : deal = d ~> deal # d
=============================================================================
