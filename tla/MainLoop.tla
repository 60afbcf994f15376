------------------------------ MODULE MainLoop ------------------------------
(* The main loop around the BNB fee reserve (app.py): when balances are read, *)
(* when maintenance runs, when the reserve is bought with an order that has   *)
(* no record, and which flag then lets a deal begin.  The rebalancer and the  *)
(* executor have modules of their own; here they move BNB and end.            *)
(* Amounts are in dollars; prices do not move.                                *)
EXTENDS Integers, Sequences

CONSTANTS
    Settings,                   \* values of rebalance_enabled
    Replenishing,               \* bnb_replenish_enabled
    Floor, Target,              \* bnb_replenish_floor_usdt, bnb_replenish_target_usdt
    Minimum,                    \* the least the rebalancer buys: what the market takes
    RefreshEvery, CheckEvery,   \* ticks: 5 s, and min(30, rebalance_interval_s)
    MaxUSDC,                    \* bound: dollars on the account
    MaxFaults                   \* bound: crashes and lost answers

ASSUME LoopAssumption ==
    /\ Settings \subseteq BOOLEAN /\ Replenishing \in BOOLEAN
    /\ {Floor, Target, Minimum, RefreshEvery, CheckEvery, MaxUSDC, MaxFaults} \subseteq Nat
    /\ Floor <= Target

VARIABLES
    rebalancing,             \* rebalance_enabled
    bnb, usdc,               \* the account
    order, lost,             \* the reserve order under way, and those in doubt
    control, record,         \* desired_state; an active deal record exists
    pc, turn, due,           \* place, ticks since the top, what was due there
    known, active,           \* balances, bnb_fee_discount_active
    refreshIn, checkIn,      \* ticks until balance_at + 5 s and next_maintenance
    faults,
    disturbed                \* history: since balances were read, maintenance or a deal
                             \* raised, or BNB was spent elsewhere

account == <<bnb, usdc, order, lost>>
outside == <<control, record>>
timers  == <<refreshIn, checkIn>>
view    == <<known, active>>
vars    == <<rebalancing, account, outside, pc, turn, due, view, timers, faults, disturbed>>

Later(n) == IF n > turn THEN n - turn ELSE 0     \* n ticks after the top of the loop
Less(n)  == IF n > 0 THEN n - 1 ELSE 0
Smaller(m, n) == IF m < n THEN m ELSE n
Bigger(m, n)  == IF m < n THEN n ELSE m

Init ==
    /\ rebalancing \in Settings
    /\ bnb \in 0..Target /\ usdc = MaxUSDC /\ order = 0 /\ lost = <<>>
    /\ control = "running" /\ record = FALSE
    /\ pc = "top" /\ turn = 0 /\ due = [refresh |-> TRUE, check |-> TRUE]
    /\ known = [bnb |-> bnb, usdc |-> usdc] /\ active = FALSE
    /\ refreshIn = 0 /\ checkIn = 0 /\ faults = 0 /\ disturbed = FALSE

Tick ==
    /\ refreshIn' = Less(refreshIn) /\ checkIn' = Less(checkIn)
    /\ turn' = IF turn < CheckEvery + RefreshEvery THEN turn + 1 ELSE turn
    /\ UNCHANGED <<account, outside, pc, due, view, faults, disturbed>>

Goto(from, to) == pc = from /\ pc' = to /\ UNCHANGED <<outside, turn, due, faults>>

-----------------------------------------------------------------------------
Top ==
    /\ pc = "top" /\ control = "running" /\ ~record
    /\ pc' = "seed" /\ turn' = 0 /\ due' = [refresh |-> refreshIn = 0, check |-> checkIn = 0]
    /\ UNCHANGED <<account, outside, view, timers, faults, disturbed>>

Seed ==
    /\ Goto("seed", IF due.refresh THEN "refresh" ELSE "maintain")
    /\ UNCHANGED <<account, view, timers, disturbed>>

\* client.balances (mutant: the account as it was last read).
RefreshCached ==
    /\ Goto("refresh", "maintain") /\ UNCHANGED known
    /\ refreshIn' = Later(RefreshEvery) /\ disturbed' = FALSE
    /\ UNCHANGED <<account, active, checkIn>>
Refresh ==
    /\ Goto("refresh", "maintain") /\ known' = [bnb |-> bnb, usdc |-> usdc]
    /\ refreshIn' = Later(RefreshEvery) /\ disturbed' = FALSE
    /\ UNCHANGED <<account, active, checkIn>>

\* _handle_rate_limit: seeding, reading balances or scanning was refused.
Limited ==
    /\ pc \in {"seed", "refresh", "scan"} /\ pc' = "waiting" /\ turn' = 0
    /\ UNCHANGED <<account, outside, due, view, timers, faults, disturbed>>
WaitOver ==
    /\ turn > 0 /\ Goto("waiting", "top") /\ UNCHANGED <<account, view, timers, disturbed>>

-----------------------------------------------------------------------------
\* Maintenance.
Checked == rebalancing /\ due.check
ReserveLow == known.bnb < Floor

NoCheck ==
    /\ ~Checked /\ Goto("maintain", "reserve") /\ UNCHANGED <<account, view, timers, disturbed>>
NotDue ==
    /\ Checked /\ ~ReserveLow /\ Goto("maintain", "reserve")
    /\ checkIn' = Later(CheckEvery) /\ UNCHANGED <<account, view, refreshIn, disturbed>>

\* rebalancer.run, due or for a low reserve, on balances it reads itself: what the reserve
\* lacks, or the least purchase, is bought if there is as much.
Lack == Bigger(Minimum, Target - bnb)

Run ==
    /\ Checked /\ Goto("maintain", IF bnb < Floor THEN "restore" ELSE "convert")
    /\ order' = (IF bnb < Floor /\ usdc >= Lack THEN Lack ELSE 0)
    /\ checkIn' = Later(CheckEvery)
    /\ UNCHANGED <<bnb, usdc, lost, view, refreshIn, disturbed>>
RunFails ==
    /\ Checked /\ Goto("maintain", "top") /\ disturbed' = TRUE
    /\ checkIn' = Later(CheckEvery) /\ UNCHANGED <<account, view, refreshIn>>

\* The reserve first; its commission may be paid from it.
Restore(fee) ==
    /\ control = "running" /\ fee < Smaller(order, usdc) /\ order' = 0
    /\ bnb' = bnb + Smaller(order, usdc) - fee /\ usdc' = usdc - Smaller(order, usdc)
    /\ Goto("restore", "restored") /\ UNCHANGED <<lost, view, timers, disturbed>>
Restored ==
    /\ bnb >= Floor /\ Goto("restored", "convert")
    /\ UNCHANGED <<account, view, timers, disturbed>>

\* A holding is sold for USDC and its commission paid in BNB.
Convert ==
    /\ control = "running" /\ bnb > 0 /\ usdc < MaxUSDC
    /\ bnb' = bnb - 1 /\ usdc' = usdc + 1
    /\ Goto("convert", "convert") /\ UNCHANGED <<order, lost, view, timers, disturbed>>

Running == {"restore", "restored", "convert"}

\* The order under way, if any, was not sent or was refused; or it is in doubt.
Dropped == order' = 0 /\ UNCHANGED lost
InDoubt == order' = 0 /\ order > 0 /\ lost' = Append(lost, order)
Fault   == faults < MaxFaults /\ faults' = faults + 1

Return ==
    /\ pc \in Running /\ Goto(pc, "top") /\ Dropped /\ refreshIn' = 0
    /\ UNCHANGED <<bnb, usdc, view, checkIn, disturbed>>
RunLimited ==
    /\ pc \in Running /\ pc' = "waiting" /\ turn' = 0 /\ Dropped /\ disturbed' = TRUE
    /\ UNCHANGED <<bnb, usdc, outside, due, view, timers, faults>>

\* An order in doubt keeps its record.  One for the reserve may be executed yet.
Stuck ==
    /\ pc \in Running /\ pc' = "top" /\ record' = TRUE /\ disturbed' = TRUE /\ Fault
    /\ Dropped \/ InDoubt
    /\ UNCHANGED <<bnb, usdc, control, turn, due, view, timers>>

-----------------------------------------------------------------------------
\* The flag, and whether the loop goes on to the scan.
Gate(flag) == IF rebalancing /\ ~flag THEN "top" ELSE "scan"

KeepFlag ==
    /\ ~due.refresh /\ Goto("reserve", Gate(active))
    /\ UNCHANGED <<account, view, timers, disturbed>>

SetFlag(flag) ==
    /\ active' = flag /\ UNCHANGED <<known, checkIn, disturbed>>
    /\ refreshIn' = IF ~flag /\ Replenishing THEN 0 ELSE refreshIn

FlagOnly ==
    /\ due.refresh /\ (rebalancing \/ ~ReserveLow)
    /\ Goto("reserve", Gate(~ReserveLow)) /\ SetFlag(~ReserveLow) /\ UNCHANGED account

\* maintain_bnb_fee_reserve: nothing is bought for want of a ticker, of USDC or of an
\* executable size.
ReserveShort ==
    /\ due.refresh /\ ~rebalancing /\ ReserveLow
    /\ Goto("reserve", "scan") /\ SetFlag(FALSE) /\ UNCHANGED account

\* What the reserve lacks, or what there is.
Budget == Smaller(Target - known.bnb, known.usdc)

Buy ==
    /\ due.refresh /\ ~rebalancing /\ Replenishing /\ ReserveLow /\ Budget > 0
    /\ Goto("reserve", "buying") /\ SetFlag(FALSE) /\ order' = Budget
    /\ UNCHANGED <<bnb, usdc, lost>>

BuyFills ==
    /\ usdc >= order /\ bnb' = bnb + order /\ usdc' = usdc - order /\ order' = 0
    /\ Goto("buying", "scan") /\ UNCHANGED <<lost, view, timers, disturbed>>

\* Any exception of the order stops the service; after a lost answer the order may live.
BuyRefused ==
    /\ Goto("buying", "dead") /\ Dropped /\ UNCHANGED <<bnb, usdc, view, timers, disturbed>>
AnswerLost ==
    /\ pc = "buying" /\ pc' = "dead" /\ Fault /\ InDoubt
    /\ UNCHANGED <<bnb, usdc, outside, turn, due, view, timers, disturbed>>

\* Binance executes the oldest such order, or never does.
Land ==
    /\ lost # <<>> /\ lost' = Tail(lost)
    /\ \/ usdc >= Head(lost) /\ bnb' = bnb + Head(lost) /\ usdc' = usdc - Head(lost)
       \/ UNCHANGED <<bnb, usdc>>
    /\ UNCHANGED <<order, outside, pc, turn, due, view, timers, faults, disturbed>>

\* What else spends BNB: an order in doubt of a deal or of a conversion that is executed
\* late, the account's owner.
SpentElsewhere ==
    /\ bnb > 0 /\ bnb' = bnb - 1 /\ disturbed' = TRUE
    /\ UNCHANGED <<usdc, order, lost, outside, pc, turn, due, view, timers, faults>>

-----------------------------------------------------------------------------
\* run_once.
NoDeal    == Goto("scan", "top") /\ UNCHANGED <<account, view, timers, disturbed>>
BeginDeal == Goto("scan", "deal") /\ UNCHANGED <<account, view, timers, disturbed>>

\* A deal pays fees in BNB, or leaves some of the BNB its route passes through.
DealMoves ==
    /\ \/ UNCHANGED <<bnb, usdc>>
       \/ bnb > 0 /\ bnb' = bnb - 1 /\ UNCHANGED usdc
       \/ usdc > 0 /\ bnb' = bnb + 1 /\ usdc' = usdc - 1
    /\ UNCHANGED <<order, lost>>

\* It ends (mutant: the balances are read at the usual time).
DealEndsUnread == Goto("deal", "top") /\ DealMoves /\ UNCHANGED <<view, timers, disturbed>>
DealEnds ==
    /\ Goto("deal", "top") /\ DealMoves /\ refreshIn' = 0
    /\ UNCHANGED <<view, checkIn, disturbed>>

\* It fails, with its record archived or not: the service stops.
DealFails ==
    /\ pc = "deal" /\ pc' = "dead" /\ DealMoves /\ record' \in BOOLEAN
    /\ UNCHANGED <<control, turn, due, view, timers, faults, disturbed>>

\* It fails, and its recovery is refused the tickers for the rate: the loop only waits, and
\* keeps its balances and its flag.
DealLimited ==
    /\ pc = "deal" /\ pc' = "waiting" /\ turn' = 0 /\ DealMoves /\ record' = TRUE
    /\ disturbed' = TRUE /\ UNCHANGED <<control, due, view, timers, faults>>

Crash ==
    /\ pc \notin {"dead", "buying"} /\ pc' = "dead" /\ Fault
    /\ \/ Dropped /\ record' \in IF pc \in Running \cup {"deal"} THEN BOOLEAN ELSE {record}
       \/ InDoubt /\ record' = TRUE
    /\ UNCHANGED <<bnb, usdc, control, turn, due, view, timers, disturbed>>
Restart ==
    /\ Goto("dead", "top") /\ refreshIn' = 0 /\ checkIn' = 0 /\ disturbed' = FALSE
    /\ known' = [bnb |-> bnb, usdc |-> usdc] /\ active' = FALSE /\ UNCHANGED account

Loop ==
    \/ Top \/ Seed \/ Refresh \/ Limited \/ WaitOver
    \/ NoCheck \/ NotDue \/ Run \/ RunFails \/ Convert
    \/ (\E fee \in 0..(Target + Minimum) : Restore(fee)) \/ Restored
    \/ Return \/ RunLimited \/ Stuck \/ KeepFlag \/ FlagOnly \/ ReserveShort
    \/ Buy \/ BuyFills \/ BuyRefused \/ AnswerLost
    \/ NoDeal \/ BeginDeal \/ DealEnds \/ DealFails \/ DealLimited
    \/ Crash \/ Restart

\* The operator pauses, resumes, and clears a record at the top of the loop.
Operator ==
    /\ \/ control' \in {"running", "paused"} \ {control} /\ UNCHANGED record
       \/ record /\ pc = "top" /\ record' = FALSE /\ control' = "paused"
    /\ UNCHANGED <<account, pc, turn, due, view, timers, faults, disturbed>>

Next == (Loop \/ Operator \/ Tick \/ Land \/ SpentElsewhere) /\ UNCHANGED rebalancing
Spec == Init /\ [][Next]_vars

-----------------------------------------------------------------------------
\* What one purchase may make of the reserve: its target or, with the rebalancer, that buys
\* Minimum at least, as much on top of less than the floor.
Cap == IF rebalancing THEN Bigger(Target, Floor - 1 + Minimum) ELSE Target

\* While the reserve is bought, it comes with that order and all that are in doubt to no more
\* than one purchase may make of it, and as much again for every lost answer and crash: each
\* is bought on balances read since the last one, whatever deals did in between.
ReserveBounded ==
    /\ \A i \in DOMAIN lost : lost[i] <= Cap
    /\ order > 0 => bnb + order + Cap * Len(lost) <= Cap * (1 + faults)

\* A deal begins only next to no active record (README.md:183) and, with rebalancing on,
\* with the reserve at its floor, also after the fees of earlier deals and of maintenance,
\* unless since the balances were read maintenance or a deal's recovery raised, or BNB was
\* spent elsewhere.
EntryChecked ==
    pc = "scan" /\ pc' = "deal" => ~record /\ (rebalancing => bnb >= Floor \/ disturbed)
EntryWithReserve == [][EntryChecked]_vars

\* "Unresolved outcomes block further trading", of maintenance orders (README.md:185): no
\* reserve order is sent while an earlier one is in doubt.  False of the code: see the
\* findings.
AmbiguousStops == pc = "buying" => lost = <<>>
=============================================================================
