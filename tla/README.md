# binarb in TLA+

This directory models binarb, a service that trades triangles on the Binance
spot market: it converts a start asset over three pairs back into itself when
the books promise a profit. The specifications are written from the Python code
under `src/binarb/`; the modules are checked with TLC on small instances, and
the most important results are proved with TLAPS for all instances.

## 1. The system

### Components

| component | code | state it keeps | operations |
|---|---|---|---|
| Executor | `executor.py` | the deal in hand: leg, policy, budget, fills; the deal record it saves | `execute`, `_run_leg`, `_place_and_resolve`, `_await_credit`, `_recover_to_start` |
| Record store | `state.py` | one JSON file per active deal, an archive directory, a list of blocked symbols | `save`, `active`, `finish`, `prune`, `clear_active`, `block_symbol`, `seed_blocked_symbols_from_archive` |
| Main loop | `app.py` | balances and their age, schedules, runtime counters | one iteration: control, clear, gate, seed, balances, maintenance, BNB reserve, scan, execute |
| Control plane, operator | `control_plane.py`, `tg_gateway.py` | one control file (running/paused, clear request), one status file | `/barb_start`, `/barb_stop`, `/barb_clear`, `/barb_status` |
| Trade reports | `reporting.py`, `tg_gateway.py` | an SQLite table of trades with delivery state | `record`, `import_archives`, `summary`, `deliver` |
| Rebalancer | `rebalance.py` | a schedule file; a record of kind REBALANCE | `due`, `preview`, `cleanup_plan`, `_convert`, `run` |
| Market stream | `market_stream.py` | latest quote per symbol, update ids, connection health | `seed`, `snapshot`, `_message`, `_open`, `_close`, `_run` |
| Scanner | `scanner.py`, `models.py` | none | discovery of triangles, simulation, sizing |
| Client | `client.py`, `errors.py` | pair filters, commission cache, request window | placement, lookup, order filters, commission rates |
| Commissions | `commissions.py` | none | fee profiles and their plan over a route |
| BNB reserve | `app.py` | none | `maintain_bnb_fee_reserve` |
| Research, probes, status text | `research*.py`, `app.py` | samples on disk | read-only |

### How they interact

Two processes share files. The strategy process runs the main loop, in which
scanning, rebalancing and executing take turns: there is never more than one
order-placing activity in it. The gateway process writes the control file and
sends reports. A websocket thread per connection fills the quote cache. The
exchange is the third party: a request may be refused, accepted late, accepted
with a lost answer, or lost, and an accepted order may fill at any time.

What ties the parts together is the *active record*: a deal's JSON file from the
first save until `finish` archives it. While any exists, no new deal or
maintenance begins. The operator's `/barb_clear` archives it by hand.

### What is hard

* an order's outcome may be unknown, and the process may die, at every step
  between the save of an order's record and the booking of its fill;
* three policies for a leg, then recovery, share one budget that partial fills
  consume;
* failures while handling failures: recovery that fails, `finish` that fails
  after its outcome was saved, a second failure in the flattening of a deal that
  had otherwise completed;
* the operator's commands arrive at any point, also between reading the control
  file and acting on it;
* REST and websocket quotes arrive in any order, also across reconnects;
* reports are delivered at least once, across restarts of either process.

`PROJECT.json` lists each hazard at its line.

### What makes each component correct

| component | correct when |
|---|---|
| Executor | an order is recorded before it is sent, sent once, and never beside another unresolved order of its deal; the ledger on disk is what the exchange moved; a deal spends within its authorization; a retired deal is settled and flat; every deal ends |
| Record store, main loop | one active record at a time; an unresolved order blocks new deals until the operator clears it |
| Control plane | after a pause nothing enters but what was already journaled; a clear is done once; the last command wins |
| Reports | a trade is reported at least once, counted once, and never lost to a crash |
| Rebalancer | the order journal's promises; reserve first; a skipped conversion never hides an unresolved order |
| Market stream | a quote is as fresh as its stamp says; a seed never moves one back; none outlives its connection |
| Commission cache | at most thirty requests in any minute; no rates that were out of force for longer than a minute |
| BNB reserve | it is bought once, and a deal begins only with what its fees need |
| Scanner, client filters | routes are found where there are some and can be valued; the best are confirmed on fresh books; an order fits its budget and is the most there is |
| Research capture | the directory keeps its caps whatever fails |

## 2. Modules

| module | what it is |
|---|---|
| `Executor` | a triangular deal: the strategy process, the exchange, the operator and the disk |
| `Rebalance` | allocation maintenance with its records, the same exchange, operator and disk |
| `OrderJournal` | abstract: what a durable order journal promises, whoever writes it |
| `ExecutorJournal` | the refinement mapping from `Executor` to `OrderJournal`, and the inductive invariant `JournalInv` |
| `Reports` | trade reports: `finish` write by write, the archive import and pruning, the report table, its delivery with back-off by a second process |
| `Outbox` | abstract: what the report table promises |
| `ControlPlane` | the operator's commands: Telegram's offset, the gateway, the control file, the loop that consumes clears |
| `MainLoop` | one iteration around the BNB reserve: control and record, seeding, balances, maintenance, reserve purchase, gate, deal |
| `MarketStream` | the quote cache of one websocket connection, and the REST seeds that race with it |
| `CommissionBudget` | the commission cache and the window of its requests |
| `ResearchCapture` | the capture directory, step by step on disk |
| `OrderSizing` | limit and market order preparation, and one leg of the scanner's simulation, as functions |
| `Routes` | triangles, conversion paths, the reference markets for BNB |
| `Shortlist` | the ranking of the signals of all start currencies and its two cuts |
| `Confirmation` | the confirmation of the shortlisted candidates over a shared cache of books |
| `MCGateway`, `MCService`, `MCScan` | compositions for the model checker |
| `ExecutorTypes`, `ExecutorJournalProofs`, `ExecutorLedger` | proofs about `Executor`: types and pauses, orders, amounts |
| `RebalanceProofs` | proofs about `Rebalance` |
| `GatewayProofs` | proofs about `Reports` and `ControlPlane`, as `MCGateway` puts them together |
| `ServiceProofs` | proofs about `MarketStream`, `CommissionBudget`, `ResearchCapture` (`MCService`) |
| `MainLoopProofs` | proofs about `MainLoop` |
| `ScanProofs` | proofs about `Confirmation`, `OrderSizing`, `Routes`, `Shortlist` (`MCScan`) |

The three `MC` modules put side by side components that share no state: the two halves
of the gateway, what the service keeps between scans, and the way from the loop to a
deal. Their variable `part` names the one that moves; the others rest in one initial
state, since interleaving what shares nothing multiplies the states and shows nothing. They
declare the constants of their parts, with the assumptions the proofs need: times, limits
and sizes are naturals, steps, ticks, prices and amounts positive, a directory may hold a
file and one capture fits it (`MaxFileBytes <= MaxBytes`, as in research.py), the assets are
finitely many. The proofs
about the parts are about these compositions, whose steps include every step of a part.
What does interact is inside one module: gateway and strategy in `Reports` and
`ControlPlane`, stream and loop in `MarketStream`, exchange and process in `Executor`
and `Rebalance`, and the last two with each other through `OrderJournal`.

Where a module has alternatives to a definition (`BookedOver`, `SeedLate` ...), marked
"mutant" in the comment above, they are the mutants of section 3 and belong to no
specification.

### Executor and the code

The model has one process whose place in the code is `pc`:

| `pc` | place |
|---|---|
| `idle`, `scan`, `clearing` | the main loop before the gate, between gate and `execute`, inside the clear |
| `preflight` | `execute` after the intent was saved (executor.py:57-115) |
| `attempt` | the top of the loop over policies in `_run_leg` (213) |
| `send`, `await`, `resolve`, `poll` | `_place_and_resolve`: record saved, request sent, lookup by client id, polling |
| `account` | fill known, not yet booked (249-265, 429-434) |
| `credit` | `_await_credit` after a leg |
| `tickers`, `recover` | `_recover_to_start` |
| `retire` | `finish` |
| `raise`, `ambiguous` | the two exception handlers of `execute` |
| `dead` | the process is down; docker restarts it |

`phase` says on whose behalf: `legs`, `flatten` (the flattening that ends a
successful route) or `recover` (the one in the failure handler). `leg`, `policy`,
`amount`, `spent`, `out`, `todo`, `ok` and `dust` are locals of the code; a crash
or leaving `execute` loses them. `place`, `status`, `orders`, `input`, `inv`,
`startSpent` and `authorized` are the saved record. `save` replaces a file
atomically, so an action that changes the record changes memory and disk at once,
and several saves in a row of fields no property tells apart are one action.
`status` is kept for the values the properties and `finish` depend on; the
progress labels (`LEG_1_SUBMITTING` ...) are abstracted into `IN_PROGRESS`.

The exchange keeps for each client order id whether it is unknown, on the wire,
open, refused, lost or done (`ex`), and what it moved (`acct`). `Accept` and
`Match` may happen at any later time, also after the process gave the order up
or died. `fill` is the result of the order being waited on, read when the process
books it.

Amounts are naturals. An order for `q` spends up to `q + MaxOver` and returns what
it spent less at most `MaxCost`: prices are 1 up to that loss, which is enough for
sums, remainders and comparisons, the only arithmetic the properties are about.
The exchange's order filters are the sets `LimitLots` and `MarketLots` of amounts
they let pass. Fees in a third asset, profit figures, the symbol blocklist and
everything that only decides *whether* a candidate is good are left out: a
candidate may or may not exist, a preflight may pass, reject or raise.

### Rebalance and the code

Again `pc` is the place: `convert` and `hop` are the head of `_convert` and of its loop
over a path (rebalance.py:172, 178), `send`, `await`, `resolve`, `account` and `credit`
are as in `Executor`, `recheck` is the check of the reserve (282), `next` the loop over
holdings (292), `wrap` the final status (303), `raise` and `ambiguous` the two handlers
(314, 310), `retire` is `finish`. `task` tells the reserve's conversion from a holding's,
`left` counts the holdings still to visit, `hops` the orders left on the path, `exc`
whether the exception is a definite Binance error. `orders`, `status` and `failures`
are the saved record.

The amounts are left out: whether a path exists, a filter refuses, a book is stale, a
price moved or the reserve is short is a choice. Every maintenance order is FOK, so the
exchange's `Accept` makes it final at once; an order reported as still working, which
`_place_and_resolve` would poll, does not occur in this module.

The two modules are separate because the main loop is: `run` and `execute` are called
in turn by one thread and each refuses to begin while any record is active.
`OrderJournal` states what one leaves to the other, and each is shown to keep it.

### Reports and the code

`spc` walks through `import_archives`, `execute`, and `finish` as it is written: `SaveOutcome`
(state.py:110), `Record` (114), `Move` (115), `Prune` (118). `FinishFails` is an exception in
any of them, after which the deal's failure handler leaves it active. `gpc` walks through a
round of `deliver`: `Fetch` (the oldest `limit` rows that are due), then row by row
`Accepted`, `AnswerLost` or `Refused`, and the commit of what came of it. `row` is the
table, `wait` the time to `retry_at`, `chat` what Telegram took. `filed` remembers what was
archived although `Prune` removes the file. `poison` is the set of reports Telegram always
refuses and `limit` is `deliver`'s, both chosen in the initial state.

### ControlPlane and the code

`inbox` and `confirmed` are Telegram's: a poll confirms what precedes its offset and returns
the rest. `gpc` and `batch` are the gateway's, one command at a time; `StopRead` and
`StopWrite` are the two halves of `write_control`, between which the loop's `Consume` may
write. `lpc` walks through control, clear, consume, and the gate (app.py:717-734). Executed
commands are counted in `count`; `will` is the last start or stop and `asked` a clear
not yet done.

### MainLoop and the code

`rebalancing` is `rebalance_enabled`, which an instance sets or leaves open (`Settings`).
`pc` is the place in the iteration, `turn` the ticks since its top, so that timers set from
the `now` of the top (`Later`) come out short by what the iteration took. `due` is what was
due there. `known` and `active` are `balances` and `bnb_fee_discount_active`, which the gate
uses; `bnb` and `usdc` are the account. `order` is the reserve order under way: what
`maintain_bnb_fee_reserve` buys (`Budget`), or what the rebalancer buys (`Lack`), which is at
least what the market takes (`Minimum`, rebalance.py:275-278) and may therefore pass the
target. The rebalancer is reduced to what it does to the reserve (`Run`, `Restore`, `Convert`),
its look at what became of it (`Restored`) and how it ends (`Return`, `RunLimited`, `Stuck`,
`RunFails`). `lost` are reserve orders in doubt, the rebalancer's too, which `Land` may still
execute, also after the operator cleared the record. A path over several markets is one
order. A deal is reduced to the BNB it moves, by its fees or because its route passes
through it (`DealMoves`), and its end: `DealEnds`, `DealFails`, which stops the service, or
`DealLimited`: recovery's request for tickers was refused for the rate (executor.py:415), and
the loop only waits (app.py:792) with the record active, its flag and balances as they were.
`SpentElsewhere` is what else spends BNB: late orders of deals and conversions, the owner.
`disturbed` is a history variable: since balances were read, maintenance or a deal raised,
or BNB was spent elsewhere. Dollars are naturals and prices do not move. Assumed is
`Floor <= Target`, which `Settings.load` checks (app.py:142).

### MarketStream, CommissionBudget, ResearchCapture and the code

A quote is known by its version, the exchange's count of changes, which is also its
update id; `overtaken` keeps when each ceased to be the best. `rest`, `asked` and
`content` are a ticker request: its place, the stamp taken before it, and its answer. In
`CommissionBudget` rates are known by their number and `made` keeps the times of all
requests of a process; `requests`, the window the code keeps, is a set of places in it, so
that two requests of one instant stay two. In `ResearchCapture` a file is a record
of number, size and time, and the bytes of a directory are counted one by one
(`Contents`), which is a sum the prover can reason about; removals, the temporary file and the rename are separate steps.

### OrderSizing, Routes, Shortlist, Confirmation and the code

`OrderSizing` chooses an amount, a pair's filters, a book and a commission, and computes what
`prepare_limit_order`, `prepare_market_order` and one leg of `simulate_detailed` make of
them, in quanta and with exact quotients; refusals keep the code's order and reasons.
`Routes` chooses a set of markets and runs `conversion_path` queue entry by queue entry, then
asks `reference_symbols` for the books of what it found; the choices at the end of a path
go in one of their orders (`Sorted`), of which there is one where symbols are ordered.
What `conversion` reaches over the books is what every set closed under them holds.
`Shortlist` filters, appends, sorts and cuts as `find_best` does (the filter and the sorted
order are written out, since of `SelectSeq` and `SortSeq` nothing can be proved);
`Confirmation` takes any list of candidates: for each the
choice between cached and fetched books, and the checks of their age and skew.

## 3. What the runs check

| run | instance | properties |
|---|---|---|
| `executor_route` | 3 legs, 1 deal of up to 2, overspend 1, cost 1, amounts 1..2 limit, 2..3 market | `TypeOK`, `WriteAhead`, `OneAtATime`, `NoResubmission`, `LedgerExact`, `WithinMeans`, `RetiredFlat`, `RetiredSettled`, `PauseRespected` |
| `executor_sequence` | 2 legs, 2 deals, market orders only | `UnresolvedBlocksEntry`, `KeepsJournal` |
| `executor_recovery` | 2 legs, 1 deal of up to 3, positions of 2 left for flattening, fair process | `JournalInv`, `DealEnds` |
| `executor_faults` | automatic recovery off, local faults on | `RetiredSettled` |
| `executor_local_fault` | automatic recovery on, local faults on | `RetiredSettled`, violated: finding 1 |
| `executor_market_maximum` | a position above the market maximum | `RetiredFlat`, violated: finding 2 |
| `rebalance` | 2 runs of 2 conversions, the first over paths of up to 2 orders, fair process | `RecordTruthful`, `SkipDoesNotStop`, `CompleteMeansDone`, `PauseRespected`, `KeepsJournal`, `RunEnds` |
| `gateway` | 1 old and 2 new deals, archive of 1, batches of 1 or 2, back-off 1, 2, 3, 1 fault; 3 commands, 1 fault | `ArchivedCounted`, `DuplicatesNeedFaults`, `KeepsPromise`, `ReportsArrive`; `StopHolds`, `ExecutedOnce`, `ClearsHappen` |
| `service` | 4 quotes of 1 symbol, 4 ticks, 1 close; 2 symbols, 2 requests in 3 of 7 ticks, 3 commissions; 5 captures of sizes 1, 3, 6 | `SnapshotHonest`, `WatermarkHolds`, `SeedNeverRegresses`; `RequestsWithinBudget`, `RatesInForce`; `Capped` |
| `scan` | the loop with rebalancing and without, reserve 2 to 3 and 4 dollars, least purchase 3, 2 faults; amounts to 10, books of 1 and 2 levels, 4 filters, 18 commissions; 5 assets and every set of markets; 3 signals for 2 starts; 3 candidates over 3 books, 6 ticks | `ReserveBounded`, `EntryWithReserve`; `OrderFits`, `SimulationSound`; `RoutesUsable`; `ShortlistBest`, `LeftoversHarmless` |
| `control_plane_dropped` | 3 commands, 1 fault | `FaultLosesOne`, violated: finding 3 |
| `main_loop_ambiguous` | no rebalancing, 1 fault | `AmbiguousStops`, violated: finding 4 |

In words:

* `WriteAhead`: whatever the exchange knows of is named in a durable record.
* `OneAtATime`: of one deal at most one order is ever unresolved.
* `NoResubmission`: an order that was sent is never sent again.
* `LedgerExact`: unless a fill is not booked yet, the saved inventory and start
  spend are what the exchange moved.
* `WithinMeans`: over legs, policies and recovery a deal spends no more than it was
  authorized or has acquired, but for what one fill may overspend.
* `RetiredFlat`: a deal the service retired leaves nothing the market would take.
* `RetiredSettled`: a deal the service retired has no order that could still fill.
* `UnresolvedBlocksEntry`: only the operator's clear lets a deal begin over an
  unresolved order of an earlier one.
* `PauseRespected`: after a pause at most the one journaled order leaves.
* `KeepsJournal`: every step is one `OrderJournal` allows.
* `DealEnds`, `RunEnds`: a deal, a maintenance run the process works on ends.
* `RecordTruthful`: an order recorded as rejected was never taken, and a run the
  service retired leaves no order undecided. The handler's test on the last order's
  status is what this rests on.
* `SkipDoesNotStop`: an order that was skipped as refused is never, later in the run,
  taken for one in doubt.
* `CompleteMeansDone`: a run with a refused order never counts as complete.
* `ArchivedCounted`: what the service archived as a trade is in the totals.
* `DuplicatesNeedFaults`: a report is told again only for a fault, and what the import
  counts is never told.
* `KeepsPromise`: every step is one `Outbox` allows. `ReportsArrive`: a report that Telegram
  does not refuse for ever is told in the end, also behind those it does refuse.
* `StopHolds`: after a stop or clear the file says paused until a start, whatever the
  loop writes meanwhile. `ExecutedOnce`: each message is executed once but for faults.
  `ClearsHappen`: a clear that is not revoked archives the record.
* `SnapshotHonest`: a REST quote in a snapshot was the market within its maximal age.
  `WatermarkHolds`: a websocket quote is the newest its connection brought.
  `SeedNeverRegresses`: a seed never replaces a quote by an older one.
* `RequestsWithinBudget`: no minute, wherever it begins, has more requests than the
  limit. `RatesInForce`: rates returned were in force in the last minute.
* `ReserveBounded`: while the reserve is bought, it comes with that order and those in doubt
  to no more than one purchase may make of it (`Cap`: the target or, with the rebalancer, less
  than the floor and the least purchase, if that is more), and as much again for every
  lost answer or crash. It is not bought twice on balances of before the first.
  `EntryWithReserve`: a deal begins next to no record and, with rebalancing on, with the
  reserve at its floor unless, since balances were read, maintenance or a deal's recovery
  raised or BNB was spent elsewhere.
* `Capped`: the capture directory keeps both caps.
* `OrderFits`: an order and its commission fit the budget, its price crosses the
  market by less than a tick, and no larger one fits. `SimulationSound`: a simulated leg
  is what the best execution of the book gives, is not cut off by the route minimum, and
  can be placed.
* `RoutesUsable`: the search returns a shortest permitted path or there is none, and one
  bridge values every commission of a route.
* `ShortlistBest`: nothing left out is better than what is kept, within both limits.
  `LeftoversHarmless`: what earlier candidates left in the cache costs no later one.

### Bounds

`N = 3` is the real route length; it gives two intermediate assets, so recovery
has an order in which one of two positions fails. Amount 2 with `MaxOver = 1`
allows an attempt to fill nothing, part, all or more than its input; three
policies and two positions then reach every split of a budget over FOK, IOC,
MARKET and recovery. Amount 1 is not executable on the market in the route run, so
skipped attempts and dust occur. Two deals are enough for what one deal leaves for
the next: a third sees the same files as the second. The sequence run shortens
the route and the amounts because its question is about records and orders, not
sums. The recovery run has a last leg that can leave a position the market still
takes, so that flattening sends orders and fails in every way before the failure
handler has its turn; there a second recovery would reuse client order ids. The cap
on deals is in the action that starts one; there is no other cap.

For `Rebalance`, two conversions are one of each kind (the reserve's and a holding's), so
that a refusal in the first is followed by a failure in the second; two orders are the
shortest path in which a first order has settled when a second fails; two runs show
what the first leaves for the second. The real `max_hops` is 3.

In the gateway run two new deals are enough for one to be refused for ever in front of
the other, batches of one make the refused one fill the batch, and an archive of one file
makes the second deal prune the first. The back-off of three lengths is the code's capped
doubling in ticks of its shortest; a fixed one already starves the second report. Three
commands are the most any of the races needs (stop, clear, start). One fault
on each side is every kind of it; more are covered by the proofs.

In the service run a connection that closes once and four versions let an update be
overtaken by a seed, the seed by an update, and both by the new connection. Seven ticks
are two windows of three and one; six ticks in `Confirmation` exceed twice the books'
maximal age. In the scan run the reserve of 2 to 3 dollars is the smallest with a floor below the
target and fees that cross it; a least purchase of 3 is more than an almost full reserve
lacks, so that the rebalancer passes its target; 4 dollars buy once and leave too
little for a second purchase until something is sold; and two faults are a lost answer
after a lost answer. The filters in `MCScan` make each rule bind at least
once. Five assets hold a route of the maximal three hops, a rival of the same length and
one more. Books of two levels are enough for an order to reach past the first.

Each property of a passing run has a mutant in `PROJECT.json`: a change to one definition
that a plausible bug would make (a policy that ignores what was spent, a save after
the send, a retry after a lost answer, a seed stamped on arrival ...), under which TLC
finds the property violated with the run's own configuration.

### Fairness

`Executor` and `Rebalance` assume weak fairness of the process's own steps as a whole: the
service runs, and docker's `restart: unless-stopped` brings it back. Nothing is assumed
of the exchange or the operator: lookups and polls are bounded in the code (7 lookups,
`poll_attempts`, `settlement_attempts`), which the model expresses by `GiveUp` and
`CreditFails` being possible whenever the process waits. `DealEnds` therefore does not
rest on the exchange ever answering. It does not say that a deal ends *well*: an
unresolved one stays active for the operator.

`MCGateway` assumes it of a delivery round (every request in it has a timeout), of time,
and of the main loop (its iteration ends by `DealEnds`, `RunEnds` and request timeouts). Faults
are bounded, so they end; the operator and new deals are not fair. `ReportsArrive` says
nothing of reports that Telegram refuses for ever. The other runs check safety only.

## 4. What is proved

For every value of the constants, from the assumptions their modules state. Each group
rests on an inductive invariant; of the properties only `StopHolds` is one by itself.

* **Types and the pause** (`ExecutorTypes`). `TypeCorrect`: one lemma per group of variables;
  what is not immediate is that the ledger stays natural, because a booking clamps its
  source. `PauseHolds`, local faults included: `PauseInv` adds that no late entry has
  been counted whenever an entry order is about to be sent.
* **The executor's orders** (`ExecutorJournalProofs`). `OrdersInv` holds through local faults
  too and gives `OrdersAreRecorded` and `OrdersAreSentOnce`: where the process stands
  (`WalkOK`), which record it has (`RecordsOK`), that sent orders are on record (`Recorded`,
  `Submitted`), that the orders still to come were never sent (`Fresh`), and that a leg leaves
  only its last order behind (`LegQuiet`). `Fresh` carries the argument: `ToCome`, the set
  of orders the deal may still come to, only shrinks, because policies and legs advance,
  recovery visits a position once, and only one recovery is made; so a client order id
  is never reused, whatever failed in between.
  Without local faults `JournalInv` adds that an order the process moves on from is terminal
  (`Quiet`), that at most one order is left in doubt (`Lone`), and `RetiredSettled`; it gives
  `OneOrderInDoubt` and the refinement of `OrderJournal`, `ExecutorKeepsJournal`. `Quiet` carries
  this part: apart from the order being waited on nothing is unresolved, so the code may
  send the next one or retire the deal. `RetiredDealsAreSettled` and `DoubtBlocksEntry` need
  only that there are no local faults or no automatic recovery (`SettledInv`): a leg that
  fails then stops the deal, and a flattening in which an order failed is not retired. With
  both, `RetiredSettled` is false of the code (finding 1).
* **The deal's ledger** (`ExecutorLedger`). `LedgerIsExact` holds through local faults too, by
  `BooksInv`: what is booked was filled (`Booking`); while the other fills of the deal at hand are
  booked, the exchange is ahead of the record by one known fill (`Due`); and a deal that
  has not begun holds nothing, and a leg finds nothing overspent of what it buys
  (`Untouched`), which is why clamping the source at zero loses nothing.
  `DealsStayWithinMeans` and `RetiredDealsAreFlat` are for executions without local faults, which
  leave a fill out of the ledger for good, so that recovery sells what is no longer
  there. `Settling`: of the deal at hand at most the fill being waited on is not booked.
  `Means`: what a deal may still spend of an asset (`Purse`) covers every order that may
  still fill, and over the policies of a leg what was spent and remains is its budget.
  `Flat`: recovery that failed at nothing left nothing executable behind it; it needs
  `NoMaximum`, that a larger amount of what the market takes is taken too, because the code
  retires what is above the maximum (finding 2). The run checks the property where
  positions stay below the maximum.
* **The rebalancer's orders** (`RebalanceProofs`), local faults included: `RecordsAreTruthful`,
  `SkipsAreSettled`, `CompleteIsDone`, `PausesAreRespected`; and the
  refinement of `OrderJournal`, `RebalanceKeepsJournal`. `RebalanceInv` says where a run under way has its record (`Placed`),
  that orders are numbered by their count and what is beyond is untouched (`Fits`), that
  an order closed or rejected in the record is so on the exchange (`Truthful`), that only
  the newest can be in doubt, and that the process then stands where it looks (`Newest`), that
  a refused order is marked and noted (`Noted`), where the last skip was (`Heard`), and the
  pause (`Late`). `Newest` with `Truthful` is why the handler's look at the last order's status
  is enough. The refinement adds that no order is on the wire before it was sent (`Sent`).
* **Reports** (`GatewayProofs`), for any number of deals, faults and any batch size:
  `ArchivedAreCounted`, `DuplicatesAreFaults`, and `PromiseIsKept`, the refinement of `Outbox`. `ReportsInv`
  follows a deal from the save of its outcome to its row (`AtHand`, `Counted`), says that
  what the gateway has in hand is unsent (`InHand`) and charges every surplus report to a
  fault (`Told`).
* **Commands** (`GatewayProofs`), for any number of commands and faults: `StopsHold`, which is
  inductive as it stands, because every write of the file but that of a start pauses; and
  `CommandsAreExecutedOnce`. `Polled` says that the gateway's batch are the last messages
  before the offset (`Hand`), `InOrder` that those before it were executed if there was no
  fault, and that each was executed at most once more than there were faults, those behind
  it at most once for each.
* **Quotes** (`ServiceProofs`): `SnapshotsAreHonest`, `WebsocketQuotesAreNewest`,
  `SeedsNeverRegress`. `StreamInv` bounds quotes by the market (`Bounded`), says what an answer
  under way may contain (`InFlight`) and when a quote shown was last the market's
  (`Honest`, `Marked`).
* **Commissions** (`ServiceProofs`): `RequestsKeepToTheBudget`. The window the code keeps holds
  every request of the last minute (`Counted`); a minute that one more request falls into
  ends now at the latest, so the requests already in it are in the window.
  `RatesAreInForce`: what is cached was in force at its stamp or later (`Fresh`, `Since`).
* **Captures** (`ServiceProofs`): `CapturesStayCapped`. `RoomMade`: between making room and the
  rename the directory has room for the capture at hand; `InTurn`: the temporary file of
  the capture at hand is the one written for it, with its size.
* **The gate and the reserve** (`MainLoopProofs`), with rebalancing and without:
  `EntriesAreChecked` and `ReserveIsBounded`. `Recorded`: past the gate there is no record but
  where the loop looks again; `Flagged`: undisturbed, the flag and the balances read tell no
  more than the reserve of now. `Bought`: where an order may be bought, the account, that
  order and those in doubt come to no more than one `Cap`, and one for each fault.
* **The book cache** (`ScanProofs`): `LeftoversAreHarmless`, from `Stamped` (nothing is stamped
  later than now) and `Fetching` (while books are fetched, those held were young enough
  when the cache was checked).
* **Order sizes** (`ScanProofs`): `OrdersFit`, which holds of what each operation computes.
  The lemmas are about integer division: the budget of `trade_budget` leaves room for the
  commission and its rounding (`BudgetReserves`), lots are the largest multiple a budget
  affords (`LotsLargest`), rounding to the tick moves a price by less than one.
* **A simulated leg** (`ScanProofs`): `SimulationIsSound`, for books of one or two levels and
  commissions of at most the whole output (`parse_rates` admits five percent). The sums and
  walks of such a book have closed forms (`BookSums`, `WalkIsCost`, `WalkBackIsBought`), so
  a result that is kept while the question stands is the `Projection` of that question
  (`SimulationInv`). Cost and proceeds are one straight line up to the first level and a
  second, no better one beyond it, which bounds what any taking of the book is worth
  (`Lines`, `CostIsBest`); one more lot costs more than the budget (`BoughtIsMost`). That
  the route minimum cuts nothing off is division again (`TargetYield`, `SourceYield`).
* **Routes** (`ScanProofs`): `RoutesAreUsable`. The search invariant is that of a breadth-first
  search: every entry of the queue is a permitted beginning (`Trail`), the queue goes from
  shorter to longer by at most one and, of each length, from those through USDC to the
  others (`InOrder`), and every permitted path begins with an entry (`Complete`). So the
  first path found is the shortest, and an empty queue means there is none. That books
  lead from all of a route to BNB is an induction along the route, made by a minimal
  counterexample (`LeastNatural`).

* **The shortlist** (`ScanProofs`): `ShortlistsAreBest`, for any starts, signals and limits.
  Functions defined by recursion along a list exist and keep what each step keeps
  (`RecursionExists`), so the filter lists the funded signals of a start in their order
  (`Listing`) and the lists are appended without loss or repetition (`Merged`). That there
  is a sorted order at all is shown by counting: each belongs at the place behind those
  before it (`SortExists`). `Best` follows by counting too: what a cut leaves out comes
  behind as many as the limit.

Only model-checked is liveness (`DealEnds`, `RunEnds`, `ReportsArrive`, `ClearsHappen`), which
is outside what the prover handles.

## 5. Findings

1. **A local failure after an order was sent retires a live order**
   (`executor.py:158`, run `executor_local_fault`). If the save at line 359 raises, or
   the answer to a placement does not parse, the exception is neither a requests nor a
   Binance error, so the order is not resolved. The ordinary handler flattens the
   booked inventory and archives the deal as RECOVERED while the order may still
   fill. The README promises that ambiguous exposure stops for operator recovery;
   the rebalancer guards against this case explicitly (`rebalance.py:315`).
2. **A position above the market maximum counts as dust** (`executor.py:423`, run
   `executor_market_maximum`). Any `ValueError` of `prepare_market_order` is taken for
   a position too small to sell, also "above market maximum" and "above max notional".
   Limit orders may acquire such a position; the deal is then archived with all of it.
3. **One failed command drops the rest of its batch** (`tg_gateway.py:93`, run
   `control_plane_dropped`). The offset is past the whole batch before its commands run;
   an exception in one leaves the loop over them, and the next poll confirms the
   rest. A `/barb_stop` among them is lost.
4. **A reserve order in doubt stops nothing** (`app.py:212`, run `main_loop_ambiguous`). It has
   no record and its client id comes from the clock; after a lost answer the service
   exits, restarts, finds nothing active and sends another. README.md:184 promises that every
   maintenance order has a persisted, deterministic client id and that unresolved outcomes
   block further trading. `ReserveBounded` says what is left of it: at most one purchase too
   many for each answer lost.

Met while modelling, and weakened in the properties above rather than checked by a run of
their own:

* A crash between the save of a final status and the record of its report
  (state.py:110, 114) leaves an active record that only the operator's clear retires, as
  OPERATOR_CLEARED: the trade is never counted. `ArchivedCounted` speaks of deals the
  *service* archived.
* A start executed while the loop consumes a clear is overwritten by the pause that
  `consume_clear` writes (app.py:722). `StopHolds` has no counterpart for starts.
* An update older than the REST quote seeded meanwhile replaces it and is stamped with
  the time it is processed (market_stream.py:163). `WatermarkHolds` compares a websocket
  quote with updates only, and `SnapshotHonest` speaks of REST quotes.
* When maintenance raises after it spent BNB, balances and flag stay as they were for up to
  five seconds, and a deal may begin below the floor (app.py:773). The same follows a deal
  whose recovery was refused the tickers for the rate (executor.py:415, app.py:792), if the
  operator clears and starts within those seconds. `EntryWithReserve` excepts both by
  `disturbed`.
* The rebalancer buys at least about five dollars (rebalance.py:275-278), so with a target
  near the floor the reserve passes its target without any fault. `ReserveBounded`
  bounds the reserve by `Cap`.

## 6. Not modelled, and why

* Profit: the fold of three simulated legs, the size grid, PnL figures, `plan_edges`' choice
  of the fee asset and conversion rates. They decide only whether a candidate is good;
  that one may or may not exist is a choice in `Executor`.
* The rebalancer's amounts (`allocation`, `cleanup_plan`), its schedule file and its dry run:
  arithmetic over balances, whose results are choices in `Rebalance`.
* The blocked-symbol list: it only removes routes from later scans.
* A fill's commission in a third asset, and trades that lag behind their order
  (client.py:397).
* The archived copy of a record that a failed `prune` (state.py:116) leaves beside the active
  one, and report tables that lost rows.
* Power failures that undo a rename (`save` syncs the file but not its directory).
* Settings and their validation, request signing, HTTP and websocket transport, status
  text, probes, research samples and replay: no state the trading path reads.

## 7. Plan

1. Proofs: `WithinMeans` and `RetiredFlat` of `Executor` with local faults but no automatic
   recovery, under which they should still hold.
2. `Executor`'s blocked symbols, and commissions that arrive after their order.
3. The fold of three legs over `OrderSizing`, against the best execution of all three books.
