---------------------------- MODULE OrderSizing -----------------------------
(* What an amount of the source asset buys or sells: the limit and market     *)
(* orders the client prepares from it (client.py), and one leg of the         *)
(* scanner's simulation (scanner.py), with the part of the amount held back   *)
(* for a commission in the source asset (commissions.py).  Numbers count      *)
(* quanta of 1e-8; quotients are exact, so a budget is a pair <<n, d>>.       *)
EXTENDS Naturals, Sequences

CONSTANTS
    Amounts, Prices, Quantities,  \* budgets, prices, and quantities of book levels
    Pairs,                        \* exchange filters; a maximum of 0 is none
    Fees                          \* commission: percent, asset, and rate to the source

VARIABLES side, amount, pair, fee, book,  \* the question
          op, result                      \* and what was computed

vars == <<side, amount, pair, fee, book, op, result>>

Levels == [price : Prices, quantity : Quantities]

\* book is the side an order takes: asks ascend, bids descend.
Sorted(b) ==
    \A i, j \in DOMAIN b : i < j =>
        IF side = "buy" THEN b[i].price < b[j].price ELSE b[i].price > b[j].price

Init ==
    /\ side \in {"buy", "sell"} /\ amount \in Amounts /\ pair \in Pairs /\ fee \in Fees
    /\ book \in {<<l>> : l \in Levels} \cup (Levels \X Levels) /\ Sorted(book)
    /\ op = "none"
    /\ result = [ok |-> FALSE, code |-> "none", quantity |-> 0, price |-> 0, gross |-> 0]

Top == book[1].price

Down(n, step)  == (n \div step) * step
Ceiling(n, d)  == (n + d - 1) \div d
Above(n, max)  == max # 0 /\ n > max

\* commission_amount: what is charged on the gross output, in the asset charged.  The
\* rate to the source asset is fee.rate quote per base for a buy, one base per fee.rate
\* quote for a sell.
Commission(gross) ==
    IF fee.asset = "source"
    THEN IF side = "buy" THEN Ceiling(gross * fee.percent * fee.rate, 100)
                         ELSE Ceiling(gross * fee.percent, 100 * fee.rate)
    ELSE Ceiling(gross * fee.percent, 100)

\* trade_budget: the part of the amount to trade at a price, as a fraction
\* (mutant: all of it).
FeeWeight(p) ==
    IF side = "buy" THEN <<100 * p, fee.percent * fee.rate>>
                    ELSE <<100 * fee.rate, fee.percent * p>>
BudgetWhole(p) == <<amount, 1>>
Budget(p) ==
    LET w == FeeWeight(p) IN
    IF fee.asset = "source" /\ fee.percent # 0
    THEN <<(amount - 1) * w[1], w[1] + w[2]>> ELSE <<amount, 1>>

\* The largest multiple of the step that a budget at a price affords.
Lots(b, p, step) ==
    IF side = "buy" THEN (b[1] \div (b[2] * p * step)) * step ELSE (b[1] \div (b[2] * step)) * step

\* A result: its quantity, its limit price, what it uses up of the source, its output.
Result(ok, code, q, p, use, out) ==
    [ok |-> ok, code |-> code, quantity |-> q, price |-> p, used |-> use, gross |-> out]
Refuse(code) == Result(FALSE, code, 0, 0, 0, 0)

-----------------------------------------------------------------------------
\* prepare_limit_order.
Rounded(p) == IF side = "buy" THEN Ceiling(p, pair.tick) * pair.tick ELSE Down(p, pair.tick)

Spent(q, p) == IF side = "buy" THEN q * p ELSE q
Got(q, p) == IF side = "buy" THEN q ELSE q * p

\* The filters on a quantity and its notional.
Filtered(q, n, min, max, minN, maxN, r) ==
    IF q < min \/ n < minN THEN Refuse("SMALL")
    ELSE IF Above(q, max) \/ Above(n, maxN) THEN Refuse("LARGE") ELSE r

Limit ==
    LET p == Rounded(Top)
        q == Lots(Budget(p), p, pair.step)
    IN  IF p < pair.minPrice \/ Above(p, pair.maxPrice) THEN Refuse("PRICE")
        ELSE Filtered(q, q * p, pair.min, pair.max, pair.minNotional, pair.maxNotional,
                      Result(TRUE, "OK", q, p, Spent(q, p), Got(q, p)))

\* prepare_market_order, at the best price: by quote where the pair allows it.
MarketStep == IF pair.marketStep # 0 THEN pair.marketStep ELSE pair.step
MarketMin  == IF pair.marketMin # 0 THEN pair.marketMin ELSE pair.min
Whole(b)   == b[1] \div b[2]
IfMin(n)   == IF pair.minToMarket THEN n ELSE 0
IfMax(n)   == IF pair.maxToMarket THEN n ELSE 0

MarketBuy ==
    LET quote == Whole(Budget(Top))
        q     == (quote \div (Top * MarketStep)) * MarketStep
        order == IF pair.byQuote THEN Result(TRUE, "OK", 0, 0, quote, quote \div Top)
                 ELSE IF q < MarketMin THEN Refuse("SMALL")
                 ELSE Result(TRUE, "OK", q, 0, q * Top, q)
    IN  Filtered(quote, quote, pair.marketMin * Top, pair.marketMax * Top,
                 IfMin(pair.minNotional), IfMax(pair.maxNotional), order)

MarketSell ==
    LET q == Lots(Budget(Top), Top, MarketStep) IN
    Filtered(q, q * Top, MarketMin, pair.marketMax,
             IfMin(pair.minNotional), IfMax(pair.maxNotional), Result(TRUE, "OK", q, 0, q, q * Top))

-----------------------------------------------------------------------------
\* The sums of g over the first levels of the book.
Sums(g) ==
    LET f[i \in 0..Len(book)] == IF i = 0 THEN 0 ELSE f[i - 1] + g[i] IN f

\* A walk of the book: quantity and value of its first levels.
Depth == Sums([i \in DOMAIN book |-> book[i].quantity])
Value == Sums([i \in DOMAIN book |-> book[i].quantity * book[i].price])

\* The first level at which f reaches n.
Reach(f, n) == CHOOSE i \in DOMAIN book : n <= f[i] /\ \A j \in 1..(i - 1) : f[j] < n

\* What a quantity costs, or fetches (mutant: all of it at the best price).
WalkAtTop(q) == q * Top
Walk(q) == LET i == Reach(Depth, q) IN Value[i - 1] + (q - Depth[i - 1]) * book[i].price

\* The lots a quote budget buys.
WalkBack(n) ==
    LET i == Reach(Value, n)
        p == book[i].price
    IN  ((Depth[i - 1] * p + n - Value[i - 1]) \div (p * pair.step)) * pair.step

\* The commission is taken from what is left, or from the output; there must be enough.
Charged(used, out) ==
    LET c    == Commission(out)
        uses == IF fee.asset = "source" THEN used + c ELSE used
    IN  IF uses <= amount
        THEN Result(TRUE, "OK", IF side = "buy" THEN out ELSE used, 0, uses,
                    IF fee.asset = "target" THEN out - c ELSE out)
        ELSE Refuse("RESERVE")

\* One leg of simulate_detailed.
SimulatedBuy ==
    LET n == Whole(Budget(Top)) IN
    IF n > Value[Len(book)] THEN Refuse("DEPTH")
    ELSE Filtered(WalkBack(n), Walk(WalkBack(n)), pair.min, pair.max, pair.minNotional,
                  pair.maxNotional, Charged(Walk(WalkBack(n)), WalkBack(n)))

SimulatedSell ==
    LET q == Lots(Budget(Top), Top, pair.step) IN
    IF q > Depth[Len(book)] THEN Refuse("DEPTH")
    ELSE Filtered(q, Walk(q), pair.min, pair.max, pair.minNotional, pair.maxNotional,
                  Charged(q, Walk(q)))

Simulated == IF side = "buy" THEN SimulatedBuy ELSE SimulatedSell

\* route_minimum_start, for one leg: the least amount its filters admit, and what a unit
\* of the source becomes, as fractions.
LegMinimum ==
    LET n == IF pair.minNotional > pair.min * Top THEN pair.minNotional ELSE pair.min * Top
        d == IF side = "buy" THEN 1 ELSE Top
        w == FeeWeight(Top)
    IN  IF fee.asset = "source" THEN <<n * (w[1] + w[2]), d * w[1]>> ELSE <<n, d>>
LegRate ==
    LET r == IF side = "buy" THEN <<1, Top>> ELSE <<Top, 1>>
        w == FeeWeight(Top)
    IN  IF fee.asset = "source" THEN <<r[1] * w[1], r[2] * (w[1] + w[2])>>
        ELSE IF fee.asset = "target" THEN <<r[1] * (100 - fee.percent), 100 * r[2]>> ELSE r

Compute(o, r) ==
    /\ op = "none" /\ op' = o /\ result' = r /\ UNCHANGED <<side, amount, pair, fee, book>>

PrepareLimit  == Compute("limit", Limit)
PrepareMarket == Compute("market", IF side = "buy" THEN MarketBuy ELSE MarketSell)
Simulate      == Compute("simulate", Simulated)

Next == PrepareLimit \/ PrepareMarket \/ Simulate
Spec == Init /\ [][Next]_vars

-----------------------------------------------------------------------------
\* The commission on top of what an order uses up, if it is taken from the source.
Reserved(out) == IF fee.asset = "source" THEN Commission(out) ELSE 0

\* An order never uses up more than its budget, the commission and its rounding included
\* (docs/commission-model.md:27, "reserve part of the order budget before rounding").
WithinBudget ==
    result.ok =>
        IF op = "simulate" THEN result.used <= amount
                           ELSE result.used + Reserved(result.gross) <= amount

\* A limit order is on the tick grid, and rounding moves its price by less than a tick and
\* towards the market, so that it still crosses it.
LimitCrosses ==
    op = "limit" /\ result.ok =>
        /\ result.price % pair.tick = 0
        /\ IF side = "buy" THEN result.price \in Top..(Top + pair.tick - 1)
                           ELSE result.price \in (Top - pair.tick + 1)..Top

\* At a limit order's price no larger quantity that the filters admit fits the amount, with
\* its commission and the quantum held back for rounding.
LimitLargest ==
    op = "limit" /\ result.code \in {"OK", "SMALL"} =>
        LET p == Rounded(Top) IN
        \A q \in (result.quantity + 1)..amount :
            q % pair.step = 0 /\ q >= pair.min /\ q * p >= pair.minNotional
                => Spent(q, p) + Reserved(Got(q, p)) + 1 > amount

\* What is placed is within the budget, crosses the market, and is the most there is.
OrderFits == WithinBudget /\ LimitCrosses /\ LimitLargest

\* The reference for a walk: the best of all ways to take a quantity from the levels.
Takes(q) ==
    {t \in [DOMAIN book -> 0..Depth[Len(book)]] :
        /\ \A i \in DOMAIN book : t[i] <= book[i].quantity
        /\ q = Sums(t)[Len(book)]}
Worth(t) == Sums([i \in DOMAIN book |-> t[i] * book[i].price])[Len(book)]

\* The simulation of a leg projects what the best execution gives, no more, and a bought
\* quantity is the largest that the budget pays for (scanner.py:153).
SimulationExact ==
    op = "simulate" /\ result.ok =>
        LET q    == result.quantity
            used == result.used - Reserved(IF side = "buy" THEN q ELSE Walk(q))
            more == q + pair.step
        IN  IF side = "buy"
            THEN /\ \E t \in Takes(q) : Worth(t) = used
                 /\ \A t \in Takes(q) : used <= Worth(t)
                 /\ \A t \in Takes(more) : Worth(t) > Whole(Budget(Top))
            ELSE /\ \A t \in Takes(q) : Worth(t) <= Walk(q)
                 /\ result.gross <= Walk(q)

\* No leg that the simulation accepts yields more than the route minimum reckons with, or
\* starts from less than it admits, so that the minimum cuts off no size that would do
\* (scanner.py:246).  With a commission in the source asset it may, on a deeper book, by
\* less than the commission on the slippage.
MinimumNecessary ==
    op = "simulate" /\ result.ok =>
        /\ result.gross * LegRate[2] <= amount * LegRate[1]
        /\ Len(book) = 1 \/ fee.asset # "source" => amount * LegMinimum[2] >= LegMinimum[1]

\* A leg that the simulation accepts can be placed as a limit order at the price of a book
\* whose best level is deep enough: scanner and client round alike.
SimulatedIsPlaceable ==
    op = "simulate" /\ result.ok /\ Len(book) = 1 /\ Top % pair.tick = 0 =>
        Limit.code \in {"OK", "PRICE"} /\ (Limit.ok => Limit.quantity = result.quantity)

\* What the scanner projects for a leg can be had: no more, and not much less.
SimulationSound == SimulationExact /\ MinimumNecessary /\ SimulatedIsPlaceable
=============================================================================
