------------------------------- MODULE MCScan --------------------------------
(* The way to a deal: the main loop with its gate, and the steps of the scan  *)
(* behind it, where routes are found, signals shortlisted, candidates         *)
(* confirmed on books, and orders sized.  They share no state, so one of them *)
(* moves in a behaviour and the others rest in an initial state.              *)
EXTENDS MainLoop, FiniteSets

CONSTANTS
    Routes, Candidates, MaxAge, MaxSkew, ScanTime,      \* of Confirmation
    Amounts, Prices, Quantities, Filters, Commissions, \* of OrderSizing
    Assets, USDC, BNB, MaxHops,                         \* of Routes
    MaxSignals, Starts, PerStart, Shortlisted           \* of Shortlist

ASSUME ConfirmationAssumption == {Candidates, MaxAge, MaxSkew, ScanTime} \subseteq Nat

\* A pair has a positive lot and a positive tick, and no commission is more than the output
\* (parse_rates admits five percent).
ASSUME SizingAssumption ==
    /\ Amounts \cup Prices \cup Quantities \subseteq Nat \ {0}
    /\ \A p \in Filters :
          /\ {p.step, p.tick} \subseteq Nat \ {0}
          /\ {p.min, p.max, p.minNotional, p.maxNotional} \subseteq Nat
          /\ {p.minPrice, p.maxPrice, p.marketStep, p.marketMin, p.marketMax} \subseteq Nat
    /\ Commissions \subseteq
          [percent : 0..100, asset : {"source", "target", "other"}, rate : Nat \ {0}]

ASSUME RoutesAssumption == IsFiniteSet(Assets) /\ MaxHops \in Nat \ {0}

ASSUME ShortlistAssumption ==
    IsFiniteSet(Starts) /\ {MaxSignals, PerStart, Shortlisted} \subseteq Nat

VARIABLES
    part,
    side, amount, pair, fee, book, op, result,
    markets, source, target, queue, path, used, books,
    signals, ranked, shortlist,
    now, pending, spc, route, asked, cache, verdict, checked, prompt

\* The filters of a pair; the quote amount, and then the market filters, where they differ.
Pair(step, min, max, minN, maxN, tick, mstep, mmin, byQuote) ==
    [step |-> step, min |-> min, max |-> max, minNotional |-> minN, maxNotional |-> maxN,
     tick |-> tick, minPrice |-> 2, maxPrice |-> 5, marketStep |-> mstep, marketMin |-> mmin,
     marketMax |-> max, minToMarket |-> byQuote, maxToMarket |-> ~byQuote, byQuote |-> byQuote]

MCFilters == {
    Pair(1, 1, 0, 1, 0, 1, 0, 0, TRUE),     \* nearly no filters
    Pair(1, 2, 4, 3, 12, 2, 2, 3, FALSE),   \* every filter binds
    Pair(2, 2, 6, 5, 0, 3, 1, 1, FALSE),
    Pair(3, 1, 0, 4, 16, 1, 2, 0, TRUE)}

MCCommissions == [percent : {0, 10, 50}, asset : {"source", "target", "other"}, rate : {2, 3}]

\* Books of one and two levels.
Sizing == INSTANCE OrderSizing WITH Pairs <- Filters, Fees <- Commissions

\* Every set of markets between the assets.
Discovery == INSTANCE Routes

Ranking  == INSTANCE Shortlist WITH Total <- Shortlisted
Checking == INSTANCE Confirmation WITH
    Total <- Candidates, MaxTime <- ScanTime, pc <- spc

sizes   == <<side, amount, pair, fee, book, op, result>>
search  == <<markets, source, target, queue, path, used, books>>
ranking == <<signals, ranked, shortlist>>
scan    == <<now, pending, spc, route, asked, cache, verdict, checked, prompt>>
all     == <<part, vars, sizes, search, ranking, scan>>

MCInit ==
    /\ part \in {"loop", "routes", "ranking", "checking", "sizing"}
    /\ part # "loop" => bnb = 0 /\ rebalancing = CHOOSE b \in Settings : TRUE
    /\ part # "sizing" => /\ side = "buy" /\ amount = CHOOSE a \in Amounts : TRUE
                          /\ book = <<CHOOSE l \in Sizing!Levels : TRUE>>
                          /\ pair = CHOOSE p \in Filters : TRUE
                          /\ fee = CHOOSE f \in Commissions : TRUE
    /\ part # "routes" => /\ markets = {} /\ source = CHOOSE a \in Assets : TRUE
                          /\ target = CHOOSE a \in Assets : a # source
    /\ part # "ranking" => signals = [s \in Starts |-> <<>>]
    /\ part # "checking" => pending = <<>>
    /\ Init /\ Sizing!Init /\ Discovery!Init /\ Ranking!Init /\ Checking!Init

MCNext ==
    \/ part = "loop" /\ Next /\ UNCHANGED <<part, sizes, search, ranking, scan>>
    \/ part = "sizing" /\ Sizing!Next /\ UNCHANGED <<part, vars, search, ranking, scan>>
    \/ part = "routes" /\ Discovery!Next /\ UNCHANGED <<part, vars, sizes, ranking, scan>>
    \/ part = "ranking" /\ Ranking!Next /\ UNCHANGED <<part, vars, sizes, search, scan>>
    \/ part = "checking" /\ Checking!Next /\ UNCHANGED <<part, vars, sizes, search, ranking>>

MCSpec == MCInit /\ [][MCNext]_all

\* OrderSizing's properties: what is placed fits and is the most there is, and what a
\* simulated leg projects can be had.
OrderFits       == Sizing!OrderFits
SimulationSound == Sizing!SimulationSound

\* Routes' property: the search is exact, and the routes it finds can be valued.
RoutesUsable == Discovery!RoutesUsable

\* Shortlist's: it is the best there is.
ShortlistBest == Ranking!ShortlistBest

\* Confirmation's: what the cache holds from earlier candidates costs no later one.
LeftoversHarmless == [][part = "checking" => Checking!Harmless]_all
=============================================================================
