------------------------------ MODULE MCService ------------------------------
(* What the trading service keeps in memory and on disk between its scans:    *)
(* the quotes of the market stream, the commissions and their requests, and   *)
(* the research captures.  They share no state, so one of them moves in a     *)
(* behaviour and the others rest in an initial state.                         *)
EXTENDS MarketStream

CONSTANTS
    FeeSymbols, Minute, Limit, BudgetTime, MaxRates,               \* of CommissionBudget
    Sizes, MaxFiles, MaxBytes, MaxFileBytes, KeptFor, Pause, Leftover,  \* of ResearchCapture
    CaptureTime, MaxCaptures

\* One capture always fits (research.py:22).
ASSUME ServiceAssumption ==
    /\ {Minute, Limit, BudgetTime, MaxBytes, MaxFileBytes, KeptFor, Pause, Leftover} \subseteq Nat
    /\ {CaptureTime, MaxCaptures} \cup Sizes \subseteq Nat
    /\ {MaxRates, MaxFiles} \subseteq Nat \ {0} /\ MaxFileBytes <= MaxBytes

VARIABLES
    part,
    bnow, rates, replaced, cache, requests, waiting, basked, answer, given, bmade,
    cnow, files, temporary, cpc, cmade, size, last

Commissions == INSTANCE CommissionBudget WITH
    Symbols <- FeeSymbols, MaxTime <- BudgetTime,
    now <- bnow, asked <- basked, made <- bmade

Captures == INSTANCE ResearchCapture WITH
    MaxAge <- KeptFor, MaxTime <- CaptureTime, now <- cnow, pc <- cpc, made <- cmade

budget == <<bnow, rates, replaced, cache, requests, waiting, basked, answer, given, bmade>>
dir    == <<cnow, files, temporary, cpc, cmade, size, last>>
all    == <<part, vars, budget, dir>>

MCInit ==
    /\ part \in {"stream", "budget", "captures"}
    /\ Init /\ Commissions!Init /\ Captures!Init

MCNext ==
    \/ part = "stream" /\ Next /\ UNCHANGED <<part, budget, dir>>
    \/ part = "budget" /\ Commissions!Next /\ UNCHANGED <<part, vars, dir>>
    \/ part = "captures" /\ Captures!Next /\ UNCHANGED <<part, vars, budget>>

MCSpec == MCInit /\ [][MCNext]_all

\* CommissionBudget's properties: the requests of every minute keep to the limit, and the
\* rates returned were in force in the minute before.
RequestsWithinBudget == Commissions!RequestsWithinBudget
RatesInForce         == Commissions!RatesInForce

\* ResearchCapture's: the directory keeps both caps.
Capped == Captures!Capped
=============================================================================
