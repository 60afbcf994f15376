-------------------------- MODULE CommissionBudget --------------------------
(* commission_rates (client.py): a symbol's account commissions are cached    *)
(* for a minute, and at most thirty requests a minute refresh them.  Requests *)
(* take time, fail, and count from when they were asked.  One thread calls.   *)
EXTENDS Integers, Sequences, FiniteSets

CONSTANTS
    Symbols,
    Minute,    \* ticks in the 60 seconds of the cache and of the window
    Limit,     \* requests in a window
    MaxTime,   \* bound: ticks of the monotonic clock
    MaxRates   \* bound: commissions the account has over time

VARIABLES
    now, rates, replaced,   \* clock; commissions in force, and until when each was
    cache, requests,        \* _commission_cache; _commission_requests, by their place in made
    waiting, asked,         \* symbol of the request under way, its now
    answer, given,          \* what the last call came to, and the rates it returned
    made                    \* history: times of the requests of this process

vars == <<now, rates, replaced, cache, requests, waiting, asked, answer, given, made>>

NoSymbol == "none"
Empty    == [s \in Symbols |-> [rates |-> 0, at |-> 0]]   \* 0: nothing cached

Init ==
    /\ now = 0 /\ rates = 1 /\ replaced = [r \in 1..MaxRates |-> 0]
    /\ cache = Empty /\ requests = {} /\ waiting = NoSymbol /\ asked = 0
    /\ answer = "none" /\ given = 0 /\ made = <<>>

Tick ==
    /\ now < MaxTime /\ now' = now + 1 /\ answer' = "none"
    /\ UNCHANGED <<rates, replaced, cache, requests, waiting, asked, given, made>>

\* Binance changes the account's commissions.
Change ==
    /\ rates < MaxRates /\ rates' = rates + 1 /\ replaced' = [replaced EXCEPT ![rates] = now]
    /\ answer' = "none" /\ UNCHANGED <<now, cache, requests, waiting, asked, given, made>>

-----------------------------------------------------------------------------
Cached(s) == cache[s].rates # 0 /\ now - cache[s].at < Minute

FromCache(s) ==
    /\ waiting = NoSymbol /\ Cached(s) /\ answer' = "rates" /\ given' = cache[s].rates
    /\ UNCHANGED <<now, rates, replaced, cache, requests, waiting, asked, made>>

\* The requests of the last minute.
Recent == {i \in requests : now - made[i] < Minute}

\* COMMISSION_REFRESH_BUDGET.
Defer(s) ==
    /\ waiting = NoSymbol /\ ~Cached(s)
    /\ requests' = Recent /\ Cardinality(Recent) >= Limit /\ answer' = "deferred"
    /\ UNCHANGED <<now, rates, replaced, cache, waiting, asked, given, made>>

\* The request is counted, then made (mutant: it is counted by its answer).
Send(s, counted) ==
    /\ waiting = NoSymbol /\ ~Cached(s) /\ Cardinality(Recent) < Limit
    /\ requests' = Recent \cup counted /\ made' = Append(made, now)
    /\ waiting' = s /\ asked' = now /\ answer' = "none"
    /\ UNCHANGED <<now, rates, replaced, cache, given>>
AskUncounted(s) == Send(s, {})
Ask(s)          == Send(s, {Len(made) + 1})

\* The answer gives rates in force at some time since the request, which times out well
\* within a minute.  It is cached as of its request (mutant: as of its arrival).
Keep(stamp) ==
    /\ waiting # NoSymbol /\ waiting' = NoSymbol /\ now - asked < Minute
    /\ answer' = "rates" /\ given' \in {r \in 1..rates : r = rates \/ replaced[r] >= asked}
    /\ cache' = [cache EXCEPT ![waiting] = [rates |-> given', at |-> stamp]]
    /\ UNCHANGED <<now, rates, replaced, requests, asked, made>>
AnswerLate == Keep(now)
Answer     == Keep(asked)

\* The request fails, or its rates are not valid.
Fail ==
    /\ waiting # NoSymbol /\ waiting' = NoSymbol /\ answer' = "failed"
    /\ UNCHANGED <<now, rates, replaced, cache, requests, asked, given, made>>

\* The process restarts.
Restart ==
    /\ cache' = Empty /\ requests' = {} /\ waiting' = NoSymbol /\ asked' = 0
    /\ answer' = "none" /\ given' = 0 /\ made' = <<>> /\ UNCHANGED <<now, rates, replaced>>

Next ==
    \/ Tick \/ Change \/ Answer \/ Fail \/ Restart
    \/ \E s \in Symbols : FromCache(s) \/ Defer(s) \/ Ask(s)

Spec == Init /\ [][Next]_vars

-----------------------------------------------------------------------------
MadeIn(from) == {i \in DOMAIN made : from <= made[i] /\ made[i] < from + Minute}

\* In no minute, wherever it begins, does a process make more requests than the limit,
\* those that failed included (README.md:25).
RequestsWithinBudget == \A t \in 0..MaxTime : Cardinality(MadeIn(t)) <= Limit

\* The rates a call returns were in force at some time in the minute before it returned,
\* also when they change while the answer is under way (README.md:25).
RatesInForce ==
    answer = "rates" => given = rates \/ replaced[given] + Minute > now
=============================================================================
