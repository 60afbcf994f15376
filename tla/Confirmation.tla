---------------------------- MODULE Confirmation ----------------------------
(* find_best (app.py): the shortlisted signals (module Shortlist) are         *)
(* confirmed one by one on fresh order books.  Books are cached over the      *)
(* candidates of a scan; those missing are requested concurrently, and a book *)
(* is as old as its request.                                                  *)
EXTENDS Integers, Sequences

CONSTANTS
    Routes,            \* the books each route needs: a set of sets of symbols
    Total,             \* confirmation_candidates_total
    MaxAge, MaxSkew,   \* ticker_max_age_s, quote_max_skew_s, in ticks
    MaxTime            \* bound: ticks of the monotonic clock

Symbols == UNION Routes

VARIABLES
    now, pending,       \* clock; the books of the candidates still to confirm
    pc, route,          \* place, books of the candidate at hand
    asked, cache,       \* requests under way and book_cache: times, -1 for none
    verdict,            \* on the last candidate
    checked, prompt     \* history: when the cache was checked; requests began at once

vars == <<now, pending, pc, route, asked, cache, verdict, checked, prompt>>

None == -1
Nothing == [s \in Symbols |-> None]

Init ==
    /\ pending \in UNION {[1..n -> Routes] : n \in 0..Total}
    /\ now = 1 /\ pc = "next" /\ route = {}
    /\ asked = Nothing /\ cache = Nothing /\ verdict = "none"
    /\ checked = 0 /\ prompt = TRUE

Tick ==
    /\ pc # "done" /\ now < MaxTime /\ now' = now + 1
    /\ UNCHANGED <<pending, pc, route, asked, cache, verdict, checked, prompt>>

-----------------------------------------------------------------------------
\* observation_error of these times.
Unfit(times, age, skew) ==
    \/ None \in times \/ \E t \in times : now - t > age
    \/ \E t, u \in times : t - u > skew

Times(S) == {cache[s] : s \in S}
Held(S)  == {s \in S : cache[s] # None}

\* The oldest ticker of a scan, from before it began.
Screened == 0

\* The next candidate, unless its tickers have become too old meanwhile.
Take ==
    /\ pc = "next" /\ pending # <<>> /\ pending' = Tail(pending)
    /\ IF Unfit({Screened}, MaxAge, MaxSkew)
       THEN verdict' = "STALE_QUOTES" /\ UNCHANGED <<pc, route>>
       ELSE pc' = "rates" /\ route' = Head(pending) /\ UNCHANGED verdict
    /\ UNCHANGED <<now, asked, cache, checked, prompt>>

\* Commissions are missing, or a request fails; a rate limit ends the scan.
Reject ==
    /\ pc \in {"rates", "fetch"} /\ pc' \in {"next", "done"}
    /\ verdict' = "REQUEST_FAILED" /\ asked' = Nothing
    /\ cache' \in {[s \in Symbols |-> IF s \in S THEN asked[s] ELSE cache[s]] :
                      S \in SUBSET {s \in Symbols : asked[s] # None}}
    /\ UNCHANGED <<now, pending, route, checked, prompt>>

\* With the commissions known, cached books are dropped if they are too old or too far
\* apart (mutant: they are kept).
Drop(S) ==
    /\ pc = "rates" /\ pc' = "fetch" /\ checked' = now /\ prompt' = TRUE
    /\ cache' = [s \in Symbols |-> IF s \in S THEN None ELSE cache[s]]
    /\ UNCHANGED <<now, pending, route, asked, verdict>>
ReuseAge == IF MaxAge < MaxSkew THEN MaxAge ELSE MaxSkew
CheckCacheKeeping == Drop({})
CheckCache ==
    Drop(IF Unfit(Times(Held(route)), ReuseAge, MaxSkew) THEN route ELSE {})

Missing == {s \in route : cache[s] = None}

Request(s) ==
    /\ pc = "fetch" /\ s \in Missing /\ asked[s] = None
    /\ asked' = [asked EXCEPT ![s] = now] /\ prompt' = (prompt /\ now = checked)
    /\ UNCHANGED <<now, pending, pc, route, cache, verdict, checked>>

\* All answers are in: the books are looked at, and a candidate sized on them.
Decide ==
    /\ pc = "fetch" /\ \A s \in Missing : asked[s] # None
    /\ cache' = [s \in Symbols |-> IF s \in Missing THEN asked[s] ELSE cache[s]]
    /\ asked' = Nothing /\ pc' = "next"
    /\ verdict' = IF Unfit({cache'[s] : s \in route}, MaxAge, MaxSkew) THEN "DEPTH" ELSE "sized"
    /\ UNCHANGED <<now, pending, route, checked, prompt>>

Done ==
    /\ pc = "next" /\ pending = <<>> /\ pc' = "done"
    /\ UNCHANGED <<now, pending, route, asked, cache, verdict, checked, prompt>>

Next ==
    \/ Tick \/ Take \/ Reject \/ CheckCache \/ Decide \/ Done
    \/ \E s \in Symbols : Request(s)

Spec == Init /\ [][Next]_vars

-----------------------------------------------------------------------------
\* A candidate is only rejected for its books if its own requests were late or slow: what
\* earlier candidates left in the cache never costs it (README.md:24).
Harmless ==
    verdict' = "DEPTH" /\ pc = "fetch" /\ pc' = "next" =>
        ~prompt \/ now - checked > MaxAge - ReuseAge
LeftoversHarmless == [][Harmless]_vars
=============================================================================
