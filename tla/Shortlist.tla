------------------------------ MODULE Shortlist ------------------------------
(* The ranking in find_best (app.py): of the signals of every start currency  *)
(* the best that can be funded, and of those of all starts the best, are      *)
(* confirmed on order books (module Confirmation).                            *)
EXTENDS Integers, FiniteSets, SequencesExt

CONSTANTS
    MaxSignals,        \* bound: signals of a start
    Starts,            \* start currencies
    PerStart, Total    \* confirmation_candidates_per_start, _total

VARIABLES
    signals,           \* by start, best first: [gain, funded]
    ranked, shortlist  \* whether the list is made, and it: <<start, rank>>

vars == <<signals, ranked, shortlist>>

Signals == [gain : 1..2, funded : BOOLEAN]
Gain(g) == signals[g[1]][g[2]].gain

\* screen_top_of_book sorts the signals of a start by their gain.
Ranked(q) == \A i, j \in DOMAIN q : i < j => q[i].gain >= q[j].gain

Init ==
    /\ signals \in [Starts -> {q \in UNION {[1..n -> Signals] : n \in 0..MaxSignals} : Ranked(q)}]
    /\ ranked = FALSE /\ shortlist = <<>>

-----------------------------------------------------------------------------
First(q, n) == SubSeq(q, 1, IF Len(q) < n THEN Len(q) ELSE n)

\* Those of q that can be funded, in the order of q.
Funded(g)   == signals[g[1]][g[2]].funded
FundedOf(q) ==
    LET f[i \in 0..Len(q)] ==
          IF i = 0 THEN <<>> ELSE IF Funded(q[i]) THEN Append(f[i - 1], q[i]) ELSE f[i - 1]
    IN  f[Len(q)]

\* The best funded signals of a start (mutant: the funded ones of the best signals).
Ranks(s)        == [i \in DOMAIN signals[s] |-> <<s, i>>]
OfStartEarly(s) == FundedOf(First(Ranks(s), PerStart))
OfStart(s)      == First(FundedOf(Ranks(s)), PerStart)

\* Those of all starts, by gain, and in the order of the starts where that is equal.
Ahead(q, i, j) == Gain(q[i]) > Gain(q[j]) \/ (Gain(q[i]) = Gain(q[j]) /\ i < j)
Sorted(q) ==
    LET order == CHOOSE p \in [DOMAIN q -> DOMAIN q] :
                     \A i, j \in DOMAIN q : i < j => Ahead(q, p[i], p[j])
    IN  [i \in DOMAIN q |-> q[order[i]]]

\* What the starts keep, start by start.
Pending ==
    LET starts == SetToSeq(Starts)
    IN  FlattenSeq([i \in DOMAIN starts |-> OfStart(starts[i])])

MakeShortlist ==
    /\ ~ranked /\ ranked' = TRUE
    /\ shortlist' = First(Sorted(Pending), Total)
    /\ UNCHANGED signals

Next == MakeShortlist
Spec == Init /\ [][Next]_vars

-----------------------------------------------------------------------------
Kept      == {shortlist[i] : i \in DOMAIN shortlist}
Rivals(s) == {g \in {<<s, i>> : i \in DOMAIN signals[s]} : Funded(g)}

\* The shortlist is the best of what is funded: ranked, within both limits, and what is
\* left out finds one of them used up by signals as good (app.py:321).
ShortlistBest ==
    ranked =>
        /\ Len(shortlist) <= Total /\ Cardinality(Kept) = Len(shortlist)
        /\ \A i, j \in DOMAIN shortlist : i < j => Gain(shortlist[i]) >= Gain(shortlist[j])
        /\ \A s \in Starts :
              /\ {g \in Kept : g[1] = s} \subseteq Rivals(s)
              /\ Cardinality({g \in Kept : g[1] = s}) <= PerStart
              /\ \A g \in Rivals(s) \ Kept :
                    \/ Cardinality({h \in Rivals(s) : h[2] < g[2]}) >= PerStart
                    \/ Cardinality({h \in Kept : Gain(h) >= Gain(g)}) = Total
=============================================================================
