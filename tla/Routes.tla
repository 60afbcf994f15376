------------------------------- MODULE Routes -------------------------------
(* Finding ways through the markets: the breadth-first search of the          *)
(* rebalancer (conversion_path), the triangles of the scanner, and the books  *)
(* a route's commissions in BNB are valued with (reference_symbols,           *)
(* conversion).  A market is a pair of assets, traded both ways.              *)
EXTENDS Naturals, Sequences, FiniteSets

CONSTANTS
    Assets,    \* numbered in the order of their symbols
    USDC, BNB, \* the asset consolidated into, the asset fees are paid in
    MaxHops

VARIABLES markets,        \* tradable, priced, not blocked and not excluded
          source, target, \* of the conversion
          queue, path,    \* the paths still to extend, and the one found
          used, books     \* a route's markets, and those whose books are fetched

vars == <<markets, source, target, queue, path, used, books>>

Pairs  == {m \in SUBSET Assets : Cardinality(m) = 2}
None   == <<>>
Ends(p) == p[Len(p)]

\* build_edges keeps both directions of every usable market.
Edge(a, b) == {a, b} \in markets /\ a # b

Init ==
    /\ markets \in SUBSET Pairs /\ source \in Assets /\ target \in Assets \ {source}
    /\ queue = << <<source>> >> /\ path = None
    /\ used = {} /\ books = {}

-----------------------------------------------------------------------------
\* Where a path may go on: BNB only ends one (mutant: it may be passed through).
ChoicesAny(p) == {a \in Assets : Edge(Ends(p), a) /\ a \notin {p[i] : i \in DOMAIN p}}
Choices(p) ==
    {a \in Assets :
        /\ Edge(Ends(p), a) /\ a \notin {p[i] : i \in DOMAIN p}
        /\ a = BNB => target = BNB}

\* The order of the choices: USDC first, then by symbol.
Before(a, b) == (a = USDC /\ b # USDC) \/ ((a = USDC) = (b = USDC) /\ a < b)
Sorted(S) == {q \in [1..Cardinality(S) -> S] :
                 /\ {q[i] : i \in DOMAIN q} = S
                 /\ \A i, j \in DOMAIN q : i < j => Before(q[i], q[j])}

\* Paths that are still short enough are extended.
Extendable(p) == Len(p) < MaxHops

Searching == queue # <<>> /\ path = None

Visit ==
    /\ Searching
    /\ LET p == Head(queue) IN
       IF target \in Choices(p)
       THEN path' = Append(p, target) /\ queue' = <<>>
       ELSE \E o \in Sorted(Choices(p)) :
              /\ path' = None
              /\ queue' = Tail(queue) \o (IF Extendable(p)
                                         THEN [i \in DOMAIN o |-> Append(p, o[i])] ELSE <<>>)
    /\ UNCHANGED <<markets, source, target, used, books>>

-----------------------------------------------------------------------------
\* discover_triangles.
Triangles == {<<source, a, b, source>> : a, b \in Assets}
IsTriangle(r) ==
    /\ Cardinality({r[1], r[2], r[3]}) = 3
    /\ \A i \in 1..3 : Edge(r[i], r[i + 1])

MarketsOf(r) == {{r[i], r[i + 1]} : i \in 1..(Len(r) - 1)}

\* The markets between BNB and an asset of the route.
Bridges(S) == {m \in markets : BNB \in m /\ m \cap S # {}}

\* reference_symbols for a route whose commissions BNB may pay: one bridge, if BNB is
\* not traded on the way; without a bridge the candidate is rejected.
Reference(r) ==
    /\ used = {} /\ used' = MarketsOf(r)
    /\ LET S == UNION used' IN
       IF BNB \in S THEN books' = used'
       ELSE IF Bridges(S) = {} THEN books' = {}
       ELSE \E m \in Bridges(S) : books' = used' \cup {m}
    /\ UNCHANGED <<markets, source, target, queue, path>>

ReferenceTriangle == \E r \in Triangles : IsTriangle(r) /\ Reference(r)
ReferencePath     == path # None /\ Reference(path)

Next == Visit \/ ReferenceTriangle \/ ReferencePath
Spec == Init /\ [][Next]_vars

\* conversion: the assets that a search of the books fetched comes to, which are those of
\* every set that the books do not lead out of.
Closed(S)  == \A m \in books : m \cap S # {} => m \subseteq S
Reached(a) == {b \in Assets : \A S \in SUBSET Assets : a \in S /\ Closed(S) => b \in S}

-----------------------------------------------------------------------------
\* The reference: simple paths of at most MaxHops markets that BNB at most ends.
SimplePaths ==
    {p \in UNION {[1..n -> Assets] : n \in 2..(MaxHops + 1)} :
        /\ p[1] = source /\ Ends(p) = target
        /\ \A i, j \in DOMAIN p : i # j => p[i] # p[j]
        /\ \A i \in 1..(Len(p) - 1) : Edge(p[i], p[i + 1])
        /\ \A i \in 2..(Len(p) - 1) : p[i] # BNB}

\* A path found is a permitted one, none is shorter, and of the shortest it is the first
\* that goes through USDC as early as it can (rebalance.py:29).
PathIsShortest ==
    path # None =>
        /\ path \in SimplePaths
        /\ \A p \in SimplePaths :
              /\ Len(path) <= Len(p)
              /\ Len(p) = Len(path) /\ p[2] = USDC => path[2] = USDC

\* If the search gives up there is none, within the hops a conversion may take.
NoneMeansNone == queue = <<>> /\ path = None => SimplePaths = {}

\* With the books of the route and one bridge every asset of the route has a value in BNB,
\* and BNB one in the asset the route starts from (commissions.py:60).
BridgeSuffices ==
    books # {} => /\ \A a \in UNION used : BNB \in Reached(a)
                  /\ source \in Reached(BNB)

\* Routes are found exactly where there are some, and can be valued.
RoutesUsable == PathIsShortest /\ NoneMeansNone /\ BridgeSuffices
=============================================================================
