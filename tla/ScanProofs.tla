----------------------------- MODULE ScanProofs ------------------------------
(* Proofs about the steps of a scan that module MCScan puts side by side: the *)
(* confirmation of candidates over a shared cache of books (Confirmation),    *)
(* the sizes of orders (OrderSizing), the search for routes (Routes), and the *)
(* ranking of signals (Shortlist).                                            *)
EXTENDS MCScan, Integers, FiniteSetTheorems, WellFoundedInduction, Sequences, TLAPS

-----------------------------------------------------------------------------
(* Books left in the cache. *)

Books == Checking!Symbols
Time  == Nat \cup {-1}

\* What the cache and the requests may hold.
Stamped ==
    /\ now \in Nat /\ checked \in Nat /\ checked <= now /\ prompt \in BOOLEAN
    /\ pending \in Seq(Routes) /\ route \subseteq Books
    /\ cache \in [Books -> Time] /\ asked \in [Books -> Time]
    /\ \A s \in Books : cache[s] <= now /\ asked[s] <= now

\* While books are fetched, those held were young enough when the cache was checked, and
\* prompt requests are of that time.
Fetching ==
    /\ spc # "fetch" => asked = Checking!Nothing
    /\ spc = "fetch" =>
         \A s \in route :
            /\ cache[s] # -1 => cache[s] <= checked /\ checked - cache[s] <= Checking!ReuseAge
            /\ asked[s] # -1 => asked[s] >= checked /\ (prompt => asked[s] = checked)

BookInv == Stamped /\ Fetching

\* The age up to which a book is used again is within both limits.
LEMMA ReuseWithinLimits ==
    /\ Checking!ReuseAge \in Nat
    /\ Checking!ReuseAge <= MaxAge /\ Checking!ReuseAge <= MaxSkew
    BY ConfirmationAssumption DEF Checking!ReuseAge

\* A scan begins with no book.
LEMMA BooksInit == Checking!Init => BookInv
<1> SUFFICES ASSUME Checking!Init PROVE BookInv
    OBVIOUS
<1>1. pending \in Seq(Routes)
    BY DEF Checking!Init
<1>2. Checking!Nothing \in [Books -> Time] /\ \A s \in Books : Checking!Nothing[s] = -1
    BY DEF Checking!Nothing, Checking!None, Books, Time
<1> QED
    BY <1>1, <1>2 DEF Checking!Init, BookInv, Stamped, Fetching

\* Every step keeps to it: one case per action of the confirmation.
LEMMA BooksStep == BookInv /\ [Checking!Next]_scan => BookInv'
<1> SUFFICES ASSUME BookInv, [Checking!Next]_scan PROVE BookInv'
    OBVIOUS
<1> USE ConfirmationAssumption DEF BookInv
<1>0. Checking!Nothing \in [Books -> Time] /\ \A s \in Books : Checking!Nothing[s] = -1
    BY DEF Checking!Nothing, Checking!None, Books, Time
<1>1. CASE Checking!Tick
    BY <1>1 DEF Checking!Tick, Stamped, Fetching, Checking!Nothing, Time
<1>2. CASE Checking!Take
  <2>1. pending' \in Seq(Routes) /\ Head(pending) \in Routes
    BY <1>2 DEF Checking!Take, Stamped
  <2>2. route' \subseteq Books
    BY <1>2, <2>1 DEF Checking!Take, Stamped, Books, Checking!Symbols
  <2> QED
    BY <1>2, <2>1, <2>2 DEF Checking!Take, Stamped, Fetching
<1>3. CASE Checking!Reject
  <2>1. PICK S \in SUBSET {s \in Books : asked[s] # -1} :
           cache' = [s \in Books |-> IF s \in S THEN asked[s] ELSE cache[s]]
    BY <1>3 DEF Checking!Reject, Books, Checking!None
  <2>2. cache' \in [Books -> Time] /\ \A s \in Books : cache'[s] <= now
    BY <2>1 DEF Stamped
  <2> QED
    BY <1>3, <2>2, <1>0 DEF Checking!Reject, Stamped, Fetching, Time
<1>4. CASE Checking!CheckCache
  <2> DEFINE D == IF Checking!Unfit(Checking!Times(Checking!Held(route)),
                                    Checking!ReuseAge, MaxSkew) THEN route ELSE {}
  <2>1. /\ spc = "rates" /\ spc' = "fetch" /\ checked' = now /\ prompt' = TRUE
        /\ cache' = [s \in Books |-> IF s \in D THEN -1 ELSE cache[s]]
        /\ UNCHANGED <<now, pending, route, asked, verdict>>
    BY <1>4 DEF Checking!CheckCache, Checking!Drop, Books, Checking!None
  <2>2. cache' \in [Books -> Time] /\ \A s \in Books : cache'[s] <= now
    BY <2>1 DEF Stamped, Time
  <2>3. ASSUME NEW s \in route, cache'[s] # -1
        PROVE  cache'[s] <= now /\ now - cache'[s] <= Checking!ReuseAge
    <3>1. s \in Books /\ s \notin D /\ cache'[s] = cache[s]
        BY <2>1, <2>3 DEF Stamped
    <3>2. ~Checking!Unfit(Checking!Times(Checking!Held(route)), Checking!ReuseAge, MaxSkew)
        BY <3>1
    <3>3. cache[s] \in Checking!Times(Checking!Held(route))
        BY <2>3, <3>1 DEF Checking!Times, Checking!Held, Checking!None
    <3>4. ~(now - cache[s] > Checking!ReuseAge)
        BY <3>2, <3>3 DEF Checking!Unfit
    <3> QED
        BY <3>1, <3>4, ReuseWithinLimits DEF Stamped, Time
  <2>4. \A s \in route : asked'[s] = -1
    BY <2>1, <1>0 DEF Stamped, Fetching
  <2>5. Stamped'
    BY <2>1, <2>2 DEF Stamped
  <2>6. Fetching'
    BY <2>1, <2>3, <2>4 DEF Fetching
  <2> QED
    BY <2>5, <2>6
<1>5. CASE Checking!Decide
  <2>1. cache' = [s \in Books |-> IF s \in Checking!Missing THEN asked[s] ELSE cache[s]]
    BY <1>5 DEF Checking!Decide, Books
  <2>2. cache' \in [Books -> Time] /\ \A s \in Books : cache'[s] <= now
    BY <2>1 DEF Stamped
  <2> QED
    BY <1>5, <2>2, <1>0 DEF Checking!Decide, Stamped, Fetching, Time
<1>6. CASE Checking!Done
    BY <1>6 DEF Checking!Done, Stamped, Fetching
<1>7. CASE \E s \in Books : Checking!Request(s)
  <2>1. PICK b \in Books : Checking!Request(b)
    BY <1>7
  <2>2. /\ spc = "fetch" /\ asked[b] = -1 /\ asked' = [asked EXCEPT ![b] = now]
        /\ prompt' = (prompt /\ now = checked)
        /\ UNCHANGED <<now, pending, spc, route, cache, verdict, checked>>
    BY <2>1 DEF Checking!Request, Checking!None
  <2>3. \A s \in Books : asked'[s] = IF s = b THEN now ELSE asked[s]
    BY <2>2 DEF Stamped
  <2>4. asked' \in [Books -> Time]
    BY <2>2 DEF Stamped, Time
  <2>5. Stamped'
    BY <2>2, <2>3, <2>4 DEF Stamped
  <2> QED
    BY <2>2, <2>3, <2>5 DEF Stamped, Fetching
<1>8. CASE UNCHANGED scan
    BY <1>8 DEF scan, Stamped, Fetching
<1> QED
    BY <1>1, <1>2, <1>3, <1>4, <1>5, <1>6, <1>7, <1>8 DEF Checking!Next, Books

\* Looked at in time, books whose requests were prompt are fit for a decision.
LEMMA PromptBooksAreFit == BookInv /\ Checking!Next => Checking!Harmless
<1> SUFFICES ASSUME BookInv, Checking!Next, verdict' = "DEPTH", spc = "fetch", spc' = "next",
                    prompt, now - checked <= MaxAge - Checking!ReuseAge
             PROVE  FALSE
    BY ConfirmationAssumption, ReuseWithinLimits DEF Checking!Harmless, BookInv, Stamped
<1> USE ConfirmationAssumption, ReuseWithinLimits
<1>1. Checking!Decide
    BY DEF Checking!Next, Checking!Tick, Checking!Take, Checking!Reject, Checking!CheckCache,
           Checking!Drop, Checking!Done, Checking!Request
<1>2. PICK B : B = {cache'[s] : s \in route}
    OBVIOUS
<1>3. Checking!Unfit(B, MaxAge, MaxSkew)
    BY <1>1, <1>2 DEF Checking!Decide
<1>4. ASSUME NEW t \in B
      PROVE  t \in Nat /\ t <= checked /\ checked - t <= Checking!ReuseAge
  <2>1. PICK s \in route : t = cache'[s]
    BY <1>2
  <2>2. /\ s \in Books
        /\ t = IF cache[s] = -1 THEN asked[s] ELSE cache[s]
        /\ cache[s] = -1 => asked[s] # -1
    BY <1>1, <2>1 DEF Checking!Decide, Checking!Missing, Checking!None, BookInv, Stamped, Books
  <2> QED
    BY <2>2 DEF BookInv, Stamped, Fetching, Time
<1>5. now \in Nat /\ checked \in Nat /\ checked <= now /\ MaxAge \in Nat /\ MaxSkew \in Nat
    BY DEF BookInv, Stamped
<1>6. -1 \notin B
    BY <1>4
<1>7. ~\E t \in B : now - t > MaxAge
  <2> SUFFICES ASSUME NEW t \in B PROVE ~(now - t > MaxAge)
    OBVIOUS
  <2> QED
    BY <1>4, <1>5
<1>8. ~\E t, u \in B : t - u > MaxSkew
  <2> SUFFICES ASSUME NEW t \in B, NEW u \in B PROVE ~(t - u > MaxSkew)
    OBVIOUS
  <2> QED
    BY <1>4, <1>5
<1> QED
    BY <1>3, <1>6, <1>7, <1>8 DEF Checking!Unfit, Checking!None

\* A candidate whose own requests were prompt is never rejected for what earlier candidates
\* left in the cache.
THEOREM LeftoversAreHarmless == MCSpec => LeftoversHarmless
<1>1. MCInit => BookInv
    BY BooksInit DEF MCInit
<1>2. BookInv /\ [MCNext]_all => BookInv'
  <2> SUFFICES ASSUME BookInv, [MCNext]_all PROVE BookInv'
    OBVIOUS
  <2>1. [Checking!Next]_scan
    BY DEF MCNext, all, scan
  <2> QED
    BY <2>1, BooksStep
<1>3. BookInv /\ [MCNext]_all => [part = "checking" => Checking!Harmless]_all
    BY PromptBooksAreFit DEF MCNext, all
<1> QED
    BY <1>1, <1>2, <1>3, PTL DEF MCSpec, LeftoversHarmless
-----------------------------------------------------------------------------
(* What an amount buys. *)

\* A quotient, and the least multiple above a number.
LEMMA Quotient ==
    ASSUME NEW n \in Nat, NEW d \in Nat \ {0}
    PROVE  /\ n \div d \in Nat /\ (n \div d) * d <= n /\ n < (n \div d + 1) * d
    OBVIOUS

LEMMA Cancel ==
    ASSUME NEW a \in Int, NEW b \in Int, NEW d \in Nat \ {0}
    PROVE  /\ a * d <= b * d <=> a <= b
           /\ a * d < b * d <=> a < b
    OBVIOUS

LEMMA Monotone ==
    ASSUME NEW a \in Int, NEW b \in Int, NEW w \in Nat, a <= b
    PROVE  a * w <= b * w
    OBVIOUS

LEMMA CeilingBounds ==
    ASSUME NEW n \in Nat, NEW d \in Nat \ {0}
    PROVE  /\ Sizing!Ceiling(n, d) \in Nat
           /\ n <= Sizing!Ceiling(n, d) * d /\ Sizing!Ceiling(n, d) * d < n + d
<1> DEFINE q == (n + d - 1) \div d
<1>1. n + d - 1 \in Nat
    OBVIOUS
<1>2. q \in Nat /\ q * d <= n + d - 1 /\ n + d - 1 < (q + 1) * d
    BY <1>1, Quotient
<1>3. (q + 1) * d = q * d + d
    BY <1>2
<1> QED
    BY <1>2, <1>3 DEF Sizing!Ceiling

\* A number is at most k times d, or more, exactly if its ceiling is at most k, or more.
LEMMA CeilingCompared ==
    ASSUME NEW n \in Nat, NEW d \in Nat \ {0}, NEW k \in Int
    PROVE  n <= k * d <=> Sizing!Ceiling(n, d) <= k
<1> PICK c \in Nat : c = Sizing!Ceiling(n, d) /\ n <= c * d /\ c * d < n + d
    BY CeilingBounds
<1>1. n <= k * d => c <= k
  <2> SUFFICES ASSUME n <= k * d PROVE c < k + 1
    OBVIOUS
  <2>1. c * d < (k + 1) * d
    OBVIOUS
  <2> QED
    BY <2>1, Cancel
<1>2. c <= k => n <= k * d
  <2> SUFFICES ASSUME c <= k PROVE n <= k * d
    OBVIOUS
  <2>1. c * d <= k * d
    BY Cancel
  <2> QED
    BY <2>1
<1> QED
    BY <1>1, <1>2

\* The largest multiple of a step that a sum affords at a price: no larger one does.
LEMMA LargestMultiple ==
    ASSUME NEW n \in Nat, NEW u \in Nat \ {0}, NEW s \in Nat \ {0},
           NEW q, q = (n \div (u * s)) * s
    PROVE  /\ q \in Nat /\ q * u <= n
           /\ \A m \in Nat : m % s = 0 /\ m > q => m * u > n
<1> PICK k \in Nat : k = n \div (u * s) /\ k * (u * s) <= n /\ n < (k + 1) * (u * s)
  <2>1. u * s \in Nat \ {0}
    OBVIOUS
  <2> QED
    BY <2>1, Quotient
<1>1. q \in Nat /\ q * u = k * (u * s)
    OBVIOUS
<1>2. ASSUME NEW m \in Nat, m % s = 0, m > q
      PROVE  m * u > n
  <2> PICK j \in Nat : j = m \div s /\ m = j * s
    BY <1>2
  <2>1. k * s < j * s
    BY <1>2
  <2>2. k + 1 <= j
    BY <2>1, Cancel
  <2>3. (k + 1) * (u * s) <= j * (u * s)
    BY <2>2, Cancel, u * s \in Nat \ {0}
  <2>4. j * (u * s) = (j * s) * u
    OBVIOUS
  <2> QED
    BY <2>3, <2>4
<1> QED
    BY <1>1, <1>2

\* What a budget leaves for a commission in the source asset, buying ...
LEMMA BuyReserve ==
    ASSUME NEW a \in Int, NEW n \in Nat, NEW g \in Nat, NEW p \in Nat \ {0}, NEW w \in Nat
    PROVE  /\ g * p <= n /\ n * (100 * p + w) <= a * (100 * p)
                 => n + Sizing!Ceiling(g * w, 100) <= a
           /\ g * p = n /\ n + Sizing!Ceiling(g * w, 100) <= a
                 => n * (100 * p + w) <= a * (100 * p)
<1>0. g * w \in Nat
    OBVIOUS
<1>1. ASSUME g * p <= n, n * (100 * p + w) <= a * (100 * p)
      PROVE  n + Sizing!Ceiling(g * w, 100) <= a
  <2>1. (g * p) * w <= n * w
    BY <1>1, Monotone, g * p \in Int
  <2>2. (g * w) * p <= ((a - n) * 100) * p
    BY <1>1, <2>1
  <2>3. g * w <= (a - n) * 100
    BY <2>2, <1>0, Cancel, (a - n) * 100 \in Int
  <2>4. Sizing!Ceiling(g * w, 100) <= a - n
    BY <2>3, <1>0, CeilingCompared
  <2> QED
    BY <2>4, <1>0, CeilingBounds
<1>2. ASSUME g * p = n, n + Sizing!Ceiling(g * w, 100) <= a
      PROVE  n * (100 * p + w) <= a * (100 * p)
  <2>1. Sizing!Ceiling(g * w, 100) <= a - n
    BY <1>2, <1>0, CeilingBounds
  <2>2. g * w <= (a - n) * 100
    BY <2>1, <1>0, CeilingCompared
  <2>3. (g * w) * p <= ((a - n) * 100) * p
    BY <2>2, <1>0, Cancel, (a - n) * 100 \in Int
  <2> QED
    BY <1>2, <2>3
<1> QED
    BY <1>1, <1>2

\* ... and selling.
LEMMA SellReserve ==
    ASSUME NEW a \in Int, NEW n \in Nat, NEW w \in Nat, NEW r \in Nat \ {0}
    PROVE  n * (100 * r + w) <= a * (100 * r) <=> n + Sizing!Ceiling(n * w, 100 * r) <= a
<1>0. n * w \in Nat /\ 100 * r \in Nat \ {0}
    OBVIOUS
<1>1. n * w <= (a - n) * (100 * r) <=> Sizing!Ceiling(n * w, 100 * r) <= a - n
    BY <1>0, CeilingCompared
<1>2. n * (100 * r + w) <= a * (100 * r) <=> n * w <= (a - n) * (100 * r)
    OBVIOUS
<1>3. Sizing!Ceiling(n * w, 100 * r) \in Nat
    BY <1>0, CeilingBounds
<1> QED
    BY <1>1, <1>2, <1>3

-----------------------------------------------------------------------------
(* Orders. *)

\* The question is one that can be asked.
Asking ==
    /\ side \in {"buy", "sell"} /\ amount \in Amounts /\ pair \in Filters /\ fee \in Commissions
    /\ book[1] \in Sizing!Levels

\* OrderSizing's property of an order or a simulated leg, for any of them.
Fits(o, r) ==
    /\ r.ok => IF o = "simulate" THEN r.used <= amount
                                 ELSE r.used + Sizing!Reserved(r.gross) <= amount
    /\ o = "limit" /\ r.ok =>
         /\ r.price % pair.tick = 0
         /\ IF side = "buy" THEN r.price \in Sizing!Top..(Sizing!Top + pair.tick - 1)
                            ELSE r.price \in (Sizing!Top - pair.tick + 1)..Sizing!Top
    /\ o = "limit" /\ r.code \in {"OK", "SMALL"} =>
         LET p == Sizing!Rounded(Sizing!Top) IN
         \A q \in (r.quantity + 1)..amount :
            q % pair.step = 0 /\ q >= pair.min /\ q * p >= pair.minNotional
                => Sizing!Spent(q, p) + Sizing!Reserved(Sizing!Got(q, p)) + 1 > amount

LEMMA OrderFitsIsFits == OrderFits <=> Fits(op, result)
    BY DEF OrderFits, Sizing!OrderFits, Sizing!WithinBudget, Sizing!LimitCrosses,
           Sizing!LimitLargest, Fits

\* The types behind a question.
LEMMA QuestionTypes ==
    ASSUME Asking
    PROVE  /\ amount \in Nat \ {0} /\ Sizing!Top \in Nat \ {0}
           /\ pair.step \in Nat \ {0} /\ pair.tick \in Nat \ {0}
           /\ pair.min \in Nat /\ pair.max \in Nat
           /\ pair.minNotional \in Nat /\ pair.maxNotional \in Nat
           /\ pair.minPrice \in Nat /\ pair.maxPrice \in Nat
           /\ pair.marketStep \in Nat /\ pair.marketMin \in Nat /\ pair.marketMax \in Nat
           /\ fee.percent \in Nat /\ fee.percent <= 100 /\ fee.rate \in Nat \ {0}
           /\ fee.asset \in {"source", "target", "other"}
    BY SizingAssumption DEF Asking, Sizing!Top, Sizing!Levels

\* A budget is a fraction, and what it pays for leaves enough for the commission; what it
\* does not pay for, does not.
LEMMA BudgetReserves ==
    ASSUME Asking, NEW n \in Nat, NEW g \in Nat, NEW p \in Nat,
           IF side = "buy" THEN p # 0 /\ g * p <= n ELSE g = n * p
    PROVE  /\ Sizing!Budget(p)[1] \in Nat /\ Sizing!Budget(p)[2] \in Nat \ {0}
           /\ Sizing!Reserved(g) \in Nat
           /\ n * Sizing!Budget(p)[2] <= Sizing!Budget(p)[1] => n + Sizing!Reserved(g) <= amount
           /\ n * Sizing!Budget(p)[2] > Sizing!Budget(p)[1] /\ (side = "buy" => g * p = n)
                 => n + Sizing!Reserved(g) + 1 > amount
<1>0. PICK a \in Nat \ {0}, f \in Nat, r \in Nat \ {0} :
         a = amount /\ f = fee.percent /\ r = fee.rate /\ side \in {"buy", "sell"}
    BY QuestionTypes DEF Asking
<1>1. CASE fee.asset # "source"
    BY <1>0, <1>1 DEF Sizing!Budget, Sizing!Reserved
<1>2. CASE fee.asset = "source" /\ f = 0
  <2>1. Sizing!Budget(p) = <<a, 1>>
    BY <1>0, <1>2 DEF Sizing!Budget
  <2>2. \/ Sizing!Reserved(g) = Sizing!Ceiling(0, 100)
        \/ Sizing!Reserved(g) = Sizing!Ceiling(0, 100 * r)
    BY <1>0, <1>2 DEF Sizing!Reserved, Sizing!Commission
  <2>3. Sizing!Ceiling(0, 100) \in Nat /\ Sizing!Ceiling(0, 100) <= 0
    BY CeilingBounds, CeilingCompared
  <2>4. Sizing!Ceiling(0, 100 * r) \in Nat /\ Sizing!Ceiling(0, 100 * r) <= 0
    <3>1. 100 * r \in Nat \ {0}
        OBVIOUS
    <3> QED
        BY <3>1, CeilingBounds, CeilingCompared
  <2>5. Sizing!Reserved(g) = 0
    BY <2>2, <2>3, <2>4
  <2> QED
    BY <1>0, <2>1, <2>5
<1>3. CASE fee.asset = "source" /\ f # 0 /\ side = "buy"
  <2>0. PICK w \in Nat : w = f * r
    OBVIOUS
  <2>1. Sizing!Budget(p) = <<(a - 1) * (100 * p), 100 * p + w>>
    BY <1>0, <1>3, <2>0 DEF Sizing!Budget, Sizing!FeeWeight
  <2>2. Sizing!Reserved(g) = Sizing!Ceiling(g * w, 100)
    <3>1. g * f * r = g * w
        BY <2>0
    <3> QED
        BY <1>0, <1>3, <3>1 DEF Sizing!Reserved, Sizing!Commission
  <2>3. Sizing!Reserved(g) \in Nat
    <3>1. g * w \in Nat
        OBVIOUS
    <3> QED
        BY <2>2, <3>1, CeilingBounds
  <2>4. (a - 1) * (100 * p) \in Nat /\ 100 * p + w \in Nat \ {0}
    BY <1>3
  <2>5. /\ n * (100 * p + w) <= (a - 1) * (100 * p) => n + Sizing!Reserved(g) <= a - 1
        /\ g * p = n /\ n + Sizing!Reserved(g) <= a - 1
             => n * (100 * p + w) <= (a - 1) * (100 * p)
    BY <1>3, <2>2, BuyReserve, a - 1 \in Int
  <2>6. PICK d \in Nat \ {0}, y \in Nat : d = 100 * p + w /\ y = (a - 1) * (100 * p)
    BY <2>4
  <2>7. Sizing!Budget(p)[1] = y /\ Sizing!Budget(p)[2] = d
    BY <2>1, <2>6
  <2>8. n * d \in Nat
    OBVIOUS
  <2>9. PICK x \in Nat, z \in Nat : x = n * d /\ z = Sizing!Reserved(g)
    BY <2>3, <2>8
  <2>10. /\ x <= y => n + z <= a - 1
         /\ g * p = n /\ n + z <= a - 1 => x <= y
    BY <2>5, <2>6, <2>9
  <2>11. /\ x <= y => n + z <= a
         /\ x > y /\ g * p = n => n + z + 1 > a
    BY ONLY <2>10, x \in Nat, y \in Nat, z \in Nat, n \in Nat, a \in Nat
  <2> QED
    BY <1>0, <1>3, <2>3, <2>7, <2>9, <2>11
<1>4. CASE fee.asset = "source" /\ f # 0 /\ side = "sell"
  <2>0. PICK w \in Nat : w = f * p
    OBVIOUS
  <2>1. Sizing!Budget(p) = <<(a - 1) * (100 * r), 100 * r + w>>
    BY <1>0, <1>4, <2>0 DEF Sizing!Budget, Sizing!FeeWeight
  <2>2. Sizing!Reserved(g) = Sizing!Ceiling(n * w, 100 * r)
    <3>1. g * f = n * w
        BY <1>4, <2>0
    <3> QED
        BY <1>0, <1>4, <3>1 DEF Sizing!Reserved, Sizing!Commission
  <2>3. Sizing!Reserved(g) \in Nat
    <3>1. n * w \in Nat /\ 100 * r \in Nat \ {0}
        OBVIOUS
    <3> QED
        BY <2>2, <3>1, CeilingBounds
  <2>4. (a - 1) * (100 * r) \in Nat /\ 100 * r + w \in Nat \ {0}
    OBVIOUS
  <2>5. n * (100 * r + w) <= (a - 1) * (100 * r) <=> n + Sizing!Reserved(g) <= a - 1
    BY <2>2, SellReserve, a - 1 \in Int
  <2>6. PICK d \in Nat \ {0}, y \in Nat : d = 100 * r + w /\ y = (a - 1) * (100 * r)
    BY <2>4
  <2>7. Sizing!Budget(p)[1] = y /\ Sizing!Budget(p)[2] = d
    BY <2>1, <2>6
  <2>8. n * d \in Nat
    OBVIOUS
  <2>9. PICK x \in Nat, z \in Nat : x = n * d /\ z = Sizing!Reserved(g)
    BY <2>3, <2>8
  <2>10. /\ x <= y => n + z <= a - 1
         /\ n + z <= a - 1 => x <= y
    BY <2>5, <2>6, <2>9
  <2>11. /\ x <= y => n + z <= a
         /\ x > y => n + z + 1 > a
    BY ONLY <2>10, x \in Nat, y \in Nat, z \in Nat, n \in Nat, a \in Nat
  <2> QED
    BY <1>0, <1>4, <2>3, <2>7, <2>9, <2>11
<1> QED
    BY <1>0, <1>1, <1>2, <1>3, <1>4

\* The price of a limit order: on the grid, and less than a tick from the market.
LEMMA RoundedCrosses ==
    ASSUME Asking, NEW p, p = Sizing!Rounded(Sizing!Top)
    PROVE  /\ p \in Nat /\ p % pair.tick = 0
           /\ IF side = "buy" THEN p # 0 /\ p \in Sizing!Top..(Sizing!Top + pair.tick - 1)
                              ELSE p \in (Sizing!Top - pair.tick + 1)..Sizing!Top
<1>0. PICK t \in Nat \ {0}, d \in Nat \ {0} :
         t = Sizing!Top /\ d = pair.tick /\ side \in {"buy", "sell"}
    BY QuestionTypes DEF Asking
<1>1. ASSUME NEW k \in Nat PROVE (k * d) % d = 0
    OBVIOUS
<1>2. CASE side = "buy"
  <2>1. PICK k \in Nat : k = Sizing!Ceiling(t, d) /\ t <= k * d /\ k * d < t + d
    BY CeilingBounds
  <2>2. p = k * d
    BY <1>0, <1>2, <2>1 DEF Sizing!Rounded
  <2>3. PICK m \in Nat : m = k * d /\ m % d = 0
    BY <1>1
  <2>4. t <= m /\ m < t + d /\ p = m
    BY <2>1, <2>2, <2>3
  <2> QED
    BY <1>0, <1>2, <2>3, <2>4
<1>3. CASE side = "sell"
  <2>1. PICK k \in Nat : k = t \div d /\ k * d <= t /\ t < (k + 1) * d
    BY Quotient
  <2>2. p = k * d
    BY <1>0, <1>3, <2>1 DEF Sizing!Rounded, Sizing!Down
  <2>3. PICK m \in Nat : m = k * d /\ m % d = 0 /\ (k + 1) * d = m + d
    BY <1>1
  <2>4. m <= t /\ t < m + d /\ p = m
    BY <2>1, <2>2, <2>3
  <2> QED
    BY <1>0, <1>3, <2>3, <2>4
<1> QED
    BY <1>0, <1>2, <1>3

LEMMA BudgetIsFraction ==
    ASSUME Asking, NEW p \in Nat, side = "buy" => p # 0
    PROVE  Sizing!Budget(p)[1] \in Nat /\ Sizing!Budget(p)[2] \in Nat \ {0}
<1>1. 0 * p = 0
    OBVIOUS
<1>2. CASE side = "buy"
    BY <1>1, <1>2, BudgetReserves
<1>3. CASE side # "buy"
    BY <1>1, <1>3, BudgetReserves
<1> QED
    BY <1>2, <1>3

\* The lots of a budget at a price are what it pays for, and no more lots are.
LEMMA LotsLargest ==
    ASSUME Asking, NEW p \in Nat, side = "buy" => p # 0, NEW s \in Nat \ {0},
           NEW q, q = Sizing!Lots(Sizing!Budget(p), p, s)
    PROVE  /\ q \in Nat /\ Sizing!Spent(q, p) * Sizing!Budget(p)[2] <= Sizing!Budget(p)[1]
           /\ \A m \in Nat : m % s = 0 /\ m > q
                 => Sizing!Spent(m, p) * Sizing!Budget(p)[2] > Sizing!Budget(p)[1]
<1>0. PICK n \in Nat, d \in Nat \ {0} : n = Sizing!Budget(p)[1] /\ d = Sizing!Budget(p)[2]
    BY BudgetIsFraction
<1>1. CASE side = "buy"
  <2>1. PICK u \in Nat \ {0} : u = d * p
    BY <1>1
  <2>2. q = (n \div (u * s)) * s
    BY <1>0, <1>1, <2>1 DEF Sizing!Lots
  <2>3. q \in Nat /\ q * u <= n /\ \A m \in Nat : m % s = 0 /\ m > q => m * u > n
    BY <2>2, LargestMultiple
  <2>4. ASSUME NEW m \in Nat PROVE Sizing!Spent(m, p) * d = m * u
    <3>1. Sizing!Spent(m, p) = m * p
        BY <1>1 DEF Sizing!Spent
    <3> QED
        BY <2>1, <3>1
  <2> QED
    BY <1>0, <2>3, <2>4
<1>2. CASE side # "buy"
  <2>1. q = (n \div (d * s)) * s
    BY <1>0, <1>2 DEF Sizing!Lots
  <2>2. q \in Nat /\ q * d <= n /\ \A m \in Nat : m % s = 0 /\ m > q => m * d > n
    BY <2>1, LargestMultiple
  <2>3. ASSUME NEW m \in Nat PROVE Sizing!Spent(m, p) = m
    BY <1>2 DEF Sizing!Spent
  <2> QED
    BY <1>0, <2>2, <2>3
<1> QED
    BY <1>1, <1>2

\* What a quantity leaves or does not leave for its commission, if its price is paid for.
LEMMA QuantityReserves ==
    ASSUME Asking, NEW p \in Nat, side = "buy" => p # 0, NEW q \in Nat
    PROVE  /\ Sizing!Spent(q, p) \in Nat /\ Sizing!Reserved(Sizing!Got(q, p)) \in Nat
           /\ Sizing!Spent(q, p) * Sizing!Budget(p)[2] <= Sizing!Budget(p)[1]
                 => Sizing!Spent(q, p) + Sizing!Reserved(Sizing!Got(q, p)) <= amount
           /\ Sizing!Spent(q, p) * Sizing!Budget(p)[2] > Sizing!Budget(p)[1]
                 => Sizing!Spent(q, p) + Sizing!Reserved(Sizing!Got(q, p)) + 1 > amount
<1>0. PICK m \in Nat : m = q * p
    OBVIOUS
<1>1. CASE side = "buy"
  <2>1. Sizing!Spent(q, p) = m /\ Sizing!Got(q, p) = q
    BY <1>0, <1>1 DEF Sizing!Spent, Sizing!Got
  <2> QED
    BY <1>0, <1>1, <2>1, BudgetReserves
<1>2. CASE side # "buy"
  <2>1. Sizing!Spent(q, p) = q /\ Sizing!Got(q, p) = m
    BY <1>0, <1>2 DEF Sizing!Spent, Sizing!Got
  <2> QED
    BY <1>0, <1>2, <2>1, BudgetReserves
<1> QED
    BY <1>1, <1>2

\* A limit order fits, and a larger one that the filters admit does not.
LEMMA LimitFits == Asking => Fits("limit", Sizing!Limit)
<1> SUFFICES ASSUME Asking PROVE Fits("limit", Sizing!Limit)
    OBVIOUS
<1>0. PICK p \in Nat : p = Sizing!Rounded(Sizing!Top)
    BY RoundedCrosses
<1>1. /\ p % pair.tick = 0 /\ (side = "buy" => p # 0)
      /\ IF side = "buy" THEN p \in Sizing!Top..(Sizing!Top + pair.tick - 1)
                         ELSE p \in (Sizing!Top - pair.tick + 1)..Sizing!Top
    BY <1>0, RoundedCrosses
<1>2. PICK q \in Nat : q = Sizing!Lots(Sizing!Budget(p), p, pair.step)
    BY <1>1, LotsLargest, QuestionTypes
<1>3. /\ Sizing!Spent(q, p) + Sizing!Reserved(Sizing!Got(q, p)) <= amount
      /\ \A m \in Nat : m % pair.step = 0 /\ m > q
            => Sizing!Spent(m, p) + Sizing!Reserved(Sizing!Got(m, p)) + 1 > amount
  <2>1. /\ Sizing!Spent(q, p) * Sizing!Budget(p)[2] <= Sizing!Budget(p)[1]
        /\ \A m \in Nat : m % pair.step = 0 /\ m > q
              => Sizing!Spent(m, p) * Sizing!Budget(p)[2] > Sizing!Budget(p)[1]
    BY <1>1, <1>2, LotsLargest, QuestionTypes
  <2> QED
    BY <1>1, <2>1, QuantityReserves
<1>4. PICK ok \in {"OK", "SMALL", "LARGE", "PRICE"} :
        /\ Sizing!Limit = IF ok = "OK" THEN Sizing!Result(TRUE, "OK", q, p, Sizing!Spent(q, p),
                                                          Sizing!Got(q, p))
                          ELSE Sizing!Refuse(ok)
        /\ ok = "SMALL" => q < pair.min \/ q * p < pair.minNotional
    BY <1>0, <1>2 DEF Sizing!Limit, Sizing!Filtered
<1>5. CASE ok = "OK"
    BY <1>0, <1>1, <1>3, <1>4, <1>5 DEF Fits, Sizing!Result
<1>6. CASE ok = "SMALL"
  <2>1. /\ Sizing!Limit.ok = FALSE /\ Sizing!Limit.quantity = 0
    BY <1>4, <1>6 DEF Sizing!Refuse, Sizing!Result
  <2>2. ASSUME NEW m \in 1..amount, m % pair.step = 0, m >= pair.min, m * p >= pair.minNotional
        PROVE  Sizing!Spent(m, p) + Sizing!Reserved(Sizing!Got(m, p)) + 1 > amount
    <3>1. m \in Nat
        BY QuestionTypes
    <3>2. m > q
      <4>1. CASE q < pair.min
        BY <2>2, <3>1, <4>1, QuestionTypes
      <4>2. CASE q * p < pair.minNotional
        <5>1. m <= q => m * p <= q * p
            BY <3>1, Monotone
        <5>2. m * p \in Nat /\ q * p \in Nat
            BY <3>1
        <5> QED
            BY <2>2, <3>1, <4>2, <5>1, <5>2, QuestionTypes
      <4> QED
        BY <1>4, <1>6, <4>1, <4>2
    <3> QED
        BY <1>3, <2>2, <3>1, <3>2
  <2> QED
    BY <1>0, <2>1, <2>2 DEF Fits
<1>7. CASE ok \in {"LARGE", "PRICE"}
    BY <1>4, <1>7 DEF Fits, Sizing!Refuse, Sizing!Result
<1> QED
    BY <1>5, <1>6, <1>7

\* So do market orders,
LEMMA MarketBuyFits == Asking /\ side = "buy" => Fits("market", Sizing!MarketBuy)
<1> SUFFICES ASSUME Asking, side = "buy" PROVE Fits("market", Sizing!MarketBuy)
    OBVIOUS
<1>0. PICK t \in Nat \ {0} : t = Sizing!Top
    BY QuestionTypes
<1>1. PICK s \in Nat \ {0} : s = Sizing!MarketStep
    BY QuestionTypes DEF Sizing!MarketStep
<1>2. PICK n \in Nat, d \in Nat \ {0} : n = Sizing!Budget(t)[1] /\ d = Sizing!Budget(t)[2]
    BY BudgetIsFraction
<1>3. PICK quote \in Nat : quote = Sizing!Whole(Sizing!Budget(t)) /\ quote * d <= n
    BY <1>2, Quotient DEF Sizing!Whole
<1>4. ASSUME NEW g \in Nat, g * t <= quote
      PROVE  Sizing!Reserved(g) \in Nat /\ quote + Sizing!Reserved(g) <= amount
    BY <1>2, <1>3, <1>4, BudgetReserves
<1>5. PICK g \in Nat : g = quote \div t /\ g * t <= quote
    BY Quotient
<1>6. PICK q \in Nat : q = (quote \div (t * s)) * s /\ q * t <= quote
    BY LargestMultiple
<1>7. q * t \in Nat
    OBVIOUS
<1>8. \/ Sizing!MarketBuy = Sizing!Result(TRUE, "OK", 0, 0, quote, g)
      \/ Sizing!MarketBuy = Sizing!Result(TRUE, "OK", q, 0, q * t, q)
      \/ \E code : Sizing!MarketBuy = Sizing!Refuse(code)
    BY <1>0, <1>1, <1>3, <1>5, <1>6 DEF Sizing!MarketBuy, Sizing!Filtered
<1>9. CASE Sizing!MarketBuy = Sizing!Result(TRUE, "OK", 0, 0, quote, g)
    BY <1>4, <1>5, <1>9 DEF Fits, Sizing!Result
<1>10. CASE Sizing!MarketBuy = Sizing!Result(TRUE, "OK", q, 0, q * t, q)
  <2>1. q * t + Sizing!Reserved(q) <= amount
    BY <1>4, <1>6, <1>7, QuestionTypes
  <2> QED
    BY <1>10, <2>1 DEF Fits, Sizing!Result
<1>11. CASE \E code : Sizing!MarketBuy = Sizing!Refuse(code)
    BY <1>11 DEF Fits, Sizing!Refuse, Sizing!Result
<1> QED
    BY <1>8, <1>9, <1>10, <1>11

LEMMA MarketSellFits == Asking /\ side = "sell" => Fits("market", Sizing!MarketSell)
<1> SUFFICES ASSUME Asking, side = "sell" PROVE Fits("market", Sizing!MarketSell)
    OBVIOUS
<1>0. PICK t \in Nat \ {0} : t = Sizing!Top
    BY QuestionTypes
<1>1. Sizing!MarketStep \in Nat \ {0}
    BY QuestionTypes DEF Sizing!MarketStep
<1>2. PICK q \in Nat : /\ q = Sizing!Lots(Sizing!Budget(t), t, Sizing!MarketStep)
                       /\ Sizing!Spent(q, t) * Sizing!Budget(t)[2] <= Sizing!Budget(t)[1]
    BY <1>1, LotsLargest
<1>3. Sizing!Spent(q, t) = q /\ Sizing!Got(q, t) = q * t
    BY DEF Sizing!Spent, Sizing!Got
<1>4. q + Sizing!Reserved(q * t) <= amount
    BY <1>2, <1>3, QuantityReserves
<1>5. \/ Sizing!MarketSell = Sizing!Result(TRUE, "OK", q, 0, q, q * t)
      \/ \E code : Sizing!MarketSell = Sizing!Refuse(code)
    BY <1>0, <1>2 DEF Sizing!MarketSell, Sizing!Filtered
<1> QED
    BY <1>4, <1>5 DEF Fits, Sizing!Result, Sizing!Refuse

\* and what the simulation of a leg uses up, which is compared with the amount at its end.
LEMMA SimulatedFits == Fits("simulate", Sizing!Simulated)
<1>1. \A uses, out : LET r == Sizing!Charged(uses, out) IN r.ok => r.used <= amount
    BY DEF Sizing!Charged, Sizing!Refuse, Sizing!Result
<1>2. \/ \E uses, out : Sizing!Simulated = Sizing!Charged(uses, out)
      \/ \E code : Sizing!Simulated = Sizing!Refuse(code)
    BY DEF Sizing!Simulated, Sizing!SimulatedBuy, Sizing!SimulatedSell, Sizing!Filtered
<1>3. CASE \E uses, out : Sizing!Simulated = Sizing!Charged(uses, out)
  <2>1. Sizing!Simulated.ok => Sizing!Simulated.used <= amount
    BY <1>1, <1>3
  <2> QED
    BY <2>1 DEF Fits
<1>4. CASE \E code : Sizing!Simulated = Sizing!Refuse(code)
  <2>1. ~Sizing!Simulated.ok
    BY <1>4 DEF Sizing!Refuse, Sizing!Result
  <2> QED
    BY <2>1 DEF Fits
<1> QED
    BY <1>2, <1>3, <1>4

-----------------------------------------------------------------------------
SizingInv == Asking /\ OrderFits

\* The parts of a question do not change; with them unchanged, to fit is no other thing.
LEMMA FitsAgain ==
    ASSUME NEW o, NEW r, Fits(o, r), UNCHANGED <<side, amount, pair, fee, book>>
    PROVE  Fits(o, r)'
    BY DEF Fits, Sizing!Reserved, Sizing!Commission, Sizing!Ceiling, Sizing!Top, Sizing!Rounded,
           Sizing!Down, Sizing!Spent, Sizing!Got

\* Whatever is placed, or accepted in a simulation, keeps to its budget, its price crosses
\* the market by less than a tick, and no larger order would fit.
THEOREM OrdersFit == MCSpec => []OrderFits
<1>1. MCInit => SizingInv
  <2> SUFFICES ASSUME MCInit PROVE SizingInv
    OBVIOUS
  <2>1. Sizing!Init
    BY DEF MCInit
  <2>2. book[1] \in Sizing!Levels
    BY <2>1 DEF Sizing!Init
  <2>3. op = "none" /\ ~result.ok
    BY <2>1 DEF Sizing!Init
  <2>4. OrderFits
    BY <2>3 DEF OrderFits, Sizing!OrderFits, Sizing!WithinBudget, Sizing!LimitCrosses,
                Sizing!LimitLargest
  <2> QED
    BY <2>1, <2>2, <2>4 DEF SizingInv, Asking, Sizing!Init
<1>2. SizingInv /\ [MCNext]_all => SizingInv'
  <2> SUFFICES ASSUME SizingInv, [MCNext]_all PROVE SizingInv'
    OBVIOUS
  <2>1. CASE UNCHANGED sizes
    BY <2>1 DEF sizes, SizingInv, Asking, OrderFits, Sizing!OrderFits, Sizing!WithinBudget,
                Sizing!LimitCrosses, Sizing!LimitLargest, Sizing!Reserved, Sizing!Commission,
                Sizing!Ceiling, Sizing!Top, Sizing!Rounded, Sizing!Down, Sizing!Spent,
                Sizing!Got, Sizing!Levels
  <2>2. ASSUME NEW o, NEW r, Sizing!Compute(o, r), Fits(o, r)
        PROVE  SizingInv'
    <3>1. op' = o /\ result' = r /\ UNCHANGED <<side, amount, pair, fee, book>>
        BY <2>2 DEF Sizing!Compute
    <3>2. Fits(o, r)'
        BY <2>2, <3>1, FitsAgain
    <3>3. OrderFits' <=> Fits(op, result)'
        BY OrderFitsIsFits, PTL
    <3>4. Asking'
        BY <3>1 DEF SizingInv, Asking, Sizing!Levels
    <3> QED
        BY <3>1, <3>2, <3>3, <3>4 DEF SizingInv, Fits
  <2>3. CASE Sizing!Next
    <3>1. CASE Sizing!PrepareLimit
        BY <2>2, <3>1, LimitFits DEF Sizing!PrepareLimit, SizingInv
    <3>2. CASE Sizing!PrepareMarket
        BY <2>2, <3>2, MarketBuyFits, MarketSellFits DEF Sizing!PrepareMarket, SizingInv, Asking
    <3>3. CASE Sizing!Simulate
        BY <2>2, <3>3, SimulatedFits DEF Sizing!Simulate
    <3> QED
        BY <2>3, <3>1, <3>2, <3>3 DEF Sizing!Next
  <2> QED
    BY <2>1, <2>3 DEF MCNext, all, sizes
<1>3. SizingInv => OrderFits
    BY DEF SizingInv
<1> QED
    BY <1>1, <1>2, <1>3, PTL DEF MCSpec
-----------------------------------------------------------------------------
(* A simulated leg. *)

\* The question with all of its book.
Question ==
    /\ Asking
    /\ book \in {<<l>> : l \in Sizing!Levels} \cup (Sizing!Levels \X Sizing!Levels)
    /\ Sizing!Sorted(book)

\* Such a book has one level, or two of which the first is the better.
LEMMA BookShape ==
    ASSUME Question
    PROVE  /\ Len(book) \in {1, 2} /\ DOMAIN book = 1..Len(book)
           /\ \A i \in 1..Len(book) : book[i].price \in Nat \ {0} /\ book[i].quantity \in Nat \ {0}
           /\ Len(book) = 2 => IF side = "buy" THEN book[1].price < book[2].price
                                               ELSE book[1].price > book[2].price
<1>1. Prices \subseteq Nat \ {0} /\ Quantities \subseteq Nat \ {0}
    BY SizingAssumption
<1>2. ASSUME NEW l \in Sizing!Levels
      PROVE  l.price \in Nat \ {0} /\ l.quantity \in Nat \ {0}
    BY <1>1 DEF Sizing!Levels
<1>3. CASE book \in {<<l>> : l \in Sizing!Levels}
    BY <1>2, <1>3
<1>4. CASE book \in Sizing!Levels \X Sizing!Levels
  <2>1. PICK k \in Sizing!Levels, l \in Sizing!Levels : book = <<k, l>>
    BY <1>4
  <2>2. Len(book) = 2 /\ DOMAIN book = 1..2 /\ book[1] = k /\ book[2] = l
    BY <2>1
  <2>3. IF side = "buy" THEN book[1].price < book[2].price ELSE book[1].price > book[2].price
    BY <2>2, 1 < 2, 1 \in 1..2, 2 \in 1..2 DEF Question, Sizing!Sorted
  <2> QED
    BY <1>2, <2>2, <2>3
<1> QED
    BY <1>3, <1>4 DEF Question

\* Sums over a book of one or two levels are what their recursion says.
LEMMA SumsAre ==
    ASSUME Question, NEW g, \A i \in 1..Len(book) : g[i] \in Nat
    PROVE  /\ Sizing!Sums(g)[0] = 0 /\ Sizing!Sums(g)[1] = g[1]
           /\ Len(book) = 2 => Sizing!Sums(g)[2] = g[1] + g[2]
<1> PICK n \in {1, 2} : n = Len(book)
    BY BookShape
<1> DEFINE w == [i \in 0..n |-> IF i = 0 THEN 0 ELSE IF i = 1 THEN g[1] ELSE g[1] + g[2]]
<1>1. w = [i \in 0..n |-> IF i = 0 THEN 0 ELSE w[i - 1] + g[i]]
  <2>1. ASSUME NEW i \in 0..n PROVE w[i] = IF i = 0 THEN 0 ELSE w[i - 1] + g[i]
    <3>1. i \in {0, 1, 2} /\ (i = 2 => n = 2) /\ (i >= 1 => i - 1 \in 0..n)
      OBVIOUS
    <3>2. g[1] \in Nat
      OBVIOUS
    <3>3. 0 \in 0..n /\ 1 \in 0..n /\ w[0] = 0 /\ w[1] = g[1] /\ (n = 2 => w[2] = g[1] + g[2])
      OBVIOUS
    <3> HIDE DEF w
    <3> QED
      BY <3>1, <3>2, <3>3
  <2> QED
    BY <2>1
<1>2. \A i \in 0..n : w[i] = IF i = 0 THEN 0 ELSE IF i = 1 THEN g[1] ELSE g[1] + g[2]
    OBVIOUS
<1> HIDE DEF w
<1>3. Sizing!Sums(g) = [i \in 0..n |-> IF i = 0 THEN 0 ELSE Sizing!Sums(g)[i - 1] + g[i]]
    BY <1>1 DEF Sizing!Sums
<1>4. /\ Sizing!Sums(g)[0] = 0 /\ Sizing!Sums(g)[1] = 0 + g[1]
      /\ n = 2 => Sizing!Sums(g)[2] = Sizing!Sums(g)[1] + g[2]
    BY <1>3
<1> QED
    BY <1>4

\* Quantity of the first levels.
LEMMA DepthIs ==
    ASSUME Question
    PROVE  /\ Sizing!Depth[0] = 0 /\ Sizing!Depth[1] = book[1].quantity
           /\ Len(book) = 2 => Sizing!Depth[2] = book[1].quantity + book[2].quantity
<1> DEFINE g == [i \in DOMAIN book |-> book[i].quantity]
<1>1. \A i \in 1..Len(book) : g[i] = book[i].quantity /\ g[i] \in Nat
    BY BookShape
<1> QED
    BY <1>1, BookShape, SumsAre DEF Sizing!Depth

\* Value of the first levels.
LEMMA ValueIs ==
    ASSUME Question
    PROVE  /\ Sizing!Value[0] = 0 /\ Sizing!Value[1] = book[1].quantity * book[1].price
           /\ Len(book) = 2 => Sizing!Value[2] = book[1].quantity * book[1].price
                                                  + book[2].quantity * book[2].price
           /\ \A i \in 1..Len(book) : book[i].quantity * book[i].price \in Nat
<1> DEFINE g == [i \in DOMAIN book |-> book[i].quantity * book[i].price]
<1>1. \A i \in 1..Len(book) : g[i] = book[i].quantity * book[i].price /\ g[i] \in Nat
    BY BookShape
<1>2. Sizing!Value = Sizing!Sums(g)
    BY DEF Sizing!Value
<1> HIDE DEF g
<1> QED
    BY SMTT(30), <1>1, <1>2, BookShape, SumsAre

\* The first level that reaches a sum, where the last one does.
LEMMA ReachIs ==
    ASSUME Question, NEW f, NEW n \in Nat, f[1] \in Nat, n <= f[Len(book)]
    PROVE  Sizing!Reach(f, n) = IF n <= f[1] THEN 1 ELSE 2
<1> DEFINE i == IF n <= f[1] THEN 1 ELSE 2
<1>1. \A j \in DOMAIN book :
         (n <= f[j] /\ \A m \in 1..(j - 1) : f[m] < n) <=> j = i
    BY SMTT(30), BookShape
<1>2. i \in DOMAIN book
    BY BookShape
<1> QED
    BY <1>1, <1>2 DEF Sizing!Reach

\* Walks in closed form: what a quantity is worth, and the lots a budget buys.
FirstDepth == book[1].quantity
FirstValue == book[1].quantity * book[1].price
AllDepth   == IF Len(book) = 1 THEN FirstDepth ELSE FirstDepth + book[2].quantity
AllValue   == IF Len(book) = 1 THEN FirstValue
              ELSE FirstValue + book[2].quantity * book[2].price
Cost(q) == IF q <= FirstDepth THEN q * book[1].price
           ELSE FirstValue + (q - FirstDepth) * book[2].price
Bought(n) ==
    IF n <= FirstValue THEN (n \div (book[1].price * pair.step)) * pair.step
    ELSE ((FirstDepth * book[2].price + n - FirstValue) \div (book[2].price * pair.step))
            * pair.step

\* The closed forms of both sums.
LEMMA BookSums ==
    ASSUME Question
    PROVE  /\ FirstDepth \in Nat \ {0} /\ FirstValue \in Nat /\ AllDepth \in Nat /\ AllValue \in Nat
           /\ book[1].price \in Nat \ {0} /\ FirstDepth <= AllDepth /\ FirstValue <= AllValue
           /\ Sizing!Depth[0] = 0 /\ Sizing!Depth[1] = FirstDepth
           /\ Sizing!Depth[Len(book)] = AllDepth
           /\ Sizing!Value[0] = 0 /\ Sizing!Value[1] = FirstValue
           /\ Sizing!Value[Len(book)] = AllValue
<1>1. /\ FirstDepth \in Nat \ {0} /\ AllDepth \in Nat /\ FirstDepth <= AllDepth
      /\ book[1].price \in Nat \ {0}
    BY BookShape DEF FirstDepth, AllDepth
<1>2. FirstValue \in Nat /\ (Len(book) = 2 => book[2].quantity * book[2].price \in Nat)
    BY BookShape, ValueIs DEF FirstValue
<1>3. AllValue \in Nat /\ FirstValue <= AllValue
    BY <1>2, BookShape DEF AllValue
<1>4. Sizing!Depth[0] = 0 /\ Sizing!Depth[1] = FirstDepth /\ Sizing!Depth[Len(book)] = AllDepth
    BY BookShape, DepthIs DEF FirstDepth, AllDepth
<1>5. Sizing!Value[0] = 0 /\ Sizing!Value[1] = FirstValue /\ Sizing!Value[Len(book)] = AllValue
    BY BookShape, ValueIs DEF FirstValue, AllValue
<1> QED
    BY <1>1, <1>3, <1>4, <1>5, <1>2

\* A quantity that is there is worth its cost in closed form.
LEMMA WalkIsCost ==
    ASSUME Question, NEW q \in Nat, q <= AllDepth
    PROVE  Sizing!Walk(q) = Cost(q)
<1>1. /\ Sizing!Depth[0] = 0 /\ Sizing!Depth[1] = FirstDepth /\ FirstDepth \in Nat
      /\ Sizing!Depth[Len(book)] = AllDepth /\ Sizing!Value[0] = 0 /\ Sizing!Value[1] = FirstValue
    BY BookSums
<1>2. Sizing!Reach(Sizing!Depth, q) = IF q <= FirstDepth THEN 1 ELSE 2
    BY <1>1, ReachIs
<1>3. CASE q <= FirstDepth
  <2>1. Sizing!Walk(q) = 0 + (q - 0) * book[1].price
    BY <1>1, <1>2, <1>3 DEF Sizing!Walk
  <2>2. book[1].price \in Nat
    BY BookShape
  <2> QED
    BY <1>3, <2>1, <2>2 DEF Cost
<1>4. CASE ~(q <= FirstDepth)
    BY <1>1, <1>2, <1>4 DEF Sizing!Walk, Cost
<1> QED
    BY <1>3, <1>4

\* A budget that the book takes up buys the lots in closed form.
LEMMA WalkBackIsBought ==
    ASSUME Question, NEW n \in Nat, n <= AllValue
    PROVE  Sizing!WalkBack(n) = Bought(n)
<1>1. /\ Sizing!Depth[0] = 0 /\ Sizing!Depth[1] = FirstDepth /\ FirstValue \in Nat
      /\ Sizing!Value[Len(book)] = AllValue /\ Sizing!Value[0] = 0 /\ Sizing!Value[1] = FirstValue
    BY BookSums
<1>2. Sizing!Reach(Sizing!Value, n) = IF n <= FirstValue THEN 1 ELSE 2
    BY <1>1, ReachIs
<1>3. CASE n <= FirstValue
  <2>1. book[1].price \in Nat
    BY BookShape
  <2>2. 0 * book[1].price + n - 0 = n
    BY <2>1
  <2> QED
    BY <1>1, <1>2, <1>3, <2>2 DEF Sizing!WalkBack, Bought
<1>4. CASE ~(n <= FirstValue)
    BY <1>1, <1>2, <1>4 DEF Sizing!WalkBack, Bought
<1> QED
    BY <1>3, <1>4

\* A taking of a quantity: so much of each level.
LEMMA TakenIs ==
    ASSUME Question, NEW m, NEW t \in Sizing!Takes(m)
    PROVE  \E x \in Nat, y \in Nat :
             /\ x <= FirstDepth
             /\ Len(book) = 1 => y = 0 /\ m = x /\ Sizing!Worth(t) = x * book[1].price
             /\ Len(book) = 2 => /\ m = x + y
                                 /\ Sizing!Worth(t) = x * book[1].price + y * book[2].price
<1>1. /\ \A i \in 1..Len(book) : t[i] \in Nat /\ t[i] <= book[i].quantity
      /\ m = Sizing!Sums(t)[Len(book)]
    BY BookShape DEF Sizing!Takes
<1> DEFINE g == [i \in DOMAIN book |-> t[i] * book[i].price]
<1>2. \A i \in 1..Len(book) : g[i] = t[i] * book[i].price /\ g[i] \in Nat
    BY <1>1, BookShape
<1>3. Sizing!Worth(t) = Sizing!Sums(g)[Len(book)]
    BY DEF Sizing!Worth
<1> HIDE DEF g
<1>4. CASE Len(book) = 1
  <2>1. m = t[1] /\ Sizing!Worth(t) = t[1] * book[1].price
    BY <1>1, <1>2, <1>3, <1>4, SumsAre
  <2> QED
    BY <1>1, <1>4, <2>1 DEF FirstDepth
<1>5. CASE Len(book) = 2
  <2>1. m = t[1] + t[2] /\ Sizing!Worth(t) = t[1] * book[1].price + t[2] * book[2].price
    BY <1>1, <1>2, <1>3, <1>5, SumsAre
  <2> QED
    BY <1>1, <1>5, <2>1 DEF FirstDepth
<1> QED
    BY <1>4, <1>5, BookShape

\* The best taking: of the first level first.
LEMMA BestIsTaken ==
    ASSUME Question, NEW q \in Nat, q <= AllDepth
    PROVE  \E t \in Sizing!Takes(q) : Sizing!Worth(t) = Cost(q)
<1> DEFINE x == IF q <= FirstDepth THEN q ELSE FirstDepth
           t == [i \in DOMAIN book |-> IF i = 1 THEN x ELSE q - x]
<1>1. /\ FirstDepth \in Nat /\ FirstDepth = book[1].quantity
      /\ Sizing!Depth[Len(book)] = AllDepth /\ AllDepth \in Nat /\ FirstDepth <= AllDepth
      /\ Len(book) = 2 => AllDepth = FirstDepth + book[2].quantity
      /\ Len(book) = 1 => AllDepth = FirstDepth
    BY BookShape, DepthIs DEF FirstDepth, AllDepth
<1>0. /\ t[1] = x /\ (Len(book) = 2 => t[2] = q - x) /\ DOMAIN t = DOMAIN book
      /\ t = [i \in DOMAIN book |-> t[i]]
    BY BookShape
<1> HIDE DEF t
<1>2. \A i \in 1..Len(book) : t[i] \in 0..AllDepth /\ t[i] <= book[i].quantity
  <2>1. x \in Nat /\ x <= FirstDepth /\ q - x \in Nat
    BY <1>1
  <2>2. Len(book) = 2 => q - x <= book[2].quantity /\ book[2].quantity <= AllDepth
                         /\ book[2].quantity \in Nat
    BY <1>1, BookShape
  <2>3. Len(book) = 1 => q - x = 0
    BY <1>1
  <2>4. t[1] \in 0..AllDepth /\ t[1] <= book[1].quantity
    BY <1>0, <1>1, <2>1
  <2>5. Len(book) = 2 => t[2] \in 0..AllDepth /\ t[2] <= book[2].quantity
    BY <1>0, <1>1, <2>1, <2>2
  <2>6. \A i \in 1..Len(book) : i = 1 \/ (i = 2 /\ Len(book) = 2)
    BY BookShape
  <2> QED
    BY <2>4, <2>5, <2>6
<1>3. t \in [DOMAIN book -> 0..AllDepth]
    BY <1>0, <1>2, BookShape
<1>4. Sizing!Sums(t)[Len(book)] = q
  <2>1. \A i \in 1..Len(book) : t[i] \in Nat
    BY <1>1, <1>2
  <2>2. CASE Len(book) = 1
    BY <1>0, <1>1, <2>1, <2>2, SumsAre
  <2>3. CASE Len(book) = 2
    BY <1>0, <1>1, <2>1, <2>3, SumsAre
  <2> QED
    BY <2>2, <2>3, BookShape
<1>5. t \in Sizing!Takes(q)
    BY <1>1, <1>2, <1>3, <1>4, BookShape DEF Sizing!Takes
<1> DEFINE g == [i \in DOMAIN book |-> t[i] * book[i].price]
<1>6. /\ g[1] = x * book[1].price /\ (Len(book) = 2 => g[2] = (q - x) * book[2].price)
      /\ \A i \in 1..Len(book) : g[i] \in Nat
    BY <1>0, <1>2, BookShape
<1>7. Sizing!Worth(t) = Sizing!Sums(g)[Len(book)]
    BY DEF Sizing!Worth
<1> HIDE DEF g
<1>8. Sizing!Worth(t) = Cost(q)
  <2>1. CASE q <= FirstDepth
    <3>1. Len(book) = 2 => g[2] = 0
      <4>1. Len(book) = 2 => book[2].price \in Nat
        BY BookShape
      <4> QED
        BY <1>6, <2>1, <4>1
    <3>2. g[1] \in Nat /\ g[1] = q * book[1].price /\ Cost(q) = q * book[1].price
      BY <1>6, <2>1, BookShape DEF Cost
    <3>3. CASE Len(book) = 1
      BY <1>6, <1>7, <3>2, <3>3, SumsAre
    <3>4. CASE Len(book) = 2
      BY <1>6, <1>7, <3>1, <3>2, <3>4, SumsAre
    <3> QED
      BY <3>3, <3>4, BookShape
  <2>2. CASE ~(q <= FirstDepth)
    BY <1>1, <1>6, <1>7, <2>2, BookShape, SumsAre DEF Cost, FirstValue
  <2> QED
    BY <2>1, <2>2
<1> QED
    BY <1>5, <1>8

\* Two straight lines bound what a quantity is worth, however it is taken: all of it at the
\* first price, and the rest of the first level at the second.
LEMMA Lines ==
    ASSUME NEW x \in Nat, NEW y \in Nat, NEW d \in Nat, x <= d, NEW p \in Nat, NEW r \in Nat
    PROVE  /\ p <= r => /\ x * p + y * r >= (x + y) * p
                        /\ x * p + y * r + d * r >= d * p + (x + y) * r
           /\ p >= r => /\ x * p + y * r <= (x + y) * p
                        /\ x * p + y * r + d * r <= d * p + (x + y) * r
<1>1. ASSUME NEW e \in Nat
      PROVE  /\ x * p + y * (p + e) >= (x + y) * p
             /\ x * p + y * (p + e) + d * (p + e) >= d * p + (x + y) * (p + e)
  <2>1. y * (p + e) = y * p + y * e /\ y * e \in Nat /\ y * p \in Nat /\ x * p \in Nat
    OBVIOUS
  <2>2. (x + y) * p = x * p + y * p
    OBVIOUS
  <2>3. x * e <= d * e
    BY Monotone
  <2>4. d * (p + e) = d * p + d * e /\ (x + y) * (p + e) = x * p + x * e + y * p + y * e
    OBVIOUS
  <2>5. d * e \in Nat /\ x * e \in Nat /\ d * p \in Nat
    OBVIOUS
  <2> QED
    BY <2>1, <2>2, <2>3, <2>4, <2>5
<1>2. ASSUME NEW e \in Nat
      PROVE  /\ x * (r + e) + y * r <= (x + y) * (r + e)
             /\ x * (r + e) + y * r + d * r <= d * (r + e) + (x + y) * r
  <2>1. x * (r + e) = x * r + x * e /\ x * r \in Nat /\ y * r \in Nat /\ y * e \in Nat
    OBVIOUS
  <2>2. (x + y) * (r + e) = x * r + y * r + x * e + y * e /\ (x + y) * r = x * r + y * r
    OBVIOUS
  <2>3. x * e <= d * e
    BY Monotone
  <2>4. d * (r + e) = d * r + d * e
    OBVIOUS
  <2>5. d * e \in Nat /\ x * e \in Nat /\ d * r \in Nat
    OBVIOUS
  <2> QED
    BY <2>1, <2>2, <2>3, <2>4, <2>5
<1>3. p <= r => r - p \in Nat /\ r = p + (r - p)
  OBVIOUS
<1>4. p >= r => p - r \in Nat /\ p = r + (p - r)
  OBVIOUS
<1> QED
  BY <1>1, <1>2, <1>3, <1>4

\* Buying, no taking costs less than the lines; selling, none fetches more.
LEMMA TakenWithin ==
    ASSUME Question, NEW m \in Nat, NEW t \in Sizing!Takes(m)
    PROVE  /\ Sizing!Worth(t) \in Nat
           /\ side = "buy" =>
                /\ Sizing!Worth(t) >= m * book[1].price
                /\ Len(book) = 2 =>
                     Sizing!Worth(t) + FirstDepth * book[2].price >= FirstValue + m * book[2].price
           /\ side = "sell" =>
                /\ Sizing!Worth(t) <= m * book[1].price
                /\ Len(book) = 2 =>
                     Sizing!Worth(t) + FirstDepth * book[2].price <= FirstValue + m * book[2].price
<1>1. PICK x \in Nat, y \in Nat :
         /\ x <= FirstDepth
         /\ Len(book) = 1 => y = 0 /\ m = x /\ Sizing!Worth(t) = x * book[1].price
         /\ Len(book) = 2 => m = x + y /\ Sizing!Worth(t) = x * book[1].price + y * book[2].price
    BY TakenIs
<1>2. PICK p \in Nat, d \in Nat : p = book[1].price /\ d = FirstDepth /\ FirstValue = d * p
    BY BookSums DEF FirstValue, FirstDepth
<1>3. x * p \in Nat /\ side \in {"buy", "sell"}
    BY DEF Question, Asking
<1>4. CASE Len(book) = 1
    BY <1>1, <1>2, <1>3, <1>4
<1>5. CASE Len(book) = 2
  <2>1. PICK r \in Nat : r = book[2].price /\ IF side = "buy" THEN p <= r ELSE p >= r
    BY <1>2, <1>5, BookShape
  <2>2. x * p + y * r \in Nat
    OBVIOUS
  <2>3. /\ p <= r => /\ x * p + y * r >= m * p
                     /\ x * p + y * r + d * r >= d * p + m * r
        /\ p >= r => /\ x * p + y * r <= m * p
                     /\ x * p + y * r + d * r <= d * p + m * r
    BY <1>1, <1>2, <1>5, Lines
  <2>4. PICK v \in Nat : v = x * p + y * r /\ Sizing!Worth(t) = v
    BY <1>1, <1>2, <1>5, <2>1, <2>2
  <2> QED
    BY <1>2, <1>3, <1>5, <2>1, <2>3, <2>4
<1> QED
    BY <1>4, <1>5, BookShape

\* So the best taking is the walk down the book, and it is worth no more, or less, than
\* all of it at the best price.
LEMMA CostIsBest ==
    ASSUME Question, NEW q \in Nat, q <= AllDepth
    PROVE  /\ Cost(q) \in Nat
           /\ \E t \in Sizing!Takes(q) : Sizing!Worth(t) = Cost(q)
           /\ side = "buy" => /\ \A t \in Sizing!Takes(q) : Cost(q) <= Sizing!Worth(t)
                              /\ q * book[1].price <= Cost(q)
           /\ side = "sell" => /\ \A t \in Sizing!Takes(q) : Sizing!Worth(t) <= Cost(q)
                               /\ Cost(q) <= q * book[1].price
           /\ Len(book) = 1 => Cost(q) = q * book[1].price
<1>1. PICK b \in Sizing!Takes(q) : Sizing!Worth(b) = Cost(q)
    BY BestIsTaken
<1>2. Cost(q) \in Nat
    BY <1>1, TakenWithin
<1>3. \/ Cost(q) = q * book[1].price
      \/ Len(book) = 2 /\ Cost(q) + FirstDepth * book[2].price = FirstValue + q * book[2].price
  <2>1. CASE q <= FirstDepth
    BY <2>1 DEF Cost
  <2>2. CASE ~(q <= FirstDepth)
    <3>1. Len(book) = 2 /\ book[2].price \in Nat
      BY <2>2, BookShape, BookSums DEF AllDepth
    <3>2. PICK d \in Nat, r \in Nat, v \in Nat :
             d = FirstDepth /\ r = book[2].price /\ v = FirstValue
      BY <3>1, BookSums
    <3>3. Cost(q) = v + (q - d) * r
      BY <2>2, <3>2 DEF Cost
    <3>4. v + (q - d) * r + d * r = v + q * r
      OBVIOUS
    <3> QED
      BY <3>1, <3>2, <3>3, <3>4
  <2> QED
    BY <2>1, <2>2
<1>4. Len(book) = 1 => Cost(q) = q * book[1].price
    BY <1>3
<1>5. ASSUME NEW t \in Sizing!Takes(q)
      PROVE  /\ side = "buy" => Cost(q) <= Sizing!Worth(t)
             /\ side = "sell" => Sizing!Worth(t) <= Cost(q)
  <2>1. CASE Cost(q) = q * book[1].price
    BY <2>1, TakenWithin
  <2>2. CASE Len(book) = 2 /\ Cost(q) + FirstDepth * book[2].price = FirstValue + q * book[2].price
    <3>1. PICK z \in Nat : z = FirstDepth * book[2].price
      BY <2>2, BookSums, BookShape
    <3>2. PICK v \in Nat : v = Sizing!Worth(t)
      BY TakenWithin
    <3>3. /\ side = "buy" => v + z >= Cost(q) + z
          /\ side = "sell" => v + z <= Cost(q) + z
      BY <2>2, <3>1, <3>2, TakenWithin
    <3> QED
      BY <1>2, <3>2, <3>3
  <2> QED
    BY <1>3, <2>1, <2>2
<1>6. /\ side = "buy" => q * book[1].price <= Cost(q)
      /\ side = "sell" => Cost(q) <= q * book[1].price
    BY <1>1, TakenWithin
<1> QED
    BY <1>1, <1>2, <1>4, <1>5, <1>6

\* The lots a budget buys are there, and one more lot costs more than the budget.
LEMMA BoughtIsMost ==
    ASSUME Question, side = "buy", NEW n \in Nat, n <= AllValue, NEW q, q = Bought(n)
    PROVE  /\ q \in Nat /\ q <= AllDepth
           /\ \A t \in Sizing!Takes(q + pair.step) : Sizing!Worth(t) > n
<1>0. PICK s \in Nat \ {0}, p \in Nat \ {0}, d \in Nat, v \in Nat :
         s = pair.step /\ p = book[1].price /\ d = FirstDepth /\ v = FirstValue /\ v = d * p
    BY BookSums, QuestionTypes DEF Question, FirstValue, FirstDepth
<1>1. ASSUME NEW u \in Nat \ {0}, NEW b \in Nat, q = (b \div (u * s)) * s
      PROVE  q \in Nat /\ q * u <= b /\ (q + s) * u > b
  <2>1. q \in Nat /\ q * u <= b /\ \A m \in Nat : m % s = 0 /\ m > q => m * u > b
    BY <1>1, LargestMultiple
  <2>2. PICK k \in Nat : k = b \div (u * s) /\ q = k * s
    <3>1. u * s \in Nat \ {0}
      OBVIOUS
    <3> QED
      BY <1>1, <3>1, Quotient
  <2>3. (k + 1) * s = q + s /\ ((k + 1) * s) % s = 0
    <3>1. \A j \in Nat : (j * s) % s = 0
      OBVIOUS
    <3> QED
      BY <2>2, <3>1
  <2> QED
    BY <2>1, <2>3
<1>2. CASE n <= v
  <2>1. q = (n \div (p * s)) * s
    BY <1>0, <1>2 DEF Bought
  <2>2. q \in Nat /\ q * p <= n /\ (q + s) * p > n
    BY <1>1, <2>1
  <2>3. q <= d
    <3>1. q * p <= d * p
      BY <1>0, <1>2, <2>2
    <3> QED
      BY <2>2, <3>1, Cancel
  <2>4. q <= AllDepth
    BY <1>0, <2>2, <2>3, BookSums
  <2>5. ASSUME NEW t \in Sizing!Takes(q + s) PROVE Sizing!Worth(t) > n
    <3>1. Sizing!Worth(t) \in Nat /\ Sizing!Worth(t) >= (q + s) * p
      BY <1>0, <2>2, TakenWithin, q + s \in Nat
    <3> QED
      BY <2>2, <3>1
  <2> QED
    BY <1>0, <2>2, <2>4, <2>5
<1>3. CASE ~(n <= v)
  <2>1. Len(book) = 2
    BY <1>0, <1>3, BookShape DEF AllValue
  <2>2. PICK r \in Nat \ {0}, e \in Nat :
           /\ r = book[2].price /\ e = book[2].quantity
           /\ AllValue = v + e * r /\ AllDepth = d + e
    BY <1>0, <2>1, BookShape DEF AllValue, AllDepth
  <2>3. PICK b \in Nat : b = d * r + n - v
    <3>1. d * r \in Nat
      OBVIOUS
    <3> QED
      BY <1>3, <3>1
  <2>4. q = (b \div (r * s)) * s
    BY <1>0, <1>3, <2>2, <2>3 DEF Bought
  <2>5. q \in Nat /\ q * r <= b /\ (q + s) * r > b
    BY <1>1, <2>4
  <2>6. q <= d + e
    <3>1. q * r <= (d + e) * r
      BY <2>2, <2>3, <2>5
    <3> QED
      BY <2>5, <3>1, Cancel
  <2>7. ASSUME NEW t \in Sizing!Takes(q + s) PROVE Sizing!Worth(t) > n
    <3>1. Sizing!Worth(t) \in Nat /\ Sizing!Worth(t) + d * r >= v + (q + s) * r
      BY <1>0, <2>1, <2>2, <2>5, TakenWithin, q + s \in Nat
    <3>2. PICK w \in Nat, z \in Nat, y \in Nat :
             w = Sizing!Worth(t) /\ z = d * r /\ y = (q + s) * r
      BY <2>5, <3>1
    <3> QED
      BY <2>3, <2>5, <3>1, <3>2
  <2> QED
    BY <1>0, <2>2, <2>5, <2>6, <2>7
<1> QED
    BY <1>2, <1>3

-----------------------------------------------------------------------------
(* One leg of the simulation, in closed form. *)

Projection ==
    IF side = "buy"
    THEN LET n == Sizing!Whole(Sizing!Budget(Sizing!Top))
             q == Bought(n)
         IN  IF n > AllValue THEN Sizing!Refuse("DEPTH")
             ELSE Sizing!Filtered(q, Cost(q), pair.min, pair.max, pair.minNotional,
                                  pair.maxNotional, Sizing!Charged(Cost(q), q))
    ELSE LET q == Sizing!Lots(Sizing!Budget(Sizing!Top), Sizing!Top, pair.step)
         IN  IF q > AllDepth THEN Sizing!Refuse("DEPTH")
             ELSE Sizing!Filtered(q, Cost(q), pair.min, pair.max, pair.minNotional,
                                  pair.maxNotional, Sizing!Charged(q, Cost(q)))

\* The budget in the whole, and in lots.
LEMMA WholeIs ==
    ASSUME Question
    PROVE  /\ Sizing!Whole(Sizing!Budget(Sizing!Top)) \in Nat
           /\ Sizing!Lots(Sizing!Budget(Sizing!Top), Sizing!Top, pair.step) \in Nat
<1>1. Sizing!Top \in Nat \ {0} /\ pair.step \in Nat \ {0}
    BY QuestionTypes DEF Question
<1>2. Sizing!Budget(Sizing!Top)[1] \in Nat /\ Sizing!Budget(Sizing!Top)[2] \in Nat \ {0}
    BY <1>1, BudgetIsFraction DEF Question
<1> QED
    BY <1>1, <1>2, Quotient, LotsLargest DEF Question, Sizing!Whole

\* The simulation computes it.
LEMMA SimulatedIs == Question => Sizing!Simulated = Projection
<1> SUFFICES ASSUME Question PROVE Sizing!Simulated = Projection
    OBVIOUS
<1>1. CASE side = "buy"
  <2>1. PICK n \in Nat : n = Sizing!Whole(Sizing!Budget(Sizing!Top))
    BY WholeIs
  <2>2. Sizing!Value[Len(book)] = AllValue
    BY BookSums
  <2>3. CASE n > AllValue
    BY <1>1, <2>1, <2>2, <2>3 DEF Sizing!Simulated, Sizing!SimulatedBuy, Projection
  <2>4. CASE ~(n > AllValue)
    <3>1. n <= AllValue
      BY <2>4, BookSums
    <3>2. Sizing!WalkBack(n) = Bought(n) /\ Sizing!Walk(Bought(n)) = Cost(Bought(n))
      BY <1>1, <3>1, WalkBackIsBought, BoughtIsMost, WalkIsCost
    <3> QED
      BY <1>1, <2>1, <2>2, <2>4, <3>2 DEF Sizing!Simulated, Sizing!SimulatedBuy, Projection
  <2> QED
    BY <2>3, <2>4
<1>2. CASE side # "buy"
  <2>1. PICK q \in Nat : q = Sizing!Lots(Sizing!Budget(Sizing!Top), Sizing!Top, pair.step)
    BY WholeIs
  <2>2. Sizing!Depth[Len(book)] = AllDepth
    BY BookSums
  <2>3. CASE q > AllDepth
    BY <1>2, <2>1, <2>2, <2>3 DEF Sizing!Simulated, Sizing!SimulatedSell, Projection
  <2>4. CASE ~(q > AllDepth)
    <3>1. Sizing!Walk(q) = Cost(q)
      BY <2>4, BookSums, WalkIsCost
    <3> QED
      BY <1>2, <2>1, <2>2, <2>4, <3>1 DEF Sizing!Simulated, Sizing!SimulatedSell, Projection
  <2> QED
    BY <2>3, <2>4
<1> QED
    BY <1>1, <1>2

\* A commission is at least its rate of the output.
LEMMA CommissionIs ==
    ASSUME Asking, NEW g \in Nat
    PROVE  /\ Sizing!Commission(g) \in Nat
           /\ fee.asset # "source" => g * fee.percent <= Sizing!Commission(g) * 100
           /\ fee.asset = "source" /\ side = "buy" =>
                g * (fee.percent * fee.rate) <= Sizing!Commission(g) * 100
           /\ fee.asset = "source" /\ side = "sell" =>
                g * fee.percent <= Sizing!Commission(g) * (100 * fee.rate)
<1>0. PICK f \in Nat, r \in Nat \ {0} : f = fee.percent /\ r = fee.rate /\ side \in {"buy", "sell"}
    BY QuestionTypes DEF Asking
<1>1. CASE fee.asset # "source"
  <2>1. PICK m \in Nat : m = g * f
    OBVIOUS
  <2>2. Sizing!Commission(g) = Sizing!Ceiling(m, 100)
    BY <1>0, <1>1, <2>1 DEF Sizing!Commission
  <2>3. Sizing!Ceiling(m, 100) \in Nat /\ m <= Sizing!Ceiling(m, 100) * 100
    BY CeilingBounds, 100 \in Nat \ {0}
  <2> QED
    BY <1>0, <1>1, <2>1, <2>2, <2>3
<1>2. CASE fee.asset = "source" /\ side = "buy"
  <2>1. /\ g * (f * r) \in Nat /\ g * (f * r) = (g * f) * r
        /\ Sizing!Commission(g) = Sizing!Ceiling((g * f) * r, 100)
    BY <1>0, <1>2 DEF Sizing!Commission
  <2> QED
    BY <1>0, <1>2, <2>1, CeilingBounds
<1>3. CASE fee.asset = "source" /\ side # "buy"
  <2>1. /\ g * f \in Nat /\ 100 * r \in Nat \ {0}
        /\ Sizing!Commission(g) = Sizing!Ceiling(g * f, 100 * r)
    BY <1>0, <1>3 DEF Sizing!Commission
  <2> QED
    BY ZenonT(30), <1>0, <1>3, <2>1, CeilingBounds
<1> QED
    BY <1>1, <1>2, <1>3

\* What an accepted leg is.
LEMMA AcceptedIs ==
    ASSUME Question, Projection.ok
    PROVE  \E q \in Nat, c \in Nat, use \in Nat, out \in Nat :
             /\ q = Projection.quantity /\ q <= AllDepth
             /\ IF side = "buy" THEN use = Cost(q) /\ out = q ELSE use = q /\ out = Cost(q)
             /\ c = Sizing!Commission(out)
             /\ Projection.used = IF fee.asset = "source" THEN use + c ELSE use
             /\ Projection.gross = IF fee.asset = "target" THEN out - c ELSE out
             /\ Projection.used <= amount
             /\ pair.min <= q /\ pair.minNotional <= Cost(q)
             /\ ~Sizing!Above(q, pair.max) /\ ~Sizing!Above(Cost(q), pair.maxNotional)
             /\ side = "buy" => /\ Sizing!Whole(Sizing!Budget(Sizing!Top)) <= AllValue
                                /\ q = Bought(Sizing!Whole(Sizing!Budget(Sizing!Top)))
             /\ side = "sell" =>
                  q = Sizing!Lots(Sizing!Budget(Sizing!Top), Sizing!Top, pair.step)
<1>0. /\ side \in {"buy", "sell"} /\ amount \in Nat /\ pair.min \in Nat /\ pair.minNotional \in Nat
      /\ AllValue \in Nat /\ AllDepth \in Nat
    BY QuestionTypes, BookSums DEF Question, Asking
<1>1. \A code : ~Sizing!Refuse(code).ok
    BY DEF Sizing!Refuse, Sizing!Result
<1>2. ASSUME NEW use, NEW out, Sizing!Charged(use, out).ok
      PROVE  LET r == Sizing!Charged(use, out)
                 c == Sizing!Commission(out)
             IN  /\ r.quantity = IF side = "buy" THEN out ELSE use
                 /\ r.used = IF fee.asset = "source" THEN use + c ELSE use
                 /\ r.gross = IF fee.asset = "target" THEN out - c ELSE out
                 /\ r.used <= amount
    BY <1>1, <1>2 DEF Sizing!Charged, Sizing!Result
<1>3. ASSUME NEW q \in Nat, NEW n \in Nat, NEW r,
             LET f == Sizing!Filtered(q, n, pair.min, pair.max, pair.minNotional,
                                      pair.maxNotional, r) IN f.ok /\ Projection = f
      PROVE  /\ Projection = r /\ pair.min <= q /\ pair.minNotional <= n
             /\ ~Sizing!Above(q, pair.max) /\ ~Sizing!Above(n, pair.maxNotional)
  <2>1. /\ ~(q < pair.min) /\ ~(n < pair.minNotional) /\ Projection = r
        /\ ~Sizing!Above(q, pair.max) /\ ~Sizing!Above(n, pair.maxNotional)
    BY <1>1, <1>3 DEF Sizing!Filtered
  <2> QED
    BY <1>0, <2>1
<1>4. CASE side = "buy"
  <2>1. PICK n \in Nat : n = Sizing!Whole(Sizing!Budget(Sizing!Top))
    BY WholeIs
  <2>2. n <= AllValue
    BY <1>0, <1>1, <1>4, <2>1 DEF Projection
  <2>3. PICK q \in Nat : q = Bought(n) /\ q <= AllDepth
    BY <1>4, <2>2, BoughtIsMost
  <2>4. Cost(q) \in Nat /\ Sizing!Commission(q) \in Nat
    BY <2>3, CostIsBest, CommissionIs DEF Question
  <2>5. Projection = Sizing!Filtered(q, Cost(q), pair.min, pair.max, pair.minNotional,
                                     pair.maxNotional, Sizing!Charged(Cost(q), q))
    BY <1>0, <1>4, <2>1, <2>2, <2>3 DEF Projection
  <2>6. /\ Projection = Sizing!Charged(Cost(q), q)
        /\ pair.min <= q /\ pair.minNotional <= Cost(q)
        /\ ~Sizing!Above(q, pair.max) /\ ~Sizing!Above(Cost(q), pair.maxNotional)
    BY <1>3, <2>4, <2>5
  <2>7. /\ Projection.quantity = q
        /\ Projection.used = IF fee.asset = "source" THEN Cost(q) + Sizing!Commission(q)
                             ELSE Cost(q)
        /\ Projection.gross = IF fee.asset = "target" THEN q - Sizing!Commission(q) ELSE q
        /\ Projection.used <= amount
    BY <1>2, <1>4, <2>6
  <2> QED
    BY <1>4, <2>1, <2>2, <2>3, <2>4, <2>6, <2>7
<1>5. CASE side = "sell"
  <2>1. PICK q \in Nat : q = Sizing!Lots(Sizing!Budget(Sizing!Top), Sizing!Top, pair.step)
    BY WholeIs
  <2>2. q <= AllDepth
    BY <1>0, <1>1, <1>5, <2>1 DEF Projection
  <2>4. Cost(q) \in Nat /\ Sizing!Commission(Cost(q)) \in Nat
    BY <2>2, CostIsBest, CommissionIs DEF Question
  <2>5. Projection = Sizing!Filtered(q, Cost(q), pair.min, pair.max, pair.minNotional,
                                     pair.maxNotional, Sizing!Charged(q, Cost(q)))
    BY <1>0, <1>5, <2>1, <2>2 DEF Projection
  <2>6. /\ Projection = Sizing!Charged(q, Cost(q))
        /\ pair.min <= q /\ pair.minNotional <= Cost(q)
        /\ ~Sizing!Above(q, pair.max) /\ ~Sizing!Above(Cost(q), pair.maxNotional)
    BY <1>3, <2>4, <2>5
  <2>7. /\ Projection.quantity = q
        /\ Projection.used = IF fee.asset = "source" THEN q + Sizing!Commission(Cost(q)) ELSE q
        /\ Projection.gross = IF fee.asset = "target" THEN Cost(q) - Sizing!Commission(Cost(q))
                              ELSE Cost(q)
        /\ Projection.used <= amount
    BY <1>2, <1>5, <2>6
  <2> QED
    BY <1>5, <2>1, <2>2, <2>4, <2>6, <2>7
<1> QED
    BY <1>0, <1>4, <1>5

\* The simulation is exact.
LEMMA ProjectionExact ==
    ASSUME Question, op = "simulate", result.ok, result = Projection
    PROVE  Sizing!SimulationExact
<1>1. PICK q \in Nat, c \in Nat, use \in Nat, out \in Nat :
        /\ q = result.quantity /\ q <= AllDepth
        /\ IF side = "buy" THEN use = Cost(q) /\ out = q ELSE use = q /\ out = Cost(q)
        /\ c = Sizing!Commission(out)
        /\ result.used = IF fee.asset = "source" THEN use + c ELSE use
        /\ result.gross = IF fee.asset = "target" THEN out - c ELSE out
        /\ side = "buy" => /\ Sizing!Whole(Sizing!Budget(Sizing!Top)) <= AllValue
                           /\ q = Bought(Sizing!Whole(Sizing!Budget(Sizing!Top)))
    BY ZenonT(30), AcceptedIs
<1>2. Sizing!Walk(q) = Cost(q) /\ Cost(q) \in Nat
    BY <1>1, WalkIsCost, CostIsBest
<1>3. CASE side = "buy"
  <2>1. result.used - Sizing!Reserved(q) = Cost(q)
    BY <1>1, <1>2, <1>3 DEF Sizing!Reserved
  <2>2. \E t \in Sizing!Takes(q) : Sizing!Worth(t) = Cost(q)
    BY <1>1, CostIsBest
  <2>3. \A t \in Sizing!Takes(q) : Cost(q) <= Sizing!Worth(t)
    BY <1>1, <1>3, CostIsBest
  <2>4. \A t \in Sizing!Takes(q + pair.step) :
           Sizing!Worth(t) > Sizing!Whole(Sizing!Budget(Sizing!Top))
    BY <1>1, <1>3, WholeIs, BoughtIsMost
  <2> QED
    BY <1>1, <1>3, <2>1, <2>2, <2>3, <2>4 DEF Sizing!SimulationExact
<1>4. CASE side # "buy"
  <2>1. side = "sell"
    BY <1>4 DEF Question, Asking
  <2>2. \A t \in Sizing!Takes(q) : Sizing!Worth(t) <= Cost(q)
    BY <1>1, <2>1, CostIsBest
  <2>3. result.gross <= Cost(q)
    BY <1>1, <1>2, <1>4
  <2> QED
    BY <1>1, <1>2, <1>4, <2>2, <2>3 DEF Sizing!SimulationExact
<1> QED
    BY <1>3, <1>4

\* What x / y per unit makes of a sum, less a commission in the output, or in the source.
LEMMA TargetYield ==
    ASSUME NEW out \in Nat, NEW c \in Nat, NEW f \in 0..100, NEW a \in Nat, NEW x \in Nat,
           NEW y \in Nat, out * y <= a * x, out * f <= c * 100
    PROVE  (out - c) * (y * 100) <= a * (x * (100 - f))
<1>1. (out - c) * 100 <= out * (100 - f)
    OBVIOUS
<1>2. ((out - c) * 100) * y <= (out * (100 - f)) * y
  <2>1. (out - c) * 100 \in Int /\ out * (100 - f) \in Int
    OBVIOUS
  <2> QED
    BY <1>1, <2>1, Monotone
<1>3. (out * y) * (100 - f) <= (a * x) * (100 - f)
  <2>1. out * y \in Int /\ a * x \in Int /\ 100 - f \in Nat
    OBVIOUS
  <2> QED
    BY <2>1, Monotone
<1>4. /\ ((out - c) * 100) * y = (out - c) * (y * 100)
      /\ (out * (100 - f)) * y = (out * y) * (100 - f)
      /\ (a * x) * (100 - f) = a * (x * (100 - f))
    OBVIOUS
<1> QED
    BY <1>2, <1>3, <1>4

\* The same with a commission in the source.
LEMMA SourceYield ==
    ASSUME NEW out \in Nat, NEW c \in Nat, NEW use \in Nat, NEW a \in Nat, NEW x \in Nat,
           NEW y \in Nat, NEW v \in Nat, NEW w \in Nat,
           out * y <= use * x, use + c <= a, out * (y * w) <= c * (x * v)
    PROVE  out * (y * (v + w)) <= a * (x * v)
<1>1. (out * y) * v <= (use * x) * v
  <2>1. out * y \in Int /\ use * x \in Int
    OBVIOUS
  <2> QED
    BY <2>1, Monotone
<1>2. (use + c) * (x * v) <= a * (x * v)
  <2>1. x * v \in Nat
    OBVIOUS
  <2> QED
    BY <2>1, Monotone
<1>3. out * (y * (v + w)) = (out * y) * v + out * (y * w)
    OBVIOUS
<1>4. (use + c) * (x * v) = (use * x) * v + c * (x * v)
    OBVIOUS
<1>5. /\ (out * y) * v \in Nat /\ out * (y * w) \in Nat /\ (use * x) * v \in Nat
      /\ c * (x * v) \in Nat /\ a * (x * v) \in Nat
    OBVIOUS
<1> QED
    BY <1>1, <1>2, <1>3, <1>4, <1>5

\* To divide twice is to divide by the product.
LEMMA Divided ==
    ASSUME NEW n \in Nat, NEW d \in Nat \ {0}, NEW u \in Nat \ {0}
    PROVE  (n \div d) \div u = n \div (d * u)
<1>1. PICK k \in Nat : k = n \div d /\ k * d <= n /\ n < (k + 1) * d
    BY Quotient
<1>2. PICK j \in Nat : j = k \div u /\ j * u <= k /\ k < (j + 1) * u
    BY Quotient
<1>3. PICK e \in Nat \ {0} : e = d * u
    OBVIOUS
<1>4. PICK i \in Nat : i = n \div e /\ i * e <= n /\ n < (i + 1) * e
    BY Quotient
<1>5. j * e <= n
  <2>1. (j * u) * d <= k * d
    BY <1>2, Cancel, j * u \in Int
  <2>2. (j * u) * d = j * e
    BY <1>3
  <2> QED
    BY <1>1, <2>1, <2>2
<1>6. n < (j + 1) * e
  <2>1. k + 1 <= (j + 1) * u
    BY <1>2
  <2>2. (k + 1) * d <= ((j + 1) * u) * d
    BY <2>1, Cancel, (j + 1) * u \in Int
  <2>3. ((j + 1) * u) * d = (j + 1) * e
    BY <1>3
  <2> QED
    BY <1>1, <2>2, <2>3
<1>7. j * e < (i + 1) * e /\ i * e < (j + 1) * e
    BY <1>4, <1>5, <1>6
<1>8. j < i + 1 /\ i < j + 1
    BY <1>7, Cancel
<1>9. i = j
    BY <1>8
<1> QED
    BY <1>1, <1>2, <1>3, <1>4, <1>9

\* What is accepted yields no more than the route minimum reckons with, and starts from no
\* less than it admits.
LEMMA ProjectionAdmitted ==
    ASSUME Question, op = "simulate", result.ok, result = Projection
    PROVE  Sizing!MinimumNecessary
<1>1. PICK q \in Nat, c \in Nat, use \in Nat, out \in Nat :
        /\ q <= AllDepth
        /\ IF side = "buy" THEN use = Cost(q) /\ out = q ELSE use = q /\ out = Cost(q)
        /\ c = Sizing!Commission(out)
        /\ result.used = IF fee.asset = "source" THEN use + c ELSE use
        /\ result.gross = IF fee.asset = "target" THEN out - c ELSE out
        /\ result.used <= amount
        /\ pair.min <= q /\ pair.minNotional <= Cost(q)
    BY ZenonT(30), AcceptedIs
<1>2. PICK p \in Nat \ {0}, a \in Nat, f \in Nat, r \in Nat \ {0} :
         /\ p = Sizing!Top /\ p = book[1].price /\ a = amount
         /\ f = fee.percent /\ f <= 100 /\ r = fee.rate
         /\ side \in {"buy", "sell"} /\ fee.asset \in {"source", "target", "other"}
    BY QuestionTypes DEF Question, Asking, Sizing!Top
<1>3. PICK w \in Nat : w = Cost(q) /\ (side = "buy" => q * p <= w) /\ (side = "sell" => w <= q * p)
                       /\ (Len(book) = 1 => w = q * p)
    BY <1>1, <1>2, CostIsBest
\* Per unit of the source, num / den of the target.
<1>4. PICK x \in Nat, y \in Nat : /\ IF side = "buy" THEN x = 1 /\ y = p ELSE x = p /\ y = 1
                                  /\ out * y <= use * x
  <2>1. side = "buy" => out * p <= use * 1
    BY <1>1, <1>3
  <2>2. side = "sell" => out * 1 <= use * p
    BY <1>1, <1>3
  <2> QED
    BY <1>2, <2>1, <2>2
<1>5. use <= a /\ (fee.asset = "source" => use + c <= a)
    BY <1>1, <1>2
<1>6. out * y <= a * x
  <2>1. use * x <= a * x
    BY <1>5, Monotone
  <2>2. out * y \in Int /\ use * x \in Int /\ a * x \in Int
    OBVIOUS
  <2> QED
    BY <1>4, <2>1, <2>2
<1>7. fee.asset # "source" => out * f <= c * 100
    BY <1>1, <1>2, CommissionIs DEF Question
<1>8. PICK v \in Nat, z \in Nat :
         /\ Sizing!FeeWeight(p) = <<v, z>>
         /\ fee.asset = "source" => out * (y * (v + z)) <= a * (x * v)
  <2>1. CASE side = "buy"
    <3>1. PICK v \in Nat, z \in Nat : v = 100 * p /\ z = f * r
      OBVIOUS
    <3>2. ASSUME fee.asset = "source" PROVE out * (y * z) <= c * (x * v)
      <4>1. out * z <= c * 100
        BY <1>1, <1>2, <2>1, <3>1, <3>2, CommissionIs DEF Question
      <4>2. (out * z) * p <= (c * 100) * p
        BY <4>1, Monotone, out * z \in Int, c * 100 \in Int
      <4>3. (out * z) * p = out * (p * z) /\ (c * 100) * p = c * (1 * (100 * p))
        OBVIOUS
      <4> QED
        BY <1>4, <2>1, <3>1, <4>2, <4>3
    <3>3. fee.asset = "source" => out * (y * (v + z)) <= a * (x * v)
      BY <1>4, <1>5, <3>2, SourceYield
    <3> QED
      BY <1>2, <2>1, <3>1, <3>3 DEF Sizing!FeeWeight
  <2>2. CASE side = "sell"
    <3>1. PICK v \in Nat, z \in Nat : v = 100 * r /\ z = f * p
      OBVIOUS
    <3>2. ASSUME fee.asset = "source" PROVE out * (y * z) <= c * (x * v)
      <4>1. out * f <= c * v
        BY <1>1, <1>2, <2>2, <3>1, <3>2, CommissionIs DEF Question
      <4>2. (out * f) * p <= (c * v) * p
        BY <4>1, Monotone, out * f \in Int, c * v \in Int
      <4>3. (out * f) * p = out * (1 * (f * p)) /\ (c * v) * p = c * (p * v)
        OBVIOUS
      <4> QED
        BY <1>4, <2>2, <3>1, <4>2, <4>3
    <3>3. fee.asset = "source" => out * (y * (v + z)) <= a * (x * v)
      BY <1>4, <1>5, <3>2, SourceYield
    <3> QED
      BY <1>2, <2>2, <3>1, <3>3 DEF Sizing!FeeWeight
  <2> QED
    BY <1>2, <2>1, <2>2
<1>9. result.gross * Sizing!LegRate[2] <= amount * Sizing!LegRate[1]
  <2>1. CASE fee.asset = "source"
    <3>1. Sizing!LegRate = <<x * v, y * (v + z)>>
      BY <1>2, <1>4, <1>8, <2>1 DEF Sizing!LegRate
    <3> QED
      BY <1>1, <1>2, <1>8, <2>1, <3>1
  <2>2. CASE fee.asset = "target"
    <3>1. Sizing!LegRate = <<x * (100 - f), 100 * y>>
      BY <1>2, <1>4, <2>2 DEF Sizing!LegRate
    <3>2. f \in 0..100 /\ 100 * y = y * 100
      BY <1>2
    <3>3. (out - c) * (y * 100) <= a * (x * (100 - f))
      BY <1>6, <1>7, <2>2, <3>2, TargetYield
    <3> QED
      BY <1>1, <1>2, <2>2, <3>1, <3>2, <3>3
  <2>3. CASE fee.asset = "other"
    <3>1. Sizing!LegRate = <<x, y>>
      BY <1>2, <1>4, <2>3 DEF Sizing!LegRate
    <3> QED
      BY <1>1, <1>2, <1>6, <2>3, <3>1
  <2> QED
    BY <1>2, <2>1, <2>2, <2>3
\* The least that the filters admit, valued at the best price.
<1>10. PICK n \in Nat : /\ n = IF pair.minNotional > pair.min * p THEN pair.minNotional
                               ELSE pair.min * p
                        /\ n <= use * x /\ (Len(book) = 1 => n <= out * y)
  <2>1. PICK k \in Nat, j \in Nat : k = pair.min /\ j = pair.minNotional
    BY QuestionTypes DEF Question
  <2>2. PICK h \in Nat, i \in Nat : h = q * p /\ i = k * p /\ i <= h
    BY <1>1, <2>1, Monotone
  <2>3. j <= w
    BY <1>1, <1>3, <2>1
  <2>4. CASE side = "buy"
    <3>1. use * x = w /\ out * y = h
      BY <1>1, <1>3, <1>4, <2>2, <2>4
    <3> QED
      BY <1>3, <2>1, <2>2, <2>3, <2>4, <3>1
  <2>5. CASE side = "sell"
    <3>1. use * x = h /\ out * y = w
      BY <1>1, <1>3, <1>4, <2>2, <2>5
    <3> QED
      BY <1>3, <2>1, <2>2, <2>3, <2>5, <3>1
  <2> QED
    BY <1>2, <2>4, <2>5
<1>11. Len(book) = 1 \/ fee.asset # "source" =>
          amount * Sizing!LegMinimum[2] >= Sizing!LegMinimum[1]
  <2>1. CASE fee.asset # "source"
    <3>1. Sizing!LegMinimum = <<n, x>>
      BY <1>2, <1>4, <1>10, <2>1 DEF Sizing!LegMinimum
    <3>2. use * x <= a * x /\ use * x \in Nat /\ a * x \in Nat
      BY <1>5, Monotone
    <3> QED
      BY <1>2, <1>10, <3>1, <3>2
  <2>2. CASE fee.asset = "source" /\ Len(book) = 1
    <3>1. Sizing!LegMinimum = <<n * (v + z), x * v>>
      BY <1>2, <1>4, <1>8, <1>10, <2>2 DEF Sizing!LegMinimum
    <3>2. n * (v + z) <= (out * y) * (v + z)
      BY <1>10, <2>2, Monotone, out * y \in Int
    <3>3. (out * y) * (v + z) = out * (y * (v + z))
      OBVIOUS
    <3>4. out * (y * (v + z)) <= a * (x * v)
      BY <1>8, <2>2
    <3>5. n * (v + z) \in Nat /\ out * (y * (v + z)) \in Nat /\ a * (x * v) \in Nat
      OBVIOUS
    <3>6. n * (v + z) <= a * (x * v)
      BY <3>2, <3>3, <3>4, <3>5
    <3> QED
      BY <1>2, <3>1, <3>6
  <2> QED
    BY <2>1, <2>2
<1> QED
    BY <1>9, <1>11 DEF Sizing!MinimumNecessary

\* A leg accepted at a deep enough level is placed in that quantity.
LEMMA ProjectionPlaceable ==
    ASSUME Question, op = "simulate", result.ok, result = Projection
    PROVE  Sizing!SimulatedIsPlaceable
<1> SUFFICES ASSUME Len(book) = 1, Sizing!Top % pair.tick = 0
             PROVE  Sizing!Limit.code \in {"OK", "PRICE"}
                    /\ (Sizing!Limit.ok => Sizing!Limit.quantity = result.quantity)
    BY DEF Sizing!SimulatedIsPlaceable
<1>1. PICK q \in Nat :
        /\ q = result.quantity /\ q <= AllDepth
        /\ pair.min <= q /\ pair.minNotional <= Cost(q)
        /\ ~Sizing!Above(q, pair.max) /\ ~Sizing!Above(Cost(q), pair.maxNotional)
        /\ side = "buy" => /\ Sizing!Whole(Sizing!Budget(Sizing!Top)) <= AllValue
                           /\ q = Bought(Sizing!Whole(Sizing!Budget(Sizing!Top)))
        /\ side = "sell" =>
             q = Sizing!Lots(Sizing!Budget(Sizing!Top), Sizing!Top, pair.step)
    BY AcceptedIs
<1>2. PICK p \in Nat \ {0}, d \in Nat \ {0}, s \in Nat \ {0} :
         /\ p = Sizing!Top /\ p = book[1].price /\ d = pair.tick /\ s = pair.step
         /\ side \in {"buy", "sell"} /\ pair.min \in Nat /\ pair.minNotional \in Nat
    BY QuestionTypes DEF Question, Asking, Sizing!Top
<1>3. Cost(q) = q * p /\ q * p \in Nat
    BY <1>1, <1>2, CostIsBest
<1>4. Sizing!Rounded(p) = p
  <2>1. PICK m \in Nat : m = Sizing!Rounded(p) /\ m % d = 0
                         /\ IF side = "buy" THEN m \in p..(p + d - 1) ELSE m \in (p - d + 1)..p
    BY <1>2, RoundedCrosses DEF Question
  <2>2. p % d = 0
    BY <1>2
  <2>3. PICK k \in Nat, j \in Nat : p = k * d /\ m = j * d
    <3>1. PICK k \in Nat : k = p \div d /\ p = k * d
      BY <2>2
    <3>2. PICK j \in Nat : j = m \div d /\ m = j * d
      BY <2>1
    <3> QED
      BY <3>1, <3>2
  <2>4. j * d < (k + 1) * d /\ k * d < (j + 1) * d
    <3>1. (k + 1) * d = k * d + d /\ (j + 1) * d = j * d + d /\ k * d \in Nat /\ j * d \in Nat
      OBVIOUS
    <3> QED
      BY <1>2, <2>1, <2>3, <3>1
  <2>5. j < k + 1 /\ k < j + 1
    BY <2>4, Cancel
  <2> QED
    BY <2>1, <2>3, <2>5
<1>5. Sizing!Lots(Sizing!Budget(p), p, s) = q
  <2>1. CASE side = "sell"
    BY <1>1, <1>2, <2>1
  <2>2. CASE side = "buy"
    <3>1. PICK b \in Nat, e \in Nat \ {0} : b = Sizing!Budget(p)[1] /\ e = Sizing!Budget(p)[2]
      BY <1>2, BudgetIsFraction DEF Question
    <3>2. q = ((b \div e) \div (p * s)) * s
      BY <1>1, <1>2, <2>2, <3>1 DEF Bought, AllValue, Sizing!Whole
    <3>3. (b \div e) \div (p * s) = b \div (e * (p * s))
      BY Divided, p * s \in Nat \ {0}
    <3>4. e * (p * s) = (e * p) * s
      OBVIOUS
    <3> QED
      BY <2>2, <3>1, <3>2, <3>3, <3>4 DEF Sizing!Lots
  <2> QED
    BY <1>2, <2>1, <2>2
<1>6. ~(q < pair.min) /\ ~(q * p < pair.minNotional) /\ ~Sizing!Above(q * p, pair.maxNotional)
    BY <1>1, <1>2, <1>3
<1>7. \/ Sizing!Limit = Sizing!Refuse("PRICE")
      \/ Sizing!Limit = Sizing!Result(TRUE, "OK", q, p, Sizing!Spent(q, p), Sizing!Got(q, p))
    BY <1>1, <1>2, <1>4, <1>5, <1>6 DEF Sizing!Limit, Sizing!Filtered
<1> QED
    BY <1>1, <1>7 DEF Sizing!Refuse, Sizing!Result

\* An accepted leg is what the projection was, and its question did not change since.
SimulationInv == Question /\ (op = "simulate" => result = Projection)

\* The projection of an unchanged question does not change.
LEMMA ProjectionAgain ==
    ASSUME UNCHANGED <<side, amount, pair, fee, book>>
    PROVE  Projection' = Projection
<1>1. /\ FirstDepth' = FirstDepth /\ FirstValue' = FirstValue /\ AllDepth' = AllDepth
      /\ AllValue' = AllValue
    BY DEF FirstDepth, FirstValue, AllDepth, AllValue
<1>2. ASSUME NEW p PROVE Bought(p)' = Bought(p)
    BY DEF Bought, FirstValue, FirstDepth
<1>3. ASSUME NEW p PROVE Cost(p)' = Cost(p)
    BY DEF Cost, FirstValue, FirstDepth
<1>4. ASSUME NEW p, NEW q PROVE Sizing!Charged(p, q)' = Sizing!Charged(p, q)
    BY DEF Sizing!Charged, Sizing!Commission, Sizing!Ceiling, Sizing!Result, Sizing!Refuse
<1>5. UNCHANGED <<side, pair.min, pair.max, pair.minNotional, pair.maxNotional>>
    OBVIOUS
<1>6. PICK n : /\ n = Sizing!Whole(Sizing!Budget(Sizing!Top))
               /\ n = Sizing!Whole(Sizing!Budget(Sizing!Top))'
    BY DEF Sizing!Whole, Sizing!Budget, Sizing!FeeWeight, Sizing!Top
<1>7. PICK l : /\ l = Sizing!Lots(Sizing!Budget(Sizing!Top), Sizing!Top, pair.step)
               /\ l = Sizing!Lots(Sizing!Budget(Sizing!Top), Sizing!Top, pair.step)'
    BY DEF Sizing!Lots, Sizing!Budget, Sizing!FeeWeight, Sizing!Top
<1>8. CASE side = "buy"
  <2>1. PICK q : q = Bought(n)
    OBVIOUS
  <2> QED
    BY <1>1, <1>2, <1>3, <1>4, <1>5, <1>6, <1>8, <2>1
       DEF Projection, Sizing!Filtered, Sizing!Above, Sizing!Refuse, Sizing!Result
<1>9. CASE side # "buy"
    BY <1>1, <1>3, <1>4, <1>5, <1>7, <1>9
       DEF Projection, Sizing!Filtered, Sizing!Above, Sizing!Refuse, Sizing!Result
<1> QED
    BY <1>8, <1>9

\* Every step keeps to it.
LEMMA SimulationStep == SimulationInv /\ [Sizing!Next]_sizes => SimulationInv'
<1> SUFFICES ASSUME SimulationInv, [Sizing!Next]_sizes PROVE SimulationInv'
    OBVIOUS
<1>1. UNCHANGED <<side, amount, pair, fee, book>>
    BY DEF sizes, Sizing!Next, Sizing!PrepareLimit, Sizing!PrepareMarket, Sizing!Simulate,
           Sizing!Compute
<1>2. Question'
    BY <1>1 DEF SimulationInv, Question, Asking, Sizing!Levels, Sizing!Sorted
<1>3. Projection' = Projection
    BY <1>1, ProjectionAgain
<1>4. op' = "simulate" => result' = Projection
    BY SimulatedIs DEF SimulationInv, sizes, Sizing!Next, Sizing!PrepareLimit,
       Sizing!PrepareMarket, Sizing!Simulate, Sizing!Compute
<1> QED
    BY <1>2, <1>3, <1>4 DEF SimulationInv

\* What the simulation projects for a leg is what the best execution gives, buys the most its
\* budget pays for, and can be placed; and the route minimum cuts off no size that would
\* do (scanner.py, simulate_detailed and route_minimum_start).
THEOREM SimulationIsSound == MCSpec => []SimulationSound
<1>1. MCInit => SimulationInv
  <2> SUFFICES ASSUME MCInit PROVE SimulationInv
    OBVIOUS
  <2>1. Sizing!Init
    BY DEF MCInit
  <2>2. book[1] \in Sizing!Levels /\ op = "none"
    BY <2>1 DEF Sizing!Init
  <2> QED
    BY <2>1, <2>2 DEF SimulationInv, Question, Asking, Sizing!Init
<1>2. SimulationInv /\ [MCNext]_all => SimulationInv'
    BY SimulationStep DEF MCNext, all, sizes
<1>3. SimulationInv => SimulationSound
  <2> SUFFICES ASSUME SimulationInv PROVE SimulationSound
    OBVIOUS
  <2>1. Sizing!SimulationExact
    BY ProjectionExact DEF SimulationInv, Sizing!SimulationExact
  <2>2. Sizing!MinimumNecessary
    BY ProjectionAdmitted DEF SimulationInv, Sizing!MinimumNecessary
  <2>3. Sizing!SimulatedIsPlaceable
    BY ProjectionPlaceable DEF SimulationInv, Sizing!SimulatedIsPlaceable
  <2> QED
    BY <2>1, <2>2, <2>3 DEF SimulationSound, Sizing!SimulationSound
<1> QED
    BY <1>1, <1>2, <1>3, PTL DEF MCSpec

-----------------------------------------------------------------------------
(* The search for a way. *)

\* Every set of naturals has a least element.
LEMMA LeastNatural ==
    ASSUME NEW T \in SUBSET Nat, NEW k \in T
    PROVE  \E n \in T : \A m \in T : n <= m
<1> DEFINE R == OpToRel(<, Nat)
<1>1. IsWellFoundedOn(R, Nat)
    BY NatLessThanWellFounded
<1>2. \A x, y \in Nat : y < x => <<y, x>> \in R
    BY DEF OpToRel
<1> HIDE DEF R
<1>3. PICK x \in T : \A y \in T : ~(<<y, x>> \in R)
    BY <1>1, WFMin
<1>4. \A y \in T : ~(y < x)
    BY <1>2, <1>3
<1> QED
    BY <1>4

\* A way that may be extended: from the source, simple, and not through BNB.
Trail(p) ==
    /\ p \in Seq(Assets) /\ Len(p) \in 1..MaxHops /\ p[1] = source
    /\ \A i, j \in 1..Len(p) : i # j => p[i] # p[j]
    /\ \A i \in 1..(Len(p) - 1) : Discovery!Edge(p[i], p[i + 1])
    /\ \A i \in 2..Len(p) : p[i] # BNB

Begins(p, r) == Len(p) < Len(r) /\ \A i \in 1..Len(p) : p[i] = r[i]
Led(p)       == Len(p) >= 2 /\ p[2] = USDC

\* A way x before y in the queue: y is as long or longer by one, and where one of them
\* leads through USDC, of two as long the first does, else the second.
Behind(x, y) ==
    /\ Len(x) > 1 /\ Len(x) <= Len(y) /\ Len(y) <= Len(x) + 1
    /\ Len(y) = Len(x) /\ Led(y) => Led(x)
    /\ Len(y) > Len(x) /\ Led(x) => Led(y)
InOrder(q) == \A i, j \in DOMAIN q : i < j => Behind(q[i], q[j])

\* Every permitted path begins with an entry of the queue.
Complete(q) == \A p \in Discovery!SimplePaths : \E i \in DOMAIN q : Begins(q[i], p)

Shortest(x) ==
    /\ x \in Discovery!SimplePaths
    /\ \A p \in Discovery!SimplePaths :
          /\ Len(x) <= Len(p)
          /\ Len(p) = Len(x) /\ p[2] = USDC => x[2] = USDC

\* A search with queue q that found x, or is still under way.
Searched(q, x) ==
    /\ markets \subseteq SUBSET Assets /\ source \in Assets /\ target \in Assets /\ source # target
    /\ q \in Seq(Seq(Assets)) /\ x \in Seq(Assets)
    /\ \A i \in DOMAIN q : Trail(q[i])
    /\ InOrder(q)
    /\ x = <<>> => Complete(q)
    /\ x # <<>> => Shortest(x)
SearchInv == Searched(queue, path)

\* A permitted path of k markets.
Way(p, k) ==
    /\ p \in Seq(Assets) /\ Len(p) = k + 1 /\ p[1] = source /\ p[k + 1] = target
    /\ \A i, j \in 1..(k + 1) : i # j => p[i] # p[j]
    /\ \A i \in 1..k : Discovery!Edge(p[i], p[i + 1])
    /\ \A i \in 2..k : p[i] # BNB

LEMMA WayIsPermitted ==
    ASSUME NEW k \in 1..MaxHops, NEW p, Way(p, k)
    PROVE  p \in Discovery!SimplePaths
<1> PICK n \in Nat : n = k + 1 /\ n - 1 = k /\ n \in 2..(MaxHops + 1)
    BY RoutesAssumption
<1>1. p \in [1..n -> Assets] /\ Len(p) = n /\ DOMAIN p = 1..n
    BY DEF Way
<1>2. /\ p[1] = source /\ p[n] = target /\ \A i, j \in 1..n : i # j => p[i] # p[j]
      /\ \A i \in 1..(n - 1) : Discovery!Edge(p[i], p[i + 1])
      /\ \A i \in 2..(n - 1) : p[i] # BNB
    BY DEF Way
<1> QED
    BY <1>1, <1>2 DEF Discovery!SimplePaths, Discovery!Ends

LEMMA PermittedIsWay ==
    ASSUME NEW p \in Discovery!SimplePaths
    PROVE  \E k \in 1..MaxHops : Way(p, k)
<1> PICK n \in 2..(MaxHops + 1) : p \in [1..n -> Assets]
    BY DEF Discovery!SimplePaths
<1> PICK k \in 1..MaxHops : n = k + 1 /\ n - 1 = k
    BY RoutesAssumption
<1>1. p \in Seq(Assets) /\ Len(p) = n /\ DOMAIN p = 1..n
    OBVIOUS
<1>2. /\ p[1] = source /\ p[n] = target /\ \A i, j \in 1..n : i # j => p[i] # p[j]
      /\ \A i \in 1..(n - 1) : Discovery!Edge(p[i], p[i + 1])
      /\ \A i \in 2..(n - 1) : p[i] # BNB
    BY <1>1 DEF Discovery!SimplePaths, Discovery!Ends
<1> QED
    BY <1>1, <1>2 DEF Way

\* At the head of the queue with the target next, the way is the shortest.
LEMMA FoundIsShortest ==
    ASSUME SearchInv, path = <<>>, queue # <<>>, target \in Discovery!Choices(Head(queue)),
           NEW x, x = Append(Head(queue), target)
    PROVE  x \in Seq(Assets) /\ x # <<>> /\ Shortest(x)
<1> USE RoutesAssumption
<1> PICK h \in Seq(Assets) : h = Head(queue) /\ h = queue[1] /\ 1 \in DOMAIN queue
    BY DEF SearchInv, Searched
<1>1. Trail(h)
    BY DEF SearchInv, Searched
<1>2. PICK k \in 1..MaxHops : k = Len(h)
    BY <1>1 DEF Trail
<1>3. /\ x \in Seq(Assets) /\ Len(x) = k + 1 /\ x[k + 1] = target
      /\ \A i \in 1..k : x[i] = h[i]
    BY <1>2 DEF SearchInv, Searched
<1>4. /\ Discovery!Edge(h[k], target) /\ \A i \in 1..k : h[i] # target
    BY <1>2 DEF Discovery!Choices, Discovery!Ends
<1>5. x \in Discovery!SimplePaths
  <2>1. x[1] = source
    BY <1>1, <1>3 DEF Trail
  <2>2. \A i, j \in 1..(k + 1) : i # j => x[i] # x[j]
    BY <1>1, <1>2, <1>3, <1>4 DEF Trail
  <2>3. \A i \in 1..k : Discovery!Edge(x[i], x[i + 1])
    BY <1>1, <1>2, <1>3, <1>4 DEF Trail
  <2>4. \A i \in 2..k : x[i] # BNB
    BY <1>1, <1>2, <1>3 DEF Trail
  <2>5. Way(x, k)
    BY ONLY <1>3, <2>1, <2>2, <2>3, <2>4 DEF Way
  <2> QED
    BY ONLY k \in 1..MaxHops, <2>5, WayIsPermitted
<1>6. ASSUME NEW p \in Discovery!SimplePaths
      PROVE  /\ Len(x) <= Len(p)
             /\ Len(p) = Len(x) /\ p[2] = USDC => x[2] = USDC
  <2>1. PICK g \in 1..MaxHops : p \in Seq(Assets) /\ Len(p) = g + 1 /\ p[g + 1] = target
    BY PermittedIsWay DEF Way
  <2>2. PICK i \in DOMAIN queue : Begins(queue[i], p)
    BY DEF SearchInv, Searched, Complete
  <2>3. PICK y \in Seq(Assets) : y = queue[i] /\ Begins(y, p) /\ i \in Nat \ {0}
    BY <2>2 DEF SearchInv, Searched
  <2>4. PICK m \in Nat : m = Len(y) /\ m < g + 1
    BY <2>1, <2>3 DEF Begins
  <2>5. k <= m /\ (m = k /\ Led(y) => Led(h))
    BY <1>2, <2>2, <2>3, <2>4 DEF SearchInv, Searched, InOrder, Behind
  <2>6. Len(x) <= Len(p)
    BY ONLY k \in 1..MaxHops, g \in 1..MaxHops, m \in Nat, RoutesAssumption,
            <1>3, <2>1, <2>4, <2>5
  <2>7. ASSUME Len(p) = Len(x), p[2] = USDC
        PROVE  x[2] = USDC
    <3>1. m = k /\ g = k
        BY ONLY k \in 1..MaxHops, g \in 1..MaxHops, m \in Nat, RoutesAssumption,
                <1>3, <2>1, <2>4, <2>5, <2>7
    <3>2. CASE k = 1
        BY ONLY <1>3, <2>1, <2>7, <3>1, <3>2
    <3>3. CASE k # 1
      <4>1. Len(y) >= 2 /\ 2 \in 1..Len(y)
        BY ONLY y \in Seq(Assets), k \in 1..MaxHops, RoutesAssumption, <2>4, <3>1, <3>3
      <4>2. Led(y)
        BY ONLY <2>3, <2>7, <4>1 DEF Led, Begins
      <4>3. Led(h)
        BY <2>5, <3>1, <4>2
      <4>4. x[2] = h[2]
        BY ONLY k \in 1..MaxHops, RoutesAssumption, <1>3, <3>3
      <4> QED
        BY <4>3, <4>4 DEF Led
    <3> QED
        BY <3>2, <3>3
  <2> QED
    BY <2>6, <2>7
<1> QED
    BY <1>3, <1>5, <1>6 DEF Shortest

\* Ordered choices are all of them, each once, USDC at the front.
LEMMA SortedChoices ==
    ASSUME NEW S \in SUBSET Assets, NEW o \in Discovery!Sorted(S)
    PROVE  \E n \in Nat :
             /\ o \in [1..n -> S] /\ \A a \in S : \E i \in 1..n : o[i] = a
             /\ \A i, j \in 1..n : i < j /\ o[j] = USDC => o[i] = USDC
<1>1. Cardinality(S) \in Nat
    BY RoutesAssumption, FS_Subset, FS_CardinalityType
<1>2. Discovery!Cardinality(S) = Cardinality(S)
    BY DEF Discovery!Cardinality, Cardinality
<1> QED
    BY <1>1, <1>2 DEF Discovery!Sorted, Discovery!Before

\* A sequence taken apart.
LEMMA HeadTail ==
    ASSUME NEW S, NEW w \in Seq(S), w # <<>>
    PROVE  \E l \in Nat : /\ l + 1 = Len(w) /\ Tail(w) \in Seq(S) /\ Len(Tail(w)) = l
                          /\ Head(w) = w[1] /\ w[1] \in S
                          /\ \A i \in 1..l : Tail(w)[i] = w[i + 1]
<1>1. PICK l \in Nat : l + 1 = Len(w)
    OBVIOUS
<1> QED
    BY <1>1

\* The way h with choice a behind it.
On(h, a) == Append(h, a)

LEMMA Longer ==
    ASSUME NEW h \in Seq(Assets), NEW a \in Assets
    PROVE  /\ On(h, a) \in Seq(Assets) /\ Len(On(h, a)) = Len(h) + 1
           /\ On(h, a)[Len(h) + 1] = a /\ \A j \in 1..Len(h) : On(h, a)[j] = h[j]
    BY DEF On

\* The ways that continue h by the first e of the choices o follow what is left, l entries.
Continues(q, h, o, l, e) ==
    /\ DOMAIN q = 1..(l + e) /\ DOMAIN queue = 1..(l + 1)
    /\ \A i \in 1..l : q[i] = queue[i + 1]
    /\ \A i \in 1..e : q[l + i] = On(h, o[i])

LEMMA Continued ==
    ASSUME queue \in Seq(Seq(Assets)), queue # <<>>, NEW n \in Nat, NEW o \in [1..n -> Assets],
           NEW more \in BOOLEAN, NEW N, N = [i \in DOMAIN o |-> Append(Head(queue), o[i])],
           NEW q, q = Tail(queue) \o (IF more THEN N ELSE <<>>)
    PROVE  /\ q \in Seq(Seq(Assets))
           /\ \E l \in Nat : Continues(q, Head(queue), o, l, IF more THEN n ELSE 0)
<1>1. PICK S : S = Seq(Assets)
    OBVIOUS
<1>2. PICK l \in Nat : /\ l + 1 = Len(queue) /\ Tail(queue) \in Seq(S)
                       /\ Len(Tail(queue)) = l /\ Head(queue) \in Seq(Assets)
                       /\ \A i \in 1..l : Tail(queue)[i] = queue[i + 1]
    BY <1>1, HeadTail
<1>3. PICK h, t : h = Head(queue) /\ t = Tail(queue)
    OBVIOUS
<1>4. N = [i \in 1..n |-> On(h, o[i])]
    BY <1>3 DEF On
<1>5. \A i \in 1..n : On(h, o[i]) \in S
    BY <1>1, <1>2, <1>3, Longer
<1>6. N \in Seq(S) /\ Len(N) = n /\ \A i \in 1..n : N[i] = On(h, o[i])
  <2>1. N \in [1..n -> S]
    BY ONLY <1>4, <1>5
  <2> QED
    BY ONLY <1>4, <2>1, n \in Nat
<1>7. DOMAIN queue = 1..(l + 1)
    BY <1>2
<1>8. PICK e \in Nat, M \in Seq(S) : /\ q = t \o M /\ Len(M) = e
                                     /\ e = (IF more THEN n ELSE 0) /\ e \in 0..n
                                     /\ \A i \in 1..e : M[i] = On(h, o[i])
  <2>1. CASE more
    <3>1. q = t \o N /\ n = (IF more THEN n ELSE 0) /\ n \in 0..n
        BY ONLY n \in Nat, <1>3, <2>1, q = Tail(queue) \o (IF more THEN N ELSE <<>>)
    <3> QED
        BY ONLY <1>6, <3>1, n \in Nat
  <2>2. CASE ~more
    <3>1. /\ q = t \o <<>> /\ 0 = (IF more THEN n ELSE 0) /\ 0 \in 0..n
          /\ \A i \in 1..0 : <<>>[i] = On(h, o[i])
        BY <1>3, <2>2
    <3>2. <<>> \in Seq(S) /\ Len(<<>>) = 0
        OBVIOUS
    <3> QED
        BY ONLY <3>1, <3>2
  <2> QED
    BY <2>1, <2>2
<1>9. /\ q \in Seq(S) /\ Len(q) = l + e
      /\ \A i \in 1..l : q[i] = t[i]
      /\ \A i \in 1..e : q[l + i] = M[i]
  <2>1. t \in Seq(S) /\ Len(t) = l /\ q = t \o M /\ Len(M) = e
    BY ONLY <1>2, <1>3, <1>8
  <2>2. q \in Seq(S) /\ Len(q) = l + e
    <3>1. \A w, u \in Seq(S) : w \o u \in Seq(S) /\ Len(w \o u) = Len(w) + Len(u)
        OBVIOUS
    <3> QED
        BY ONLY <2>1, <3>1, M \in Seq(S)
  <2>3. \A i \in 1..l : q[i] = t[i]
    BY ONLY <2>1, M \in Seq(S), l \in Nat, e \in Nat
  <2>4. \A i \in 1..e : q[l + i] = M[i]
    BY ONLY <2>1, M \in Seq(S), l \in Nat, e \in Nat
  <2> QED
    BY ONLY <2>2, <2>3, <2>4
<1>10. DOMAIN q = 1..(l + e)
    BY ONLY <1>9, l \in Nat, e \in Nat
<1>11. Continues(q, h, o, l, e)
    BY ONLY <1>2, <1>3, <1>7, <1>8, <1>9, <1>10 DEF Continues
<1> QED
    BY <1>1, <1>3, <1>8, <1>9, <1>11

\* The choices at the end of a way, and their order.
LEMMA Choice ==
    ASSUME NEW h \in Seq(Assets), NEW k \in Nat \ {0}, k = Len(h)
    PROVE  \A a : a \in Discovery!Choices(h) <=>
              /\ a \in Assets /\ Discovery!Edge(h[k], a) /\ \A i \in 1..k : h[i] # a
              /\ a = BNB => target = BNB
    BY DEF Discovery!Choices, Discovery!Ends

Enumerates(o, n, C) ==
    /\ o \in [1..n -> C] /\ \A a \in C : \E i \in 1..n : o[i] = a
    /\ \A i, j \in 1..n : i < j /\ o[j] = USDC => o[i] = USDC

\* A way that goes on, but not to the target, still is one.
LEMMA GoesOn ==
    ASSUME NEW h, Trail(h), Len(h) < MaxHops, NEW a \in Discovery!Choices(h), a # target
    PROVE  Trail(On(h, a))
<1>1. PICK k \in Nat \ {0} : k = Len(h) /\ k < MaxHops /\ h \in Seq(Assets)
    BY RoutesAssumption DEF Trail
<1>2. a \in Assets /\ Discovery!Edge(h[k], a) /\ (\A i \in 1..k : h[i] # a) /\ a # BNB
    BY <1>1, Choice
<1>3. PICK x \in Seq(Assets) : /\ x = On(h, a) /\ Len(x) = k + 1 /\ x[k + 1] = a
                               /\ \A i \in 1..k : x[i] = h[i]
    BY <1>1, <1>2, Longer
<1>4. /\ h[1] = source /\ \A i, j \in 1..k : i # j => h[i] # h[j]
      /\ \A i \in 1..(k - 1) : Discovery!Edge(h[i], h[i + 1])
      /\ \A i \in 2..k : h[i] # BNB
    BY <1>1 DEF Trail
<1> USE RoutesAssumption
<1>5. x[1] = source /\ k + 1 \in 1..MaxHops
    BY <1>1, <1>3, <1>4
<1>6. \A i, j \in 1..(k + 1) : i # j => x[i] # x[j]
    BY <1>2, <1>3, <1>4
<1>7. \A i \in 1..k : Discovery!Edge(x[i], x[i + 1])
  <2> SUFFICES ASSUME NEW i \in 1..k
               PROVE  Discovery!Edge(x[i], x[i + 1])
    OBVIOUS
  <2>1. CASE i = k
    BY <1>2, <1>3, <2>1
  <2>2. CASE i # k
    <3>1. i \in 1..(k - 1) /\ i + 1 \in 1..k
        BY <2>2
    <3> QED
        BY <1>3, <1>4, <3>1
  <2> QED
    BY <2>1, <2>2
<1>8. \A i \in 2..(k + 1) : x[i] # BNB
    BY <1>2, <1>3, <1>4
<1>9. (k + 1) - 1 = k
    BY <1>1
<1> QED
    BY ONLY <1>3, <1>5, <1>6, <1>7, <1>8, <1>9 DEF Trail

\* A permitted path goes on with one of the choices, unless the target is one of them.
LEMMA PathGoesOn ==
    ASSUME NEW h, Trail(h), target \notin Discovery!Choices(h),
           NEW p \in Discovery!SimplePaths, Begins(h, p)
    PROVE  Len(h) < MaxHops /\ \E a \in Discovery!Choices(h) : Begins(On(h, a), p)
<1> USE RoutesAssumption
<1>1. PICK k \in Nat \ {0} : k = Len(h) /\ h \in Seq(Assets)
    BY DEF Trail
<1>2. PICK g \in 1..MaxHops : Way(p, g)
    BY PermittedIsWay
<1>3. /\ p \in Seq(Assets) /\ Len(p) = g + 1 /\ p[g + 1] = target
      /\ \A i, j \in 1..(g + 1) : i # j => p[i] # p[j]
      /\ \A i \in 1..g : Discovery!Edge(p[i], p[i + 1])
      /\ \A i \in 2..g : p[i] # BNB
    BY <1>2 DEF Way
<1>4. k <= g /\ \A i \in 1..k : h[i] = p[i]
    BY <1>1, <1>3 DEF Begins
<1>5. PICK a \in Assets : a = p[k + 1]
    BY <1>3, <1>4
<1>6. Discovery!Edge(h[k], a) /\ \A i \in 1..k : h[i] # a
    BY <1>3, <1>4, <1>5
<1>7. a = BNB => target = BNB
  <2>1. CASE k = g
    BY <1>3, <1>5, <2>1
  <2>2. CASE k # g
    <3>1. k + 1 \in 2..g
        BY <1>4, <2>2
    <3> QED
        BY <1>3, <1>5, <3>1
  <2> QED
    BY <2>1, <2>2
<1>8. a \in Discovery!Choices(h)
    BY <1>1, <1>6, <1>7, Choice
<1>9. k < g
    BY <1>3, <1>4, <1>5, <1>8
<1>10. Begins(On(h, a), p)
  <2>1. PICK x \in Seq(Assets) : /\ x = On(h, a) /\ Len(x) = k + 1 /\ x[k + 1] = a
                                 /\ \A i \in 1..k : x[i] = h[i]
    BY <1>1, Longer
  <2>2. Len(x) < Len(p) /\ \A i \in 1..(k + 1) : x[i] = p[i]
    BY <1>3, <1>4, <1>5, <1>9, <2>1
  <2> QED
    BY ONLY <2>1, <2>2 DEF Begins
<1> QED
    BY <1>1, <1>8, <1>9, <1>10

\* What the head is continued by comes after what was behind it, and in the same order.
LEMMA BehindOthers ==
    ASSUME NEW h, Trail(h), NEW y, Behind(h, y), Len(y) \in Nat, NEW a \in Assets
    PROVE  Behind(y, On(h, a))
<1>1. PICK k \in Nat \ {0} : k = Len(h) /\ h \in Seq(Assets) /\ k > 1
    BY RoutesAssumption DEF Trail, Behind
<1>2. PICK m \in Nat : m = Len(y)
    OBVIOUS
<1>3. PICK x \in Seq(Assets) : /\ x = On(h, a) /\ Len(x) = k + 1
                               /\ \A i \in 1..k : x[i] = h[i]
    BY <1>1, Longer
<1>4. Led(x) <=> Led(h)
    BY <1>1, <1>3 DEF Led
<1> QED
    BY <1>1, <1>2, <1>3, <1>4 DEF Behind

LEMMA AmongThemselves ==
    ASSUME NEW h, Trail(h), NEW a \in Assets, NEW b \in Assets, b = USDC => a = USDC
    PROVE  Behind(On(h, a), On(h, b))
<1>1. PICK k \in Nat \ {0} : k = Len(h) /\ h \in Seq(Assets)
    BY RoutesAssumption DEF Trail
<1>2. PICK x \in Seq(Assets) : /\ x = On(h, a) /\ Len(x) = k + 1 /\ x[k + 1] = a
                               /\ \A i \in 1..k : x[i] = h[i]
    BY <1>1, Longer
<1>3. PICK y \in Seq(Assets) : /\ y = On(h, b) /\ Len(y) = k + 1 /\ y[k + 1] = b
                               /\ \A i \in 1..k : y[i] = h[i]
    BY SMTT(30), <1>1, Longer
<1>4. Led(y) => Led(x)
  <2>1. CASE k = 1
    BY <1>2, <1>3, <2>1 DEF Led
  <2>2. CASE k > 1
    BY <1>2, <1>3, <2>2 DEF Led
  <2> QED
    BY <1>1, <2>1, <2>2
<1> QED
    BY <1>1, <1>2, <1>3, <1>4 DEF Behind

\* If the target is no choice at the head, those one longer go behind the queue.
LEMMA PassedOn ==
    ASSUME SearchInv, path = <<>>, NEW h, h = queue[1], target \notin Discovery!Choices(h),
           NEW n \in Nat, NEW o, Enumerates(o, n, Discovery!Choices(h)), NEW l \in Nat,
           NEW e \in Nat, e = (IF Len(h) < MaxHops THEN n ELSE 0),
           NEW q, Continues(q, h, o, l, e)
    PROVE  (\A i \in DOMAIN q : Trail(q[i])) /\ InOrder(q) /\ Complete(q)
<1>1. /\ DOMAIN q = 1..(l + e) /\ DOMAIN queue = 1..(l + 1)
      /\ \A i \in 1..l : q[i] = queue[i + 1]
      /\ \A i \in 1..e : q[l + i] = On(h, o[i])
    BY DEF Continues
<1>2. (\A i \in 1..(l + 1) : Trail(queue[i])) /\ Trail(h)
  <2>1. (\A i \in DOMAIN queue : Trail(queue[i])) /\ 1 \in 1..(l + 1)
    BY DEF SearchInv, Searched
  <2> QED
    BY ONLY h = queue[1], <1>1, <2>1
<1>3. \A i, j \in 1..(l + 1) : i < j => Behind(queue[i], queue[j])
  <2>1. \A i, j \in DOMAIN queue : i < j => Behind(queue[i], queue[j])
    BY DEF SearchInv, Searched, InOrder
  <2> QED
    BY ONLY <1>1, <2>1
<1>4. \A p \in Discovery!SimplePaths : \E i \in 1..(l + 1) : Begins(queue[i], p)
    BY <1>1 DEF SearchInv, Searched, Complete
<1>5. ASSUME NEW i \in 1..e
      PROVE  /\ o[i] \in Discovery!Choices(h) /\ o[i] \in Assets /\ o[i] # target
             /\ Len(h) < MaxHops /\ i \in 1..n
  <2>1. i \in 1..n /\ Len(h) < MaxHops
    OBVIOUS
  <2>2. o[i] \in Discovery!Choices(h)
    BY <2>1 DEF Enumerates
  <2> QED
    BY <2>1, <2>2 DEF Discovery!Choices
<1>6. ASSUME NEW i \in 1..(l + e), i > l
      PROVE  \E j \in 1..e : l + j = i
  <2>1. i - l \in 1..e /\ l + (i - l) = i
    BY <1>6
  <2> QED
    BY <2>1
<1>7. ASSUME NEW i \in 1..(l + e)
      PROVE  Trail(q[i])
  <2>1. CASE i <= l
    <3>1. i \in 1..l /\ i + 1 \in 1..(l + 1)
        BY <2>1
    <3> QED
        BY ONLY <1>1, <1>2, <3>1
  <2>2. CASE i > l
    <3>1. PICK j \in 1..e : l + j = i
        BY ONLY <1>6, <2>2, i \in 1..(l + e)
    <3>2. Trail(On(h, o[j]))
        BY <1>2, <1>5, GoesOn
    <3> QED
        BY ONLY <1>1, <3>1, <3>2
  <2> QED
    BY <2>1, <2>2
<1>8. ASSUME NEW i \in 1..(l + e), NEW j \in 1..(l + e), i < j
      PROVE  Behind(q[i], q[j])
  <2>1. CASE j <= l
    <3>1. i \in 1..l /\ j \in 1..l /\ i + 1 \in 1..(l + 1) /\ j + 1 \in 1..(l + 1) /\ i + 1 < j + 1
        BY <1>8, <2>1
    <3> QED
        BY ONLY <1>1, <1>3, <3>1
  <2>2. CASE i <= l /\ j > l
    <3>1. i \in 1..l /\ i + 1 \in 1..(l + 1) /\ 1 \in 1..(l + 1) /\ 1 < i + 1
        BY <2>2
    <3>2. PICK r \in 1..e : l + r = j
        BY ONLY <1>6, <2>2, j \in 1..(l + e)
    <3>3. PICK y : y = queue[i + 1] /\ y = q[i]
        BY ONLY <1>1, <3>1
    <3>4. Behind(h, y) /\ Trail(y)
        BY ONLY h = queue[1], <1>2, <1>3, <3>1, <3>3
    <3>5. Len(y) \in Nat
        BY <3>4 DEF Trail
    <3>6. Behind(y, On(h, o[r]))
        BY ONLY <1>2, <1>5, <3>2, <3>4, <3>5, BehindOthers
    <3> QED
        BY ONLY <1>1, <3>2, <3>3, <3>6
  <2>3. CASE i > l
    <3>1. PICK r \in 1..e : l + r = i
        BY ONLY <1>6, <2>3, i \in 1..(l + e)
    <3>2. PICK s \in 1..e : l + s = j
      <4>1. j > l
        BY <1>8, <2>3
      <4> QED
        BY ONLY <1>6, <4>1, j \in 1..(l + e)
    <3>3. r < s
        BY ONLY l \in Nat, e \in Nat, <1>8, <3>1, <3>2
    <3>4. o[s] = USDC => o[r] = USDC
        BY <1>5, <3>3 DEF Enumerates
    <3>5. Behind(On(h, o[r]), On(h, o[s]))
        BY ONLY <1>2, <1>5, <3>1, <3>2, <3>4, AmongThemselves
    <3> QED
        BY ONLY <1>1, <3>1, <3>2, <3>5
  <2> QED
    BY <2>1, <2>2, <2>3
<1>9. ASSUME NEW p \in Discovery!SimplePaths
      PROVE  \E i \in 1..(l + e) : Begins(q[i], p)
  <2>1. PICK b \in 1..(l + 1) : Begins(queue[b], p)
    BY ONLY <1>4, p \in Discovery!SimplePaths
  <2>2. CASE b # 1
    <3>1. b - 1 \in 1..l /\ b - 1 \in 1..(l + e) /\ (b - 1) + 1 = b
        BY <2>2
    <3>2. q[b - 1] = queue[b]
        BY ONLY <1>1, <3>1
    <3> QED
        BY ONLY <2>1, <3>1, <3>2
  <2>3. CASE b = 1
    <3>1. Len(h) < MaxHops /\ \E a \in Discovery!Choices(h) : Begins(On(h, a), p)
        BY ONLY h = queue[1], target \notin Discovery!Choices(h), p \in Discovery!SimplePaths,
                <1>2, <2>1, <2>3, PathGoesOn
    <3>2. PICK a \in Discovery!Choices(h) : Begins(On(h, a), p)
        BY <3>1
    <3>3. PICK i \in 1..n : o[i] = a
        BY DEF Enumerates
    <3>4. i \in 1..e /\ l + i \in 1..(l + e)
        BY <3>1
    <3> QED
        BY ONLY <1>1, <3>2, <3>3, <3>4
  <2> QED
    BY <2>2, <2>3
<1> QED
    BY ONLY <1>1, <1>7, <1>8, <1>9 DEF Complete, InOrder

\* It begins with the source alone.
LEMMA SearchInit == Discovery!Init => SearchInv
<1> SUFFICES ASSUME Discovery!Init
             PROVE  SearchInv
    OBVIOUS
<1> USE RoutesAssumption
<1>1. PICK x \in Seq(Assets) : x = <<source>> /\ Len(x) = 1 /\ x[1] = source
  <2>1. source \in Assets
    BY DEF Discovery!Init
  <2>2. <<source>> \in Seq(Assets) /\ Len(<<source>>) = 1 /\ <<source>>[1] = source
    BY ONLY <2>1
  <2> QED
    BY ONLY <2>2
<1>2. PICK q \in Seq(Seq(Assets)) : q = <<x>> /\ DOMAIN q = 1..1 /\ q[1] = x /\ q = queue
    BY SMTT(30), <1>1 DEF Discovery!Init
<1>3. Trail(x)
    BY <1>1 DEF Trail
<1>4. \A i \in DOMAIN q : Trail(q[i])
    BY ONLY <1>2, <1>3
<1>5. InOrder(q)
    BY ONLY <1>2 DEF InOrder
<1>6. ASSUME NEW p \in Discovery!SimplePaths
      PROVE  Begins(x, p)
    BY <1>1, PermittedIsWay DEF Way, Begins
<1>7. Complete(q)
    BY ONLY <1>2, <1>6 DEF Complete
<1>8. /\ markets \subseteq SUBSET Assets /\ source \in Assets /\ target \in Assets
      /\ source # target /\ path = <<>>
    BY DEF Discovery!Init, Discovery!Pairs, Discovery!None
<1>9. path \in Seq(Assets)
    BY <1>8
<1> QED
    BY ONLY <1>2, <1>4, <1>5, <1>7, <1>8, <1>9 DEF SearchInv, Searched

\* What was searched stays so while markets and ends are the same.
LEMMA SearchedStill ==
    ASSUME UNCHANGED <<markets, source, target>>, NEW q, NEW x, Searched(q, x)
    PROVE  Searched(q, x)'
<1>1. Discovery!SimplePaths' = Discovery!SimplePaths
    BY DEF Discovery!SimplePaths, Discovery!Edge, Discovery!Ends
<1>2. ASSUME NEW p, Trail(p)
      PROVE  Trail(p)'
    BY <1>2 DEF Trail, Discovery!Edge
<1>3. \A i \in DOMAIN q : Trail(q[i])'
    BY <1>2 DEF Searched
<1>4. Complete(q) => Complete(q)'
    BY <1>1 DEF Complete
<1>5. Shortest(x) => Shortest(x)'
    BY <1>1 DEF Shortest
<1> QED
    BY <1>3, <1>4, <1>5 DEF Searched

LEMMA SearchStep == SearchInv /\ [Discovery!Next]_search => SearchInv'
<1> SUFFICES ASSUME SearchInv, [Discovery!Next]_search
             PROVE  SearchInv'
    OBVIOUS
<1>1. UNCHANGED <<markets, source, target>>
    BY DEF search, Discovery!Next, Discovery!Visit, Discovery!ReferenceTriangle,
           Discovery!ReferencePath, Discovery!Reference
<1>2. ASSUME NEW q, NEW x, queue' = q, path' = x, Searched(q, x)
      PROVE  SearchInv'
  <2>1. Searched(q, x)'
    BY <1>1, <1>2, SearchedStill
  <2> QED
    BY <1>2, <2>1 DEF SearchInv, Searched
<1>3. CASE UNCHANGED <<queue, path>>
    BY <1>2, <1>3 DEF SearchInv
<1>4. CASE Discovery!Visit
  <2>1. /\ queue # <<>> /\ path = <<>> /\ queue \in Seq(Seq(Assets))
    BY <1>4 DEF Discovery!Visit, Discovery!Searching, Discovery!None, SearchInv, Searched
  <2>2. PICK h \in Seq(Assets) : h = Head(queue) /\ h = queue[1]
    BY <2>1
  <2>3. CASE target \in Discovery!Choices(h)
    <3>1. PICK x : x = Append(h, target) /\ path' = x /\ queue' = <<>>
        BY <1>4, <2>2, <2>3 DEF Discovery!Visit
    <3>2. x \in Seq(Assets) /\ x # <<>> /\ Shortest(x)
        BY <2>1, <2>2, <2>3, <3>1, FoundIsShortest
    <3>3. Searched(<<>>, x)
        BY <3>2 DEF Searched, SearchInv, InOrder
    <3> QED
        BY <1>2, <3>1, <3>3
  <2>4. CASE target \notin Discovery!Choices(h)
    <3>1. PICK o \in Discovery!Sorted(Discovery!Choices(h)) :
             /\ path' = <<>>
             /\ queue' = Tail(queue) \o (IF Len(h) < MaxHops
                                        THEN [i \in DOMAIN o |-> Append(h, o[i])] ELSE <<>>)
        BY <1>4, <2>2, <2>4 DEF Discovery!Visit, Discovery!Extendable, Discovery!None
    <3>2. Discovery!Choices(h) \subseteq Assets
        BY DEF Discovery!Choices
    <3>3. PICK n \in Nat : Enumerates(o, n, Discovery!Choices(h))
        BY <3>2, SortedChoices DEF Enumerates
    <3>4. o \in [1..n -> Assets]
        BY <3>2, <3>3 DEF Enumerates
    <3>5. PICK q : q = queue' /\ q \in Seq(Seq(Assets))
                   /\ \E l \in Nat : Continues(q, h, o, l, IF Len(h) < MaxHops THEN n ELSE 0)
      <4>1. PICK more \in BOOLEAN : more <=> Len(h) < MaxHops
        OBVIOUS
      <4>2. PICK N : N = [i \in DOMAIN o |-> Append(h, o[i])]
        OBVIOUS
      <4>3. PICK q : q = queue' /\ q = Tail(queue) \o (IF more THEN N ELSE <<>>)
        BY <3>1, <4>1, <4>2
      <4>4. /\ q \in Seq(Seq(Assets))
            /\ \E l \in Nat : Continues(q, h, o, l, IF more THEN n ELSE 0)
        BY ONLY <2>1, <2>2, <3>4, <4>2, <4>3, more \in BOOLEAN, n \in Nat, Continued
      <4> QED
        BY <4>1, <4>3, <4>4
    <3>6. PICK l \in Nat, e \in Nat :
             e = (IF Len(h) < MaxHops THEN n ELSE 0) /\ Continues(q, h, o, l, e)
        BY <3>5
    <3>7. (\A i \in DOMAIN q : Trail(q[i])) /\ InOrder(q) /\ Complete(q)
        BY ONLY SearchInv, <2>1, <2>2, <2>4, <3>3, <3>6, n \in Nat, l \in Nat, e \in Nat, PassedOn
    <3>8. Searched(q, <<>>)
        BY ONLY SearchInv, <2>1, <3>5, <3>7 DEF SearchInv, Searched
    <3> QED
        BY <1>2, <3>1, <3>5, <3>8
  <2> QED
    BY <2>3, <2>4
<1> QED
    BY <1>3, <1>4 DEF search, Discovery!Next, Discovery!ReferenceTriangle,
       Discovery!ReferencePath, Discovery!Reference

-----------------------------------------------------------------------------
(* The books to value a route with. *)

\* What is closed under the markets of a way, and holds one of its assets, holds them all.
LEMMA ChainIsHeld ==
    ASSUME NEW n \in Nat, NEW r, NEW B, NEW T,
           \A i \in 1..(n - 1) : {r[i], r[i + 1]} \in B,
           \A m \in B : m \cap T # {} => m \subseteq T,
           NEW i \in 1..n, r[i] \in T
    PROVE  \A j \in 1..n : r[j] \in T
<1>1. ASSUME NEW j \in 1..(n - 1)
      PROVE  r[j] \in T <=> r[j + 1] \in T
  <2>1. {r[j], r[j + 1]} \in B
    OBVIOUS
  <2>2. {r[j], r[j + 1]} \cap T # {} => {r[j], r[j + 1]} \subseteq T
    BY ONLY <2>1, \A m \in B : m \cap T # {} => m \subseteq T
  <2> QED
    BY ONLY <2>2
<1>2. ASSUME NEW j \in 1..n, j > i, r[j] \notin T
      PROVE  FALSE
  <2> DEFINE Bad == {k \in Nat : k \in (i + 1)..n /\ r[k] \notin T}
  <2>1. j \in Bad /\ Bad \in SUBSET Nat
    BY <1>2
  <2>2. PICK k \in Bad : \A m \in Bad : k <= m
    BY ONLY <2>1, LeastNatural
  <2>3. k \in (i + 1)..n /\ r[k] \notin T /\ k - 1 \in 1..(n - 1) /\ k - 1 \notin Bad
    BY <2>2
  <2>4. r[k - 1] \in T /\ (k - 1) + 1 = k
    BY <2>3
  <2> QED
    BY <1>1, <2>3, <2>4
<1>3. ASSUME NEW j \in 1..n, j < i, r[j] \notin T
      PROVE  FALSE
  <2> DEFINE Bad == {k \in Nat : k \in 1..(i - 1) /\ r[i - k] \notin T}
  <2>1. i - j \in Bad /\ Bad \in SUBSET Nat
    BY <1>3
  <2>2. PICK k \in Bad : \A m \in Bad : k <= m
    BY ONLY <2>1, LeastNatural
  <2>3. k \in 1..(i - 1) /\ r[i - k] \notin T /\ k - 1 \notin Bad /\ i - k \in 1..(n - 1)
    BY <2>2
  <2>4. r[i - (k - 1)] \in T /\ i - (k - 1) = (i - k) + 1
    BY <2>3
  <2> QED
    BY <1>1, <2>3, <2>4
<1> QED
    BY <1>2, <1>3

\* The books of a way, and of a bridge if BNB is not on it, lead from all of it to BNB and back.
LEMMA WayIsValued ==
    ASSUME markets \subseteq SUBSET Assets,
           NEW n \in Nat, n >= 2, NEW r \in Seq(Assets), Len(r) = n, r[1] = source,
           Discovery!Reference(r)
    PROVE  Discovery!BridgeSuffices'
<1>1. PICK U : U = used' /\ U = {{r[i], r[i + 1]} : i \in 1..(n - 1)}
    BY DEF Discovery!Reference, Discovery!MarketsOf
<1>2. (\A i \in 1..n : r[i] \in Assets) /\ 1 \in 1..n
    OBVIOUS
<1>3. UNION U = {r[i] : i \in 1..n}
  <2>1. ASSUME NEW a \in UNION U
        PROVE  \E i \in 1..n : a = r[i]
    <3>1. PICK i \in 1..(n - 1) : a \in {r[i], r[i + 1]}
        BY <1>1
    <3> QED
        BY <3>1
  <2>2. ASSUME NEW i \in 1..n
        PROVE  r[i] \in UNION U
    <3>1. CASE i < n
      <4>1. {r[i], r[i + 1]} \in U
        BY <1>1, <3>1
      <4> QED
        BY <4>1
    <3>2. CASE i = n
      <4>1. {r[i - 1], r[(i - 1) + 1]} \in U
        BY <1>1, <3>2
      <4> QED
        BY <3>2, <4>1
    <3> QED
        BY <3>1, <3>2
  <2> QED
    BY <2>1, <2>2
<1>4. PICK B : B = books'
    OBVIOUS
<1>5. source' = source
    BY DEF Discovery!Reference
<1> SUFFICES ASSUME B # {}
             PROVE  /\ \A a \in UNION U : BNB \in Discovery!Reached(a)'
                    /\ source \in Discovery!Reached(BNB)'
    BY <1>1, <1>4, <1>5 DEF Discovery!BridgeSuffices
<1>6. PICK k \in 1..n, m \in SUBSET Assets : /\ U \subseteq B /\ BNB \in m /\ r[k] \in m
                                             /\ m \in B \/ m = {r[k]}
  <2>1. CASE BNB \in UNION U
    <3>1. B = U
        BY <1>1, <1>4, <2>1 DEF Discovery!Reference
    <3>2. PICK k \in 1..n : BNB = r[k]
        BY <1>3, <2>1
    <3>3. {r[k]} \in SUBSET Assets
        BY <1>2
    <3> QED
        BY ONLY <3>1, <3>2, <3>3, k \in 1..n
  <2>2. CASE BNB \notin UNION U
    <3>1. PICK m \in Discovery!Bridges(UNION U) : B = U \cup {m}
        BY <1>1, <1>4, <2>2 DEF Discovery!Reference
    <3>2. m \in markets /\ BNB \in m /\ m \cap UNION U # {}
        BY DEF Discovery!Bridges
    <3>3. PICK k \in 1..n : r[k] \in m
        BY <1>3, <3>2
    <3> QED
        BY <3>1, <3>2, <3>3
  <2> QED
    BY <2>1, <2>2
<1>7. ASSUME NEW T \in SUBSET Assets, Discovery!Closed(T)', NEW a \in T,
             a = BNB \/ a \in UNION U
      PROVE  BNB \in T /\ source \in T
  <2>1. \A x \in B : x \cap T # {} => x \subseteq T
    BY <1>4, <1>7 DEF Discovery!Closed
  <2>2. ASSUME NEW i \in 1..n, r[i] \in T
        PROVE  \A j \in 1..n : r[j] \in T
    <3>1. \A j \in 1..(n - 1) : {r[j], r[j + 1]} \in B
        BY <1>1, <1>6
    <3> QED
        BY ONLY <2>1, <2>2, <3>1, n \in Nat, i \in 1..n, ChainIsHeld
  <2>3. CASE a = BNB
    <3>1. r[k] \in T
        BY <1>6, <2>1, <2>3
    <3> QED
        BY <1>2, <2>2, <2>3, <3>1
  <2>4. CASE a \in UNION U
    <3>1. PICK i \in 1..n : r[i] \in T
        BY <1>3, <2>4
    <3>2. \A j \in 1..n : r[j] \in T
        BY <2>2, <3>1
    <3>3. BNB \in T
        BY <1>6, <2>1, <3>2
    <3> QED
        BY <1>2, <3>2, <3>3
  <2> QED
    BY <1>7, <2>3, <2>4
<1>8. BNB \in Assets /\ source \in Assets
    BY <1>2, <1>6
<1> QED
    BY <1>7, <1>8 DEF Discovery!Reached

LEMMA ValuedStep ==
    SearchInv /\ Discovery!BridgeSuffices /\ [Discovery!Next]_search => Discovery!BridgeSuffices'
<1> SUFFICES ASSUME SearchInv, Discovery!BridgeSuffices, [Discovery!Next]_search
             PROVE  Discovery!BridgeSuffices'
    OBVIOUS
<1>0. markets \subseteq SUBSET Assets /\ source \in Assets
    BY DEF SearchInv, Searched
<1>1. CASE UNCHANGED <<used, books, source>>
    BY <1>1 DEF Discovery!BridgeSuffices, Discovery!Reached, Discovery!Closed
<1>2. CASE Discovery!ReferenceTriangle
  <2>1. PICK a \in Assets, b \in Assets : Discovery!Reference(<<source, a, b, source>>)
    BY <1>2 DEF Discovery!ReferenceTriangle, Discovery!Triangles
  <2> PICK r : r = <<source, a, b, source>> /\ Discovery!Reference(r)
    BY <2>1
  <2>2. r \in Seq(Assets) /\ Len(r) = 4 /\ r[1] = source
    BY <1>0
  <2>3. Discovery!Reference(r) /\ 4 \in Nat /\ 4 >= 2
    OBVIOUS
  <2> QED
    BY ONLY <1>0, <2>2, <2>3, WayIsValued
<1>3. CASE Discovery!ReferencePath
  <2>1. PICK r : r = path /\ r # <<>> /\ Discovery!Reference(r)
    BY <1>3 DEF Discovery!ReferencePath, Discovery!None
  <2>2. r \in Discovery!SimplePaths
    BY <2>1 DEF SearchInv, Searched, Shortest
  <2>3. PICK k \in 1..MaxHops : Way(r, k)
    BY <2>2, PermittedIsWay
  <2>4. r \in Seq(Assets) /\ Len(r) = k + 1 /\ r[1] = source /\ k + 1 \in Nat /\ k + 1 >= 2
    BY <2>3, RoutesAssumption DEF Way
  <2> QED
    BY <1>0, <2>1, <2>4, WayIsValued
<1> QED
    BY <1>1, <1>2, <1>3 DEF search, Discovery!Next, Discovery!Visit

\* Routes are found exactly where there are some, the shortest first, and the books fetched
\* for one value its commissions (RoutesUsable).
THEOREM RoutesAreUsable == MCSpec => []RoutesUsable
<1> DEFINE Inv == SearchInv /\ Discovery!BridgeSuffices
<1>1. MCInit => Inv
    BY SearchInit DEF MCInit, Discovery!Init, Discovery!BridgeSuffices
<1>2. Inv /\ [MCNext]_all => Inv'
  <2> SUFFICES ASSUME Inv, [MCNext]_all
               PROVE  Inv'
    OBVIOUS
  <2>1. [Discovery!Next]_search
    BY DEF MCNext, all, search
  <2> QED
    BY <2>1, SearchStep, ValuedStep
<1>3. Inv => RoutesUsable
  <2> SUFFICES ASSUME Inv
               PROVE  RoutesUsable
    OBVIOUS
  <2>1. path # <<>> => Shortest(path)
    BY DEF SearchInv, Searched
  <2>2. Discovery!PathIsShortest
    BY <2>1 DEF Discovery!PathIsShortest, Discovery!None, Shortest
  <2>3. Discovery!NoneMeansNone
    <3>1. path = <<>> => Complete(queue)
        BY DEF SearchInv, Searched
    <3> QED
        BY <3>1 DEF Discovery!NoneMeansNone, Discovery!None, Complete
  <2> QED
    BY <2>2, <2>3 DEF RoutesUsable, Discovery!RoutesUsable
<1> QED
    BY <1>1, <1>2, <1>3, PTL DEF MCSpec

-----------------------------------------------------------------------------
(* The shortlist. *)

\* Every step leads from the sets of one number into that of the next.
Keeps(step, D, n) == \A i \in 1..n : \A x \in D[i - 1] : step[i][x] \in D[i]

\* f begins with b and goes on by step, within the sets D.
Unfolds(f, b, step, D, n) ==
    /\ f = [i \in 0..n |-> f[i]]
    /\ f[0] = b /\ \A i \in 1..n : f[i] = step[i][f[i - 1]]
    /\ \A i \in 0..n : f[i] \in D[i]

\* A function may be defined by recursion on the numbers up to n, and what each step keeps
\* of an invariant, here of the sets D[i], holds of its values.
LEMMA RecursionExists ==
    ASSUME NEW n \in Nat, NEW D, NEW b \in D[0], NEW step, Keeps(step, D, n)
    PROVE  \E f : Unfolds(f, b, step, D, n)
<1>0. \A i \in 1..n : \A x \in D[i - 1] : step[i][x] \in D[i]
    BY DEF Keeps
<1> DEFINE Good(f, k) ==
               /\ f = [i \in 0..k |-> f[i]]
               /\ f[0] = b /\ \A i \in 1..k : f[i] = step[i][f[i - 1]]
               /\ \A i \in 0..k : f[i] \in D[i]
           Bad == {k \in 0..n : ~\E f : Good(f, k)}
<1>1. SUFFICES ASSUME n \in Bad PROVE FALSE
    BY DEF Unfolds
<1>2. PICK k \in Bad : \A m \in Bad : k <= m
  <2>1. n \in Bad /\ Bad \in SUBSET Nat
    BY <1>1
  <2> QED
    BY ONLY <2>1, LeastNatural
<1>3. k # 0
  <2> DEFINE f == [i \in 0..0 |-> b]
  <2>1. f = [i \in 0..0 |-> f[i]] /\ f[0] = b /\ \A i \in 1..0 : f[i] = step[i][f[i - 1]]
    OBVIOUS
  <2>2. \A i \in 0..0 : f[i] \in D[i]
    OBVIOUS
  <2> QED
    BY <2>1, <2>2
<1>4. k \in 1..n /\ k - 1 \in 0..n /\ k - 1 \notin Bad
  <2>1. k \in 0..n
    BY <1>2
  <2>2. ~(k <= k - 1)
    BY <2>1
  <2> HIDE DEF Bad
  <2> QED
    BY <1>2, <1>3, <2>1, <2>2
<1>5. PICK g : Good(g, k - 1)
    BY <1>4
<1> DEFINE last == step[k][g[k - 1]]
           f    == [i \in 0..k |-> IF i < k THEN g[i] ELSE last]
<1>6. last \in D[k]
  <2>1. k - 1 \in 0..(k - 1)
    BY <1>4
  <2>2. g[k - 1] \in D[k - 1]
    BY <1>5, <2>1
  <2> QED
    BY <1>0, <1>4, <2>2
<1> HIDE DEF last
<1>7. \A i \in 0..k : f[i] = IF i < k THEN g[i] ELSE last
    OBVIOUS
<1> HIDE DEF f
<1>8. f[0] = b /\ \A i \in 1..k : f[i] = step[i][f[i - 1]]
  <2>1. f[0] = g[0] /\ g[0] = b
    <3>1. 0 \in 0..k /\ 0 < k
        BY <1>4
    <3> QED
        BY <1>5, <1>7, <3>1
  <2> SUFFICES ASSUME NEW i \in 1..k
               PROVE  f[i] = step[i][f[i - 1]]
    BY <2>1
  <2>2. f[i - 1] = g[i - 1]
    BY <1>4, <1>7
  <2>3. CASE i = k
    BY <1>4, <1>7, <2>2, <2>3 DEF last
  <2>4. CASE i # k
    <3>1. i \in 1..(k - 1) /\ f[i] = g[i]
        BY <1>4, <1>7, <2>4
    <3> QED
        BY <1>5, <2>2, <3>1
  <2> QED
    BY <2>3, <2>4
<1>9. f = [i \in 0..k |-> f[i]]
    BY DEF f
<1>10. \A i \in 0..k : f[i] \in D[i]
  <2>1. \A i \in 0..(k - 1) : g[i] \in D[i]
    BY <1>5
  <2> QED
    BY <1>4, <1>6, <1>7, <2>1
<1> QED
    BY <1>2, <1>8, <1>9, <1>10

Signalled == signals \in [Starts -> Seq(Ranking!Signals)]

\* x lists, best first, those of the first i signals of s that can be funded.
Listing(x, s, i) ==
    /\ x \in Seq({s} \X (1..Len(signals[s])))
    /\ \A j, k \in 1..Len(x) : j < k => x[j][2] < x[k][2]
    /\ \A m \in 1..Len(x) : x[m][2] <= i /\ Ranking!Funded(x[m])
    /\ \A j \in 1..i : Ranking!Funded(<<s, j>>) => \E m \in 1..Len(x) : x[m] = <<s, j>>

\* The references to the signals of a start, best first.
LEMMA RanksAre ==
    ASSUME Signalled, NEW s \in Starts
    PROVE  /\ Len(signals[s]) \in Nat /\ Len(Ranking!Ranks(s)) = Len(signals[s])
           /\ \A i \in 1..Len(signals[s]) : Ranking!Ranks(s)[i] = <<s, i>>
<1>1. signals[s] \in Seq(Ranking!Signals)
    BY DEF Signalled
<1>2. Len(signals[s]) \in Nat /\ DOMAIN signals[s] = 1..Len(signals[s])
    BY <1>1
<1>3. Ranking!Ranks(s) = [i \in 1..Len(signals[s]) |-> <<s, i>>]
    BY <1>2 DEF Ranking!Ranks
<1> QED
    BY <1>2, <1>3

\* A funded signal that comes next is appended, any other left out.
LEMMA ListingGoesOn ==
    ASSUME Signalled, NEW s \in Starts, NEW i \in 1..Len(signals[s]), NEW x, Listing(x, s, i - 1)
    PROVE  /\ Ranking!Funded(<<s, i>>) => Listing(Append(x, <<s, i>>), s, i)
           /\ ~Ranking!Funded(<<s, i>>) => Listing(x, s, i)
<1> DEFINE n == Len(signals[s])
           S == {s} \X (1..n)
           g == <<s, i>>
           y == Append(x, g)
<1>1. n \in Nat /\ g \in S /\ g[2] = i /\ x \in Seq(S) /\ Len(x) \in Nat
    BY RanksAre DEF Listing
<1>2. /\ \A j, k \in 1..Len(x) : j < k => x[j][2] < x[k][2]
      /\ \A m \in 1..Len(x) : x[m][2] <= i - 1 /\ Ranking!Funded(x[m])
      /\ \A j \in 1..(i - 1) : Ranking!Funded(<<s, j>>) => \E m \in 1..Len(x) : x[m] = <<s, j>>
    BY DEF Listing
<1>3. \A m \in 1..Len(x) : x[m] \in S /\ x[m][2] \in 1..n
    BY <1>1
<1>4. ASSUME ~Ranking!Funded(g) PROVE Listing(x, s, i)
  <2>1. \A m \in 1..Len(x) : x[m][2] <= i
    BY <1>2, <1>3
  <2>2. \A j \in 1..i : Ranking!Funded(<<s, j>>) => j \in 1..(i - 1)
    <3>1. \A j \in 1..i : j = i \/ j \in 1..(i - 1)
        BY <1>1
    <3>2. ~Ranking!Funded(<<s, i>>)
        BY <1>4
    <3> QED
        BY ONLY <3>1, <3>2
  <2> QED
    BY <1>1, <1>2, <2>1, <2>2 DEF Listing
<1>5. ASSUME Ranking!Funded(g) PROVE Listing(y, s, i)
  <2>1. /\ y \in Seq(S) /\ Len(y) = Len(x) + 1 /\ y[Len(x) + 1] = g
        /\ \A m \in 1..Len(x) : y[m] = x[m]
    BY <1>1
  <2> HIDE DEF y, S
  <2>2. \A m \in 1..Len(y) : m \in 1..Len(x) \/ m = Len(y)
    BY <1>1, <2>1
  <2>3. \A m \in 1..Len(y) : y[m][2] <= i /\ Ranking!Funded(y[m])
    <3>1. \A m \in 1..Len(x) : x[m][2] <= i
        BY <1>1, <1>2, <1>3
    <3>2. y[Len(y)] = g /\ g[2] <= i
        BY <1>1, <2>1
    <3> HIDE DEF g
    <3> QED
        BY ONLY <1>2, <1>5, <2>1, <2>2, <3>1, <3>2
  <2>4. \A j, k \in 1..Len(y) : j < k => y[j][2] < y[k][2]
    <3> SUFFICES ASSUME NEW j \in 1..Len(y), NEW k \in 1..Len(y), j < k
                 PROVE  y[j][2] < y[k][2]
        OBVIOUS
    <3>1. j \in 1..Len(x) /\ y[j] = x[j]
        BY <1>1, <2>1
    <3>2. CASE k = Len(y)
        BY <1>1, <1>2, <1>3, <2>1, <3>1, <3>2
    <3>3. CASE k \in 1..Len(x)
        BY <1>2, <2>1, <3>1, <3>3
    <3> QED
        BY <2>2, <3>2, <3>3
  <2>5. ASSUME NEW j \in 1..i, Ranking!Funded(<<s, j>>)
        PROVE  \E m \in 1..Len(y) : y[m] = <<s, j>>
    <3>1. CASE j = i
        BY <1>1, <2>1, <3>1
    <3>2. CASE j # i
      <4>1. j \in 1..(i - 1)
        BY <3>2
      <4>2. PICK m \in 1..Len(x) : x[m] = <<s, j>>
        BY <1>2, <2>5, <4>1
      <4> QED
        BY <1>1, <2>1, <4>2
    <3> QED
        BY <3>1, <3>2
  <2>6. y \in Seq({s} \X (1..Len(signals[s])))
    BY <2>1 DEF S
  <2> QED
    BY <2>3, <2>4, <2>5, <2>6 DEF Listing
<1> QED
    BY <1>4, <1>5

\* What can be funded of a start is listed.
LEMMA FundedOfIs ==
    ASSUME Signalled, NEW s \in Starts
    PROVE  Listing(Ranking!FundedOf(Ranking!Ranks(s)), s, Len(signals[s]))
<1> DEFINE q == Ranking!Ranks(s)
           n == Len(signals[s])
           S == Seq({s} \X (1..n))
           D == [i \in 0..n |-> {x \in S : Listing(x, s, i)}]
           step == [i \in 1..n |->
                      [x \in S |-> IF Ranking!Funded(q[i]) THEN Append(x, q[i]) ELSE x]]
<1>1. n \in Nat /\ Len(q) = n /\ \A i \in 1..n : q[i] = <<s, i>>
    BY RanksAre
<1>2. <<>> \in D[0]
  <2>1. <<>> \in S /\ Len(<<>>) = 0
    OBVIOUS
  <2>2. Listing(<<>>, s, 0)
    BY <2>1 DEF Listing
  <2> QED
    BY <1>1, <2>1, <2>2
<1>3. \A i \in 0..n : \A x : x \in D[i] => x \in S /\ Listing(x, s, i)
    OBVIOUS
<1>4. Keeps(step, D, n)
  <2> SUFFICES ASSUME NEW i \in 1..n, NEW x \in D[i - 1]
               PROVE  step[i][x] \in D[i]
    BY DEF Keeps
  <2>1. i - 1 \in 0..n /\ i \in 0..n
    BY <1>1
  <2>2. x \in S /\ Listing(x, s, i - 1)
    BY <1>3, <2>1
  <2>3. step[i][x] = IF Ranking!Funded(q[i]) THEN Append(x, q[i]) ELSE x
    BY <2>2
  <2>4. Listing(step[i][x], s, i)
    BY <1>1, <2>2, <2>3, ListingGoesOn
  <2>5. step[i][x] \in S
    BY <2>4 DEF Listing
  <2> QED
    BY <2>1, <2>4, <2>5
<1>5. PICK f : Unfolds(f, <<>>, step, D, n)
  <2> HIDE DEF D, step
  <2>1. n \in Nat
    BY <1>1
  <2> HIDE DEF n
  <2> QED
    BY ONLY <1>2, <1>4, <2>1, RecursionExists
<1>6. /\ f = [i \in 0..n |-> f[i]]
      /\ f[0] = <<>> /\ \A i \in 1..n : f[i] = step[i][f[i - 1]]
      /\ \A i \in 0..n : f[i] \in D[i]
  <2> HIDE DEF D, step
  <2> QED
    BY <1>5 DEF Unfolds
<1> DEFINE Body(h, i) == IF i = 0 THEN <<>>
                         ELSE IF Ranking!Funded(q[i]) THEN Append(h[i - 1], q[i]) ELSE h[i - 1]
<1>7. f = [i \in 0..n |-> Body(f, i)]
  <2>1. ASSUME NEW i \in 1..n PROVE step[i][f[i - 1]] = Body(f, i)
    <3>1. i - 1 \in 0..n /\ i # 0
        BY <1>1
    <3>2. f[i - 1] \in S
        BY <1>3, <1>6, <3>1
    <3> QED
        BY <3>1, <3>2
  <2> HIDE DEF step, Body
  <2>2. \A i \in 0..n : f[i] = Body(f, i)
    <3>1. \A i \in 0..n : i = 0 \/ i \in 1..n
        BY <1>1
    <3>2. Body(f, 0) = <<>>
        BY DEF Body
    <3> QED
        BY <1>6, <2>1, <3>1, <3>2
  <2>3. f = [i \in 0..n |-> f[i]]
    BY <1>6
  <2> QED
    BY ONLY <2>2, <2>3
<1> DEFINE F == CHOOSE h : h = [i \in 0..Len(q) |-> Body(h, i)]
<1>8. F = [i \in 0..n |-> Body(F, i)] /\ Ranking!FundedOf(q) = F[n]
    BY <1>1, <1>7 DEF Ranking!FundedOf
<1>9. \A i \in 0..n : F[i] = f[i]
  <2> HIDE DEF F
  <2> DEFINE Bad == {i \in Nat : i \in 0..n /\ F[i] # f[i]}
  <2>1. SUFFICES ASSUME NEW j \in Bad PROVE FALSE
    BY <1>1
  <2>2. PICK k \in Bad : \A m \in Bad : k <= m
    <3>1. Bad \in SUBSET Nat
        OBVIOUS
    <3> HIDE DEF Bad
    <3> QED
        BY <2>1, <3>1, LeastNatural
  <2>3. k \in 0..n /\ F[k] = Body(F, k) /\ f[k] = Body(f, k)
    BY <1>7, <1>8, <2>2
  <2>4. k # 0
    BY <2>2, <2>3
  <2>5. k - 1 \in 0..n /\ ~(k <= k - 1)
    BY <1>1, <2>3, <2>4
  <2>6. F[k - 1] = f[k - 1]
    BY <2>2, <2>5
  <2> QED
    BY <2>2, <2>3, <2>6
<1> QED
  <2>1. n \in 0..n
    BY <1>1
  <2> HIDE DEF F, D
  <2> QED
    BY <1>3, <1>6, <1>8, <1>9, <2>1

\* The funded signals of a start, by reference.
LEMMA RivalsAre ==
    ASSUME Signalled, NEW s \in Starts
    PROVE  \A g : g \in Ranking!Rivals(s) <=>
               \E i \in 1..Len(signals[s]) : g = <<s, i>> /\ Ranking!Funded(g)
<1>1. DOMAIN signals[s] = 1..Len(signals[s])
    BY DEF Signalled
<1> QED
    BY <1>1 DEF Ranking!Rivals

\* A list is cut off where it is longer than n.
LEMMA FirstIs ==
    ASSUME NEW S, NEW q \in Seq(S), NEW n \in Nat
    PROVE  /\ Ranking!First(q, n) \in Seq(S)
           /\ Len(Ranking!First(q, n)) = (IF Len(q) < n THEN Len(q) ELSE n)
           /\ \A i \in 1..Len(Ranking!First(q, n)) :
                 i \in 1..Len(q) /\ Ranking!First(q, n)[i] = q[i]
<1> PICK m \in Nat : m = (IF Len(q) < n THEN Len(q) ELSE n)
    OBVIOUS
<1>1. Ranking!First(q, n) = SubSeq(q, 1, m) /\ m <= Len(q)
    BY DEF Ranking!First
<1>2. \A i \in 1..m : q[i] \in S
    BY <1>1
<1>3. SubSeq(q, 1, m) \in Seq(S) /\ Len(SubSeq(q, 1, m)) = m
    BY <1>1, <1>2
<1>4. \A i \in 1..m : SubSeq(q, 1, m)[i] = q[i]
    BY <1>1, <1>2
<1> QED
    BY <1>1, <1>3, <1>4

\* What a start keeps: funded signals, best first, up to the limit; what is left out comes
\* behind as many as that.
StartKeeps(x, s) ==
    /\ x \in Seq(Ranking!Rivals(s)) /\ Len(x) <= PerStart
    /\ \A j, k \in 1..Len(x) : x[j] = x[k] => j = k
    /\ \A g \in Ranking!Rivals(s) :
          \/ \E m \in 1..Len(x) : x[m] = g
          \/ Cardinality({h \in Ranking!Rivals(s) : h[2] < g[2]}) >= PerStart

LEMMA OfStartIs ==
    ASSUME Signalled, NEW s \in Starts
    PROVE  StartKeeps(Ranking!OfStart(s), s) /\ IsFiniteSet(Ranking!Rivals(s))
<1> DEFINE f == Ranking!FundedOf(Ranking!Ranks(s))
           o == Ranking!OfStart(s)
           R == Ranking!Rivals(s)
           N == Len(signals[s])
<1>1. Listing(f, s, N) /\ N \in Nat /\ PerStart \in Nat
    BY FundedOfIs, RanksAre, ShortlistAssumption
<1>2. o = Ranking!First(f, PerStart)
    BY DEF Ranking!OfStart
<1> HIDE DEF f, o, N
<1>3. /\ f \in Seq({s} \X (1..N)) /\ Len(f) \in Nat
      /\ \A j, k \in 1..Len(f) : j < k => f[j][2] < f[k][2]
      /\ \A m \in 1..Len(f) : Ranking!Funded(f[m])
      /\ \A j \in 1..N : Ranking!Funded(<<s, j>>) => \E m \in 1..Len(f) : f[m] = <<s, j>>
    BY SMTT(30), <1>1 DEF Listing, N
<1>4. \A m \in 1..Len(f) : f[m][2] \in 1..N /\ f[m] = <<s, f[m][2]>> /\ f[m] \in R
  <2> SUFFICES ASSUME NEW m \in 1..Len(f)
               PROVE  f[m][2] \in 1..N /\ f[m] = <<s, f[m][2]>> /\ f[m] \in R
    OBVIOUS
  <2>1. f[m] \in {s} \X (1..N)
    BY <1>3
  <2>2. f[m][2] \in 1..N /\ f[m] = <<s, f[m][2]>>
    BY <2>1
  <2>3. f[m] \in R
    BY <1>3, <2>2, RivalsAre DEF N
  <2> QED
    BY <2>2, <2>3
<1>5. \A g \in R : g[2] \in 1..N /\ \E m \in 1..Len(f) : f[m] = g
  <2> SUFFICES ASSUME NEW g \in R
               PROVE  g[2] \in 1..N /\ \E m \in 1..Len(f) : f[m] = g
    OBVIOUS
  <2>1. PICK i \in 1..N : g = <<s, i>> /\ Ranking!Funded(g)
    BY RivalsAre DEF N
  <2> QED
    BY <1>3, <2>1
<1> HIDE DEF R
<1>6. \A j, k \in 1..Len(f) : f[j] = f[k] => j = k
  <2> SUFFICES ASSUME NEW j \in 1..Len(f), NEW k \in 1..Len(f), f[j] = f[k]
               PROVE  j = k
    OBVIOUS
  <2>1. f[j][2] \in Nat /\ f[j][2] = f[k][2]
    BY <1>1, <1>4
  <2>2. ~(j < k) /\ ~(k < j)
    BY <1>3, <2>1
  <2> QED
    BY <1>3, <2>2
<1>7. IsFiniteSet(R)
  <2>1. [i \in 1..Len(f) |-> f[i]] \in Surjection(1..Len(f), R)
    BY <1>4, <1>5 DEF Surjection
  <2> QED
    BY <1>3, <2>1, FS_Surjection, FS_Interval
<1>8. f \in Seq(R)
    BY <1>3, <1>4
<1>9. /\ o \in Seq(R) /\ Len(o) = (IF Len(f) < PerStart THEN Len(f) ELSE PerStart)
      /\ \A i \in 1..Len(o) : i \in 1..Len(f) /\ o[i] = f[i]
    BY <1>1, <1>2, <1>8, FirstIs
<1>10. ASSUME NEW g \in R, ~\E m \in 1..Len(o) : o[m] = g
       PROVE  Cardinality({h \in R : h[2] < g[2]}) >= PerStart
  <2> DEFINE H == {h \in R : h[2] < g[2]}
             e == [i \in 1..PerStart |-> f[i]]
  <2>1. PICK m \in 1..Len(f) : f[m] = g
    BY <1>5
  <2>2. m > PerStart /\ Len(o) = PerStart
    <3>1. m \notin 1..Len(o)
        BY <1>9, <1>10, <2>1
    <3> QED
        BY <1>1, <1>3, <1>9, <3>1
  <2>3. \A i \in 1..PerStart : i \in 1..Len(f) /\ f[i] \in H
    <3> SUFFICES ASSUME NEW i \in 1..PerStart
                 PROVE  i \in 1..Len(f) /\ f[i] \in H
        OBVIOUS
    <3>1. i \in 1..Len(f) /\ i < m
        BY <1>1, <1>3, <2>1, <2>2
    <3>2. f[i] \in R /\ f[i][2] < g[2]
        BY <1>3, <1>4, <2>1, <3>1
    <3> QED
        BY <3>1, <3>2
  <2>4. e \in Injection(1..PerStart, H)
    <3>1. e \in [1..PerStart -> H]
        BY <2>3
    <3>2. \A i, j \in 1..PerStart : e[i] = e[j] => i = j
        BY <1>6, <2>3
    <3> HIDE DEF e, H
    <3> QED
        BY <3>1, <3>2 DEF Injection, IsInjective
  <2>5. IsFiniteSet(H)
    BY <1>7, FS_Subset
  <2> HIDE DEF e, H
  <2>6. Cardinality(1..PerStart) <= Cardinality(H)
    BY <2>4, <2>5, FS_Injection
  <2>7. Cardinality(1..PerStart) = PerStart /\ Cardinality(H) \in Nat
    BY <1>1, <2>5, FS_Interval, FS_CardinalityType
  <2>8. Cardinality(H) >= PerStart
    BY <1>1, <2>6, <2>7
  <2> QED
    BY <2>8 DEF H
<1>11. Len(o) <= PerStart
    BY <1>1, <1>3, <1>9
<1>12. \A j, k \in 1..Len(o) : o[j] = o[k] => j = k
    BY <1>6, <1>9
<1> QED
    BY <1>7, <1>9, <1>10, <1>11, <1>12 DEF StartKeeps, R, o

\* The order of the starts, what each keeps, and all they may keep.
Order == Ranking!SetToSeq(Starts)
Lists == [i \in DOMAIN Order |-> Ranking!OfStart(Order[i])]
Refs  == UNION {Ranking!Rivals(s) : s \in Starts}

\* What the library counts is what is counted here.
LEMMA CardinalityAgrees == \A S : Ranking!Cardinality(S) = Cardinality(S)
    BY DEF Ranking!Cardinality, Cardinality

\* The order of the starts has each of them once.
LEMMA OrderIs ==
    /\ Cardinality(Starts) \in Nat /\ Order \in [1..Cardinality(Starts) -> Starts]
    /\ \A i, j \in 1..Cardinality(Starts) : Order[i] = Order[j] => i = j
    /\ \A s \in Starts : \E i \in 1..Cardinality(Starts) : Order[i] = s
<1> DEFINE n == Cardinality(Starts)
           Single(f) == f \in [1..n -> Starts] /\ Ranking!IsInjective(f)
<1>1. IsFiniteSet(Starts) /\ n \in Nat /\ ExistsBijection(1..n, Starts)
    BY ShortlistAssumption, FS_CardinalityType
<1>2. PICK g : g \in Bijection(1..n, Starts)
    BY <1>1 DEF ExistsBijection
<1>3. Single(g)
    BY <1>2 DEF Bijection, Injection, IsInjective, Ranking!IsInjective
<1>4. Order = CHOOSE f \in [1..n -> Starts] : Ranking!IsInjective(f)
    BY CardinalityAgrees DEF Order, Ranking!SetToSeq
<1>5. Single(Order)
  <2> HIDE DEF n
  <2> QED
    BY <1>3, <1>4
<1>6. Order \in Injection(1..n, Starts)
    BY <1>5 DEF Injection, IsInjective, Ranking!IsInjective
<1>7. Cardinality(1..n) = n
    BY <1>1, FS_Interval
<1>8. Order \in Surjection(1..n, Starts)
    BY <1>1, <1>6, <1>7, FS_Injection
<1> QED
    BY <1>1, <1>6, <1>8 DEF Injection, Surjection, IsInjective

\* x are the lists of the first i starts, one behind the other.
Merged(x, i) ==
    /\ x \in Seq(Refs)
    /\ \A j, k \in 1..Len(x) : x[j] = x[k] => j = k
    /\ \A g : (\E m \in 1..Len(x) : x[m] = g) <=>
                 \E k \in 1..i : \E m \in 1..Len(Lists[k]) : Lists[k][m] = g

\* The list of the next start is appended.
LEMMA MergedGoesOn ==
    ASSUME Signalled, NEW i \in 1..Cardinality(Starts), NEW x, Merged(x, i - 1)
    PROVE  Merged(x \o Lists[i], i)
<1> DEFINE n == Cardinality(Starts)
           y == Lists[i]
           z == x \o y
<1>1. n \in Nat /\ Order \in [1..n -> Starts]
    BY OrderIs
<1>2. \A k \in 1..n : Lists[k] = Ranking!OfStart(Order[k]) /\ StartKeeps(Lists[k], Order[k])
    BY <1>1, OfStartIs DEF Lists
<1>3. /\ y \in Seq(Ranking!Rivals(Order[i])) /\ Order[i] \in Starts
      /\ \A j, k \in 1..Len(y) : y[j] = y[k] => j = k
    BY <1>1, <1>2 DEF StartKeeps
<1>4. y \in Seq(Refs)
    BY <1>3 DEF Refs
<1>5. /\ x \in Seq(Refs) /\ Len(x) \in Nat
      /\ \A j, k \in 1..Len(x) : x[j] = x[k] => j = k
      /\ \A g : (\E m \in 1..Len(x) : x[m] = g) <=>
                   \E k \in 1..(i - 1) : \E m \in 1..Len(Lists[k]) : Lists[k][m] = g
    BY DEF Merged
<1>6. \A m \in 1..Len(y) : y[m] \in Ranking!Rivals(Order[i]) /\ Len(y) \in Nat
    BY <1>3
<1>7. \A m \in 1..Len(y) : y[m][1] = Order[i]
    BY <1>3, <1>6, RivalsAre
<1>8. \A m \in 1..Len(x) : x[m][1] # Order[i]
  <2> SUFFICES ASSUME NEW m \in 1..Len(x)
               PROVE  x[m][1] # Order[i]
    OBVIOUS
  <2>1. PICK k \in 1..(i - 1) : \E l \in 1..Len(Lists[k]) : Lists[k][l] = x[m]
    BY <1>5
  <2>2. PICK l \in 1..Len(Lists[k]) : Lists[k][l] = x[m]
    BY <2>1
  <2>3. k \in 1..n /\ k # i
    BY <1>1
  <2>4. x[m] \in Ranking!Rivals(Order[k]) /\ Order[k] \in Starts
    BY SMTT(30), <1>1, <1>2, <2>2, <2>3 DEF StartKeeps
  <2>5. x[m][1] = Order[k]
    BY <2>4, RivalsAre
  <2> QED
    BY <2>3, <2>5, OrderIs
<1> HIDE DEF y
<1>9. /\ z \in Seq(Refs) /\ Len(z) = Len(x) + Len(y) /\ Len(y) \in Nat
      /\ \A m \in 1..Len(x) : z[m] = x[m]
      /\ \A m \in 1..Len(y) : z[Len(x) + m] = y[m]
      /\ \A m \in 1..Len(z) : m \notin 1..Len(x) =>
            m - Len(x) \in 1..Len(y) /\ z[m] = y[m - Len(x)]
  <2>1. z \in Seq(Refs) /\ Len(z) = Len(x) + Len(y) /\ Len(y) \in Nat
    BY <1>4, <1>5
  <2>2. \A m \in 1..Len(z) : z[m] = IF m <= Len(x) THEN x[m] ELSE y[m - Len(x)]
    BY <1>4, <1>5
  <2> HIDE DEF z
  <2> QED
    BY SMTT(30), <1>5, <2>1, <2>2
<1> HIDE DEF z
<1>10. \A j, k \in 1..Len(z) : z[j] = z[k] => j = k
  <2> SUFFICES ASSUME NEW j \in 1..Len(z), NEW k \in 1..Len(z), z[j] = z[k]
               PROVE  j = k
    OBVIOUS
  <2>1. CASE j \in 1..Len(x) /\ k \in 1..Len(x)
    BY <1>5, <1>9, <2>1
  <2>2. CASE j \notin 1..Len(x) /\ k \notin 1..Len(x)
    <3> DEFINE a == j - Len(x)
               c == k - Len(x)
    <3>1. a \in 1..Len(y) /\ c \in 1..Len(y) /\ y[a] = y[c]
        BY <1>9, <2>2
    <3> HIDE DEF a, c
    <3>2. a = c
        BY <1>3, <3>1
    <3>3. j - Len(x) = k - Len(x)
        BY <3>2 DEF a, c
    <3> QED
        BY <1>5, <1>9, <3>3
  <2>3. CASE j \in 1..Len(x) /\ k \notin 1..Len(x)
    <3>1. z[j][1] # Order[i]
        BY <1>8, <1>9, <2>3
    <3>2. z[k][1] = Order[i]
        BY SMTT(30), <1>7, <1>9, <2>3
    <3> QED
        BY <3>1, <3>2
  <2>4. CASE j \notin 1..Len(x) /\ k \in 1..Len(x)
    <3>1. z[k][1] # Order[i]
        BY <1>8, <1>9, <2>4
    <3>2. z[j][1] = Order[i]
        BY <1>7, <1>9, <2>4
    <3> QED
        BY <3>1, <3>2
  <2> QED
    BY <2>1, <2>2, <2>3, <2>4
<1>11. ASSUME NEW g
       PROVE  (\E m \in 1..Len(z) : z[m] = g) <=>
                 \E k \in 1..i : \E m \in 1..Len(Lists[k]) : Lists[k][m] = g
  <2>1. (\E m \in 1..Len(z) : z[m] = g) <=>
            (\E m \in 1..Len(x) : x[m] = g) \/ \E m \in 1..Len(y) : y[m] = g
    <3>1. \A m \in 1..Len(x) : m \in 1..Len(z)
        BY <1>5, <1>9
    <3>2. \A m \in 1..Len(y) : Len(x) + m \in 1..Len(z)
        BY <1>5, <1>9
    <3> QED
        BY <1>9, <3>1, <3>2
  <2>2. \A k : k \in 1..i <=> k \in 1..(i - 1) \/ k = i
    BY <1>1
  <2> QED
    BY <1>5, <2>1, <2>2 DEF y
<1> QED
    BY <1>9, <1>10, <1>11 DEF Merged, z, y

\* All that the starts keep is pending.
LEMMA PendingIs ==
    ASSUME Signalled
    PROVE  Merged(Ranking!Pending, Cardinality(Starts))
<1> DEFINE n == Cardinality(Starts)
           Body(h, i) == IF i = 1 THEN Lists[i] ELSE h[i - 1] \o Lists[i]
           F == CHOOSE h : h = [i \in 1..Len(Lists) |-> Body(h, i)]
<1>1. n \in Nat /\ Order \in [1..n -> Starts] /\ DOMAIN Order = 1..n
    BY OrderIs
<1>2. Lists \in Seq(Seq(Refs)) /\ Len(Lists) = n
  <2>1. \A i \in 1..n : Ranking!OfStart(Order[i]) \in Seq(Refs)
    <3> SUFFICES ASSUME NEW i \in 1..n
                 PROVE  Ranking!OfStart(Order[i]) \in Seq(Refs)
        OBVIOUS
    <3>1. Order[i] \in Starts
        BY <1>1
    <3>2. Ranking!OfStart(Order[i]) \in Seq(Ranking!Rivals(Order[i]))
        BY <3>1, OfStartIs DEF StartKeeps
    <3> QED
        BY <3>1, <3>2 DEF Refs
  <2>2. Lists \in [1..n -> Seq(Refs)]
    BY <1>1, <2>1 DEF Lists
  <2> QED
    BY <1>1, <2>2
<1>3. Ranking!Pending = IF n = 0 THEN Lists ELSE F[n]
    BY <1>2 DEF Ranking!Pending, Ranking!FlattenSeq, Lists, Order
<1>4. CASE n = 0
  <2>1. Lists \in Seq(Refs) /\ Len(Lists) = 0
    BY <1>2, <1>4
  <2>2. Merged(Lists, 0)
    BY <2>1 DEF Merged
  <2> QED
    BY <1>3, <1>4, <2>2
<1>5. CASE n # 0
  <2>1. Merged(<<>>, 0)
    BY DEF Merged
  <2>2. Merged(Lists[1], 1)
    <3>1. 1 \in 1..Cardinality(Starts) /\ Merged(<<>>, 1 - 1)
        BY <1>1, <1>5, <2>1
    <3>2. Merged(<<>> \o Lists[1], 1)
        BY <3>1, MergedGoesOn
    <3>3. Lists[1] \in Seq(Refs)
        BY <1>1, <1>2, <1>5
    <3>4. <<>> \o Lists[1] = Lists[1]
        BY <3>3
    <3> QED
        BY <3>2, <3>4
  <2>3. F = [i \in 1..n |-> Body(F, i)]
    <3> DEFINE D == [i \in 0..(n - 1) |-> Seq(Refs)]
               step == [i \in 1..(n - 1) |-> [x \in Seq(Refs) |-> x \o Lists[i + 1]]]
    <3>1. n - 1 \in Nat /\ Lists[1] \in D[0]
        BY <1>1, <1>2, <1>5
    <3>2. Keeps(step, D, n - 1)
      <4> SUFFICES ASSUME NEW i \in 1..(n - 1), NEW x \in D[i - 1]
                   PROVE  step[i][x] \in D[i]
        BY DEF Keeps
      <4>1. x \in Seq(Refs) /\ i + 1 \in 1..n /\ i \in 0..(n - 1)
        BY <3>1
      <4>2. Lists[i + 1] \in Seq(Refs)
        BY <1>2, <4>1
      <4> QED
        BY <4>1, <4>2
    <3>3. PICK f : Unfolds(f, Lists[1], step, D, n - 1)
      <4> HIDE DEF D, step
      <4> QED
        BY <3>1, <3>2, RecursionExists
    <3>4. /\ f[0] = Lists[1] /\ \A i \in 1..(n - 1) : f[i] = step[i][f[i - 1]]
          /\ \A i \in 0..(n - 1) : f[i] \in Seq(Refs)
      <4>1. /\ f[0] = Lists[1] /\ \A i \in 1..(n - 1) : f[i] = step[i][f[i - 1]]
            /\ \A i \in 0..(n - 1) : f[i] \in D[i]
        <5> HIDE DEF D, step
        <5> QED
            BY <3>3 DEF Unfolds
      <4> QED
        BY <4>1
    <3> DEFINE w == [i \in 1..n |-> f[i - 1]]
    <3>5. \A i \in 1..n : w[i] = Body(w, i)
      <4> SUFFICES ASSUME NEW i \in 1..n
                   PROVE  w[i] = Body(w, i)
        OBVIOUS
      <4>1. CASE i = 1
        BY <3>4, <4>1
      <4>2. CASE i # 1
        <5>1. i - 1 \in 1..(n - 1) /\ i - 1 \in 1..n /\ (i - 1) - 1 \in 0..(n - 1)
            BY <1>1, <4>2
        <5>2. f[i - 1] = step[i - 1][f[(i - 1) - 1]] /\ f[(i - 1) - 1] \in Seq(Refs)
            BY <3>4, <5>1
        <5>3. step[i - 1][f[(i - 1) - 1]] = f[(i - 1) - 1] \o Lists[(i - 1) + 1]
            BY <5>1, <5>2
        <5>4. (i - 1) + 1 = i
            OBVIOUS
        <5>5. w[i] = f[i - 1] /\ w[i - 1] = f[(i - 1) - 1]
            BY <5>1
        <5> HIDE DEF w, step
        <5> QED
            BY <4>2, <5>2, <5>3, <5>4, <5>5
      <4> QED
        BY <4>1, <4>2
    <3>6. w = [i \in 1..n |-> Body(w, i)]
      <4>1. w = [i \in 1..n |-> w[i]]
        OBVIOUS
      <4> HIDE DEF w, Body
      <4> QED
        BY ONLY <3>5, <4>1
    <3> HIDE DEF w, n
    <3> QED
        BY <1>2, <3>6
  <2> HIDE DEF F
  <2> DEFINE Bad == {k \in Nat : k \in 1..n /\ ~Merged(F[k], k)}
  <2>4. SUFFICES ASSUME NEW j \in Bad PROVE FALSE
    <3>1. n \in 1..n
        BY <1>1, <1>5
    <3>2. Ranking!Pending = F[n]
        BY <1>3, <1>5
    <3> QED
        BY <1>1, <3>1, <3>2
  <2>5. PICK k \in Bad : \A m \in Bad : k <= m
    <3>1. Bad \in SUBSET Nat
        OBVIOUS
    <3> HIDE DEF Bad
    <3> QED
        BY <2>4, <3>1, LeastNatural
  <2>6. k \in 1..n /\ ~Merged(F[k], k) /\ F[k] = Body(F, k)
    BY <2>3, <2>5
  <2>7. k # 1
    BY <2>2, <2>6
  <2>8. k - 1 \in 1..n /\ ~(k <= k - 1)
    BY <1>1, <2>6, <2>7
  <2>9. Merged(F[k - 1], k - 1)
    BY <2>5, <2>8
  <2>10. Merged(F[k - 1] \o Lists[k], k)
    BY <2>6, <2>9, MergedGoesOn
  <2> QED
    BY <2>6, <2>7, <2>10
<1> QED
    BY <1>4, <1>5

\* R is an order of the numbers up to n in which any two can be compared.
TotalOrder(R, n) ==
    /\ \A i, j \in 1..n : i # j => <<i, j>> \in R \/ <<j, i>> \in R
    /\ \A i, j \in 1..n : ~(<<i, j>> \in R /\ <<j, i>> \in R)
    /\ \A i, j, k \in 1..n : <<i, j>> \in R /\ <<j, k>> \in R => <<i, k>> \in R

\* The numbers up to n can be put in any such order: each at the place behind those before it.
LEMMA SortExists ==
    ASSUME NEW n \in Nat, NEW R, TotalOrder(R, n)
    PROVE  \E p \in [1..n -> 1..n] : \A i, j \in 1..n : i < j => <<p[i], p[j]>> \in R
<1> DEFINE Before(i) == {k \in 1..n : <<k, i>> \in R}
           r == [i \in 1..n |-> Cardinality(Before(i)) + 1]
           N == 1..n
<1>1. /\ \A i, j \in N : i # j => <<i, j>> \in R \/ <<j, i>> \in R
      /\ \A i, j \in N : ~(<<i, j>> \in R /\ <<j, i>> \in R)
      /\ \A i, j, k \in N : <<i, j>> \in R /\ <<j, k>> \in R => <<i, k>> \in R
    BY DEF TotalOrder
<1>2. IsFiniteSet(N) /\ Cardinality(N) = n
    BY FS_Interval
<1> HIDE DEF N
<1>3. ASSUME NEW i \in N
      PROVE  /\ IsFiniteSet(Before(i)) /\ Cardinality(Before(i)) \in Nat
             /\ Cardinality(Before(i)) < n
  <2>1. Before(i) \subseteq N /\ i \notin Before(i)
    BY <1>1 DEF N
  <2> HIDE DEF Before
  <2>2. IsFiniteSet(Before(i)) /\ Cardinality(Before(i)) <= n
    BY <1>2, <2>1, FS_Subset
  <2>3. Cardinality(Before(i)) # n
    BY <1>2, <2>1, FS_Subset
  <2>4. Cardinality(Before(i)) \in Nat
    BY <2>2, FS_CardinalityType
  <2> QED
    BY <2>2, <2>3, <2>4
<1>4. ASSUME NEW i \in N, NEW j \in N, <<i, j>> \in R
      PROVE  Cardinality(Before(i)) < Cardinality(Before(j))
  <2>1. Before(i) \subseteq Before(j) /\ i \in Before(j) /\ i \notin Before(i)
    BY <1>1, <1>4 DEF N
  <2>2. /\ IsFiniteSet(Before(j)) /\ Cardinality(Before(j)) \in Nat
        /\ Cardinality(Before(i)) \in Nat
    BY <1>3
  <2> HIDE DEF Before
  <2>3. Cardinality(Before(i)) <= Cardinality(Before(j))
    BY <2>1, <2>2, FS_Subset
  <2>4. Cardinality(Before(i)) # Cardinality(Before(j))
    BY <2>1, <2>2, FS_Subset
  <2> QED
    BY <2>2, <2>3, <2>4
<1>5. \A i \in N : r[i] = Cardinality(Before(i)) + 1 /\ r[i] \in N
  <2> SUFFICES ASSUME NEW i \in N
               PROVE  r[i] = Cardinality(Before(i)) + 1 /\ r[i] \in N
    OBVIOUS
  <2>1. r[i] = Cardinality(Before(i)) + 1
    BY DEF N
  <2> HIDE DEF Before, r
  <2> QED
    BY <1>3, <2>1 DEF N
<1>6. \A i, j \in N : <<i, j>> \in R => r[i] < r[j]
  <2> SUFFICES ASSUME NEW i \in N, NEW j \in N, <<i, j>> \in R
               PROVE  r[i] < r[j]
    OBVIOUS
  <2> HIDE DEF Before, r
  <2> QED
    BY <1>3, <1>4, <1>5
<1>7. r \in [N -> N]
    BY <1>5 DEF N
<1> HIDE DEF Before, r
<1>8. \A i, j \in N : r[i] \in Int /\ (r[i] = r[j] => i = j)
  <2> SUFFICES ASSUME NEW i \in N, NEW j \in N
               PROVE  r[i] \in Int /\ (r[i] = r[j] => i = j)
    OBVIOUS
  <2>1. r[i] \in Int /\ r[j] \in Int
    BY <1>5 DEF N
  <2>2. <<i, j>> \in R => r[i] # r[j]
    BY <1>6, <2>1
  <2>3. <<j, i>> \in R => r[i] # r[j]
    BY <1>6, <2>1
  <2> QED
    BY <1>1, <2>1, <2>2, <2>3
<1>9. r \in Injection(N, N)
    BY <1>7, <1>8 DEF Injection, IsInjective
<1>10. r \in Surjection(N, N)
    BY <1>2, <1>9, FS_Injection
<1> DEFINE p == [m \in N |-> CHOOSE i \in N : r[i] = m]
<1>11. \A m \in N : p[m] \in N /\ r[p[m]] = m
    BY <1>10 DEF Surjection
<1>12. p \in [N -> N]
    BY <1>11
<1> HIDE DEF p
<1>13. ASSUME NEW i \in N, NEW j \in N, i < j
       PROVE  <<p[i], p[j]>> \in R
  <2>1. p[i] \in N /\ p[j] \in N /\ r[p[i]] = i /\ r[p[j]] = j
    BY <1>11
  <2>2. i \in Int /\ j \in Int
    BY DEF N
  <2>3. p[i] # p[j]
    BY <1>13, <2>1, <2>2
  <2>4. ~(<<p[j], p[i]>> \in R)
    <3>1. <<p[j], p[i]>> \in R => r[p[j]] < r[p[i]]
        BY <1>6, <2>1
    <3> QED
        BY <1>13, <2>1, <2>2, <3>1
  <2> QED
    BY <1>1, <2>1, <2>3, <2>4
<1> QED
    BY <1>12, <1>13 DEF N

\* What is put in order is each of the numbers, once.
Sorts(p, R, n) ==
    p \in [1..n -> 1..n] /\ \A i, j \in 1..n : i < j => <<p[i], p[j]>> \in R

Permutes(p, n) ==
    /\ \A i, j \in 1..n : p[i] = p[j] => i = j
    /\ \A m \in 1..n : \E i \in 1..n : p[i] = m

LEMMA SortIsPermutation ==
    ASSUME NEW n \in Nat, NEW R, TotalOrder(R, n), NEW p, Sorts(p, R, n)
    PROVE  Permutes(p, n)
<1>1. \A i \in 1..n : ~(<<i, i>> \in R)
    BY DEF TotalOrder
<1>2. \A i, j \in 1..n : p[i] = p[j] => i = j
  <2> SUFFICES ASSUME NEW i \in 1..n, NEW j \in 1..n, p[i] = p[j]
               PROVE  i = j
    OBVIOUS
  <2>1. ~(i < j) /\ ~(j < i)
    BY <1>1 DEF Sorts
  <2> QED
    BY <2>1
<1>3. p \in Injection(1..n, 1..n)
    BY <1>2 DEF Sorts, Injection, IsInjective
<1>4. p \in Surjection(1..n, 1..n)
    BY <1>3, FS_Interval, FS_Injection
<1> QED
    BY <1>2, <1>4 DEF Surjection, Permutes

\* The gain of a funded signal is a number.
LEMMA GainIs == Signalled => \A g \in Refs : Ranking!Gain(g) \in Nat
<1> SUFFICES ASSUME Signalled, NEW s \in Starts, NEW g \in Ranking!Rivals(s)
             PROVE  Ranking!Gain(g) \in Nat
    BY DEF Refs
<1>1. PICK i \in 1..Len(signals[s]) : g = <<s, i>>
    BY RivalsAre
<1>2. signals[s][i] \in Ranking!Signals
    BY <1>1 DEF Signalled
<1>3. Ranking!Gain(g) = signals[s][i].gain
    BY <1>1 DEF Ranking!Gain
<1> QED
    BY <1>2, <1>3 DEF Ranking!Signals

\* Sorting keeps all, and puts none behind one of less gain.
LEMMA SortedIs ==
    ASSUME Signalled, NEW c \in Seq(Refs)
    PROVE  \E p \in [1..Len(c) -> 1..Len(c)] :
              /\ \A i, j \in 1..Len(c) : p[i] = p[j] => i = j
              /\ \A m \in 1..Len(c) : \E i \in 1..Len(c) : p[i] = m
              /\ Ranking!Sorted(c) = [i \in 1..Len(c) |-> c[p[i]]]
              /\ \A i, j \in 1..Len(c) : i < j => Ranking!Gain(c[p[i]]) >= Ranking!Gain(c[p[j]])
<1> DEFINE n == Len(c)
           R == {x \in (1..n) \X (1..n) : Ranking!Ahead(c, x[1], x[2])}
           p == CHOOSE q \in [1..n -> 1..n] :
                    \A i, j \in 1..n : i < j => Ranking!Ahead(c, q[i], q[j])
<1>1. n \in Nat /\ DOMAIN c = 1..n
    OBVIOUS
<1>2. \A i \in 1..n : Ranking!Gain(c[i]) \in Nat
    BY GainIs
<1>3. \A i, j \in 1..n : <<i, j>> \in R <=> Ranking!Ahead(c, i, j)
    OBVIOUS
<1>4. \A i, j \in 1..n : <<i, j>> \in R <=>
          \/ Ranking!Gain(c[i]) > Ranking!Gain(c[j])
          \/ Ranking!Gain(c[i]) = Ranking!Gain(c[j]) /\ i < j
    BY <1>3 DEF Ranking!Ahead
<1>5. Ranking!Sorted(c) = [i \in 1..n |-> c[p[i]]]
    BY <1>1 DEF Ranking!Sorted
<1> HIDE DEF R
<1>6. TotalOrder(R, n)
  <2>1. \A i, j \in 1..n : i # j => <<i, j>> \in R \/ <<j, i>> \in R
    BY <1>1, <1>2, <1>4
  <2>2. \A i, j \in 1..n : ~(<<i, j>> \in R /\ <<j, i>> \in R)
    <3> SUFFICES ASSUME NEW i \in 1..n, NEW j \in 1..n
                 PROVE  ~(<<i, j>> \in R /\ <<j, i>> \in R)
        OBVIOUS
    <3>1. Ranking!Gain(c[i]) \in Nat /\ Ranking!Gain(c[j]) \in Nat
        BY <1>2
    <3> QED
        BY <1>1, <1>4, <3>1
  <2>3. \A i, j, k \in 1..n : <<i, j>> \in R /\ <<j, k>> \in R => <<i, k>> \in R
    BY <1>1, <1>2, <1>4
  <2> QED
    BY <2>1, <2>2, <2>3 DEF TotalOrder
<1> HIDE DEF n
<1>7. \E q \in [1..n -> 1..n] : \A i, j \in 1..n : i < j => Ranking!Ahead(c, q[i], q[j])
  <2>1. PICK q \in [1..n -> 1..n] : \A i, j \in 1..n : i < j => <<q[i], q[j]>> \in R
    BY <1>1, <1>6, SortExists
  <2>2. \A i, j \in 1..n : i < j => Ranking!Ahead(c, q[i], q[j])
    BY <1>3, <2>1
  <2> QED
    BY <2>2
<1>8. p \in [1..n -> 1..n] /\ \A i, j \in 1..n : i < j => Ranking!Ahead(c, p[i], p[j])
    BY <1>7
<1> HIDE DEF p
<1>9. \A i, j \in 1..n : i < j => <<p[i], p[j]>> \in R
    BY <1>3, <1>8
<1>10. /\ \A i, j \in 1..n : p[i] = p[j] => i = j
       /\ \A m \in 1..n : \E i \in 1..n : p[i] = m
  <2>1. Sorts(p, R, n)
    BY <1>8, <1>9 DEF Sorts
  <2>2. Permutes(p, n)
    BY <1>1, <1>6, <2>1, SortIsPermutation
  <2> QED
    BY <2>2 DEF Permutes
<1>11. \A i, j \in 1..n : i < j => Ranking!Gain(c[p[i]]) >= Ranking!Gain(c[p[j]])
  <2> SUFFICES ASSUME NEW i \in 1..n, NEW j \in 1..n, i < j
               PROVE  Ranking!Gain(c[p[i]]) >= Ranking!Gain(c[p[j]])
    OBVIOUS
  <2>1. p[i] \in 1..n /\ p[j] \in 1..n /\ <<p[i], p[j]>> \in R
    BY <1>8, <1>9
  <2>2. Ranking!Gain(c[p[i]]) \in Nat /\ Ranking!Gain(c[p[j]]) \in Nat
    BY <1>2, <2>1
  <2> QED
    BY <1>4, <2>1, <2>2
<1> QED
    BY <1>5, <1>8, <1>10, <1>11 DEF n

\* The numbers up to n are n.
LEMMA Numbers == \A n \in Nat : IsFiniteSet(1..n) /\ Cardinality(1..n) = n
    BY FS_Interval

\* ShortlistBest of a list x and of the signals of a scan.
RivalsIn(sig, s) == {g \in {<<s, i>> : i \in DOMAIN sig[s]} : sig[g[1]][g[2]].funded}
GainIn(sig, g)   == sig[g[1]][g[2]].gain
Members(x)       == {x[i] : i \in DOMAIN x}

Best(sig, x) ==
    /\ Len(x) <= Shortlisted /\ Ranking!Cardinality(Members(x)) = Len(x)
    /\ \A i, j \in DOMAIN x : i < j => GainIn(sig, x[i]) >= GainIn(sig, x[j])
    /\ \A s \in Starts :
          /\ {g \in Members(x) : g[1] = s} \subseteq RivalsIn(sig, s)
          /\ Ranking!Cardinality({g \in Members(x) : g[1] = s}) <= PerStart
          /\ \A g \in RivalsIn(sig, s) \ Members(x) :
                \/ Ranking!Cardinality({h \in RivalsIn(sig, s) : h[2] < g[2]}) >= PerStart
                \/ Ranking!Cardinality({h \in Members(x) : GainIn(sig, h) >= GainIn(sig, g)})
                      = Shortlisted

\* What the sorted list of all that is pending is cut off to, is the best.
LEMMA ShortlistIsBest ==
    Signalled => Best(signals, Ranking!First(Ranking!Sorted(Ranking!Pending), Shortlisted))
<1> SUFFICES ASSUME Signalled
             PROVE  Best(signals, Ranking!First(Ranking!Sorted(Ranking!Pending), Shortlisted))
    OBVIOUS
<1> DEFINE c == Ranking!Pending
           n == Len(c)
           x == Ranking!First(Ranking!Sorted(c), Shortlisted)
           m == Len(x)
           K == Members(x)
<1>1. c \in Seq(Refs) /\ n \in Nat /\ Shortlisted \in Nat /\ PerStart \in Nat
    BY PendingIs, ShortlistAssumption DEF Merged
<1>2. /\ \A j, k \in 1..n : c[j] = c[k] => j = k
      /\ \A g : (\E l \in 1..n : c[l] = g) <=>
                   \E k \in 1..Cardinality(Starts) : \E l \in 1..Len(Lists[k]) : Lists[k][l] = g
    BY PendingIs DEF Merged
<1> HIDE DEF c
<1>3. PICK p \in [1..n -> 1..n] :
              /\ \A i, j \in 1..n : p[i] = p[j] => i = j
              /\ \A l \in 1..n : \E i \in 1..n : p[i] = l
              /\ Ranking!Sorted(c) = [i \in 1..n |-> c[p[i]]]
              /\ \A i, j \in 1..n : i < j => Ranking!Gain(c[p[i]]) >= Ranking!Gain(c[p[j]])
    BY <1>1, SortedIs
<1>4. /\ \A i \in 1..n : Ranking!Sorted(c)[i] = c[p[i]]
      /\ Ranking!Sorted(c) \in Seq(Refs) /\ Len(Ranking!Sorted(c)) = n
    BY SMTT(30), <1>1, <1>3
<1>5. /\ x \in Seq(Refs) /\ m \in Nat /\ m = (IF n < Shortlisted THEN n ELSE Shortlisted)
      /\ \A i \in 1..m : i \in 1..n /\ x[i] = c[p[i]]
    BY <1>1, <1>4, FirstIs
<1> HIDE DEF n, x, m, K
<1>6. DOMAIN x = 1..m /\ m <= Shortlisted /\ m = Len(x)
    BY <1>1, <1>5 DEF m
<1>7. \A h : h \in K <=> \E i \in 1..m : h = c[p[i]]
    BY <1>5, <1>6 DEF K, Members
<1>8. IsFiniteSet(K) /\ Cardinality(K) = m
  <2> DEFINE e == [i \in 1..m |-> c[p[i]]]
  <2>1. e \in [1..m -> K] /\ \A h \in K : \E i \in 1..m : e[i] = h
    BY <1>7
  <2>2. \A i, j \in 1..m : e[i] = e[j] => i = j
    <3> SUFFICES ASSUME NEW i \in 1..m, NEW j \in 1..m, c[p[i]] = c[p[j]]
                 PROVE  i = j
        OBVIOUS
    <3>1. i \in 1..n /\ j \in 1..n /\ p[i] \in 1..n /\ p[j] \in 1..n
        BY <1>3, <1>5
    <3> QED
        BY <1>2, <1>3, <3>1
  <2> HIDE DEF e
  <2>3. e \in Surjection(1..m, K) /\ e \in Injection(1..m, K)
    BY <2>1, <2>2 DEF Surjection, Injection, IsInjective
  <2>4. IsFiniteSet(1..m) /\ Cardinality(1..m) = m
    BY <1>5, Numbers
  <2> QED
    BY <2>3, <2>4, FS_Surjection
<1>9. \A g \in Refs : GainIn(signals, g) = Ranking!Gain(g) /\ Ranking!Gain(g) \in Nat
    BY GainIs DEF GainIn, Ranking!Gain
<1>10. \A i \in 1..n : c[p[i]] \in Refs
    BY <1>1, <1>3 DEF n
<1>11. ASSUME NEW i \in 1..n, NEW j \in 1..n, i < j
       PROVE  GainIn(signals, c[p[i]]) >= GainIn(signals, c[p[j]])
    BY SMTT(30), <1>3, <1>9, <1>10, <1>11
<1>12. \A i, j \in DOMAIN x : i < j => GainIn(signals, x[i]) >= GainIn(signals, x[j])
    BY <1>5, <1>6, <1>11
<1>13. ASSUME NEW s \in Starts
       PROVE  /\ {g \in K : g[1] = s} \subseteq RivalsIn(signals, s)
              /\ Cardinality({g \in K : g[1] = s}) <= PerStart
              /\ \A g \in RivalsIn(signals, s) \ K :
                    \/ Cardinality({h \in RivalsIn(signals, s) : h[2] < g[2]}) >= PerStart
                    \/ Cardinality({h \in K : GainIn(signals, h) >= GainIn(signals, g)})
                          = Shortlisted
  <2> DEFINE o == Ranking!OfStart(s)
             O == Members(o)
             A == {g \in K : g[1] = s}
             R == Ranking!Rivals(s)
  <2>1. R = RivalsIn(signals, s)
    BY DEF Ranking!Rivals, Ranking!Funded, RivalsIn
  <2>2. /\ o \in Seq(R) /\ Len(o) <= PerStart /\ Len(o) \in Nat
        /\ \A g \in R : \/ \E l \in 1..Len(o) : o[l] = g
                        \/ Cardinality({h \in R : h[2] < g[2]}) >= PerStart
    BY OfStartIs DEF StartKeeps
  <2>3. \A g : g \in O <=> \E l \in 1..Len(o) : o[l] = g
    BY <2>2 DEF Members
  <2>4. O \subseteq R
    BY <2>2, <2>3
  <2>5. /\ Order \in [1..Cardinality(Starts) -> Starts]
        /\ \A k \in 1..Cardinality(Starts) : Lists[k] = Ranking!OfStart(Order[k])
    BY OrderIs DEF Lists
  <2>6. \A g \in A : g \in O
    <3> SUFFICES ASSUME NEW g \in K, g[1] = s
                 PROVE  g \in O
        OBVIOUS
    <3>1. PICK l \in 1..n : c[l] = g
      <4>1. PICK i \in 1..m : g = c[p[i]]
        BY <1>7
      <4>2. p[i] \in 1..n
        BY <1>3, <1>5
      <4> QED
        BY <4>1, <4>2
    <3>2. PICK k \in 1..Cardinality(Starts) : \E r \in 1..Len(Lists[k]) : Lists[k][r] = g
        BY <1>2, <3>1
    <3>3. PICK r \in 1..Len(Lists[k]) : Lists[k][r] = g
        BY <3>2
    <3>4. Order[k] \in Starts /\ Lists[k] \in Seq(Ranking!Rivals(Order[k]))
        BY <2>5, OfStartIs DEF StartKeeps
    <3>5. g \in Ranking!Rivals(Order[k])
        BY <3>3, <3>4
    <3>6. Order[k] = s
        BY <3>4, <3>5, RivalsAre
    <3> QED
        BY <2>3, <2>5, <3>3, <3>6
  <2>7. IsFiniteSet(O) /\ Cardinality(O) <= PerStart
    <3> DEFINE e == [l \in 1..Len(o) |-> o[l]]
    <3>1. e \in Surjection(1..Len(o), O)
        BY <2>3 DEF Surjection
    <3>2. IsFiniteSet(1..Len(o)) /\ Cardinality(1..Len(o)) = Len(o)
        BY <2>2, Numbers
    <3> HIDE DEF e, O, o
    <3>3. IsFiniteSet(O) /\ Cardinality(O) <= Len(o)
        BY <3>1, <3>2, FS_Surjection
    <3>4. Cardinality(O) \in Nat
        BY <3>3, FS_CardinalityType
    <3> QED
        BY <1>1, <2>2, <3>3, <3>4
  <2> HIDE DEF O, o, R
  <2>8. A \subseteq O
    BY <2>6
  <2>9. Cardinality(A) <= PerStart
    <3> HIDE DEF A
    <3>1. IsFiniteSet(A) /\ Cardinality(A) <= Cardinality(O)
        BY <2>7, <2>8, FS_Subset
    <3>2. Cardinality(A) \in Nat /\ Cardinality(O) \in Nat
        BY <2>7, <3>1, FS_CardinalityType
    <3> QED
        BY <1>1, <2>7, <3>1, <3>2
  <2>10. ASSUME NEW g \in R \ K, ~(Cardinality({h \in R : h[2] < g[2]}) >= PerStart)
         PROVE  Cardinality({h \in K : GainIn(signals, h) >= GainIn(signals, g)}) = Shortlisted
    <3>1. PICK l \in 1..Len(o) : o[l] = g
        BY <2>2, <2>10
    <3>2. PICK k \in 1..Cardinality(Starts) : Order[k] = s
        BY OrderIs
    <3>3. Lists[k] = o
        BY <2>5, <3>2 DEF o
    <3>4. PICK j \in 1..n : c[j] = g
        BY <1>2, <3>1, <3>3
    <3>5. PICK i \in 1..n : p[i] = j
        BY <1>3
    <3>6. i \notin 1..m
        BY <1>7, <2>10, <3>4, <3>5
    <3>7. m < i /\ m = Shortlisted
        BY <1>1, <1>5, <3>6
    <3>8. \A h \in K : GainIn(signals, h) >= GainIn(signals, g)
      <4> SUFFICES ASSUME NEW a \in 1..m
                   PROVE  GainIn(signals, c[p[a]]) >= GainIn(signals, g)
        BY <1>7
      <4>1. a \in 1..n /\ a < i
        BY <1>5, <3>7
      <4> QED
        BY <1>11, <3>4, <3>5, <4>1
    <3>9. {h \in K : GainIn(signals, h) >= GainIn(signals, g)} = K
        BY <3>8
    <3> QED
        BY <1>8, <3>7, <3>9
  <2> QED
    BY <2>1, <2>4, <2>8, <2>9, <2>10
<1>14. Best(signals, x)
    BY <1>6, <1>8, <1>12, <1>13, CardinalityAgrees DEF Best, K
<1> QED
    BY <1>14 DEF x, c

RankingInv == Signalled /\ (ranked => Best(signals, shortlist))

\* The shortlist is the best of what can be funded, within both limits (ShortlistBest).
THEOREM ShortlistsAreBest == MCSpec => []ShortlistBest
<1>1. MCInit => RankingInv
  <2> SUFFICES ASSUME MCInit
               PROVE  RankingInv
    OBVIOUS
  <2>1. /\ signals \in [Starts -> UNION {[1..n -> Ranking!Signals] : n \in 0..MaxSignals}]
        /\ ranked = FALSE
    BY DEF MCInit, Ranking!Init
  <2>2. \A n \in 0..MaxSignals : [1..n -> Ranking!Signals] \subseteq Seq(Ranking!Signals)
    BY ShortlistAssumption
  <2>3. UNION {[1..n -> Ranking!Signals] : n \in 0..MaxSignals} \subseteq Seq(Ranking!Signals)
    BY <2>2
  <2> QED
    BY <2>1, <2>3 DEF RankingInv, Signalled
<1>2. RankingInv /\ [MCNext]_all => RankingInv'
  <2> SUFFICES ASSUME RankingInv, [MCNext]_all
               PROVE  RankingInv'
    OBVIOUS
  <2>1. Ranking!MakeShortlist \/ UNCHANGED ranking
    BY DEF MCNext, all, ranking, Ranking!Next
  <2>2. CASE UNCHANGED ranking
    BY <2>2 DEF RankingInv, Signalled, ranking
  <2>3. CASE Ranking!MakeShortlist
    <3>1. /\ signals' = signals
          /\ shortlist' = Ranking!First(Ranking!Sorted(Ranking!Pending), Shortlisted)
        BY <2>3 DEF Ranking!MakeShortlist
    <3>2. Best(signals, Ranking!First(Ranking!Sorted(Ranking!Pending), Shortlisted))
        BY ShortlistIsBest DEF RankingInv
    <3> QED
        BY <3>1, <3>2 DEF RankingInv, Signalled
  <2> QED
    BY <2>1, <2>2, <2>3
<1>3. RankingInv => ShortlistBest
    BY DEF RankingInv, Best, Members, RivalsIn, GainIn, ShortlistBest, Ranking!ShortlistBest,
           Ranking!Kept, Ranking!Rivals, Ranking!Funded, Ranking!Gain
<1> QED
    BY <1>1, <1>2, <1>3, PTL DEF MCSpec
=============================================================================
