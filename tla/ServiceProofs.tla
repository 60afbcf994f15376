---------------------------- MODULE ServiceProofs ----------------------------
(* What the service keeps, for all values of the constants: the quote cache,  *)
(* the commissions and their requests, and the captures.                      *)
EXTENDS MCService, Sequences, FiniteSets, FiniteSetTheorems, TLAPS

-----------------------------------------------------------------------------
(* The instances count with an operator of their own.                         *)
LEMMA SameSize ==
    ASSUME NEW S
    PROVE  Commissions!Cardinality(S) = Cardinality(S) /\ Captures!Cardinality(S) = Cardinality(S)
BY DEF Commissions!Cardinality, Captures!Cardinality, Cardinality

-----------------------------------------------------------------------------
(* The quote cache.  What makes a late seed safe is that a request takes      *)
(* time: whatever was observed up to its stamp is no newer than its answer.   *)

Sources == {"none", "REST", "WS"}

Types ==
    /\ now \in 0..MaxTime /\ version \in [Symbols -> Versions]
    /\ overtaken \in [Symbols -> [Versions -> Nat]]
    /\ connected \in BOOLEAN /\ wire \subseteq Symbols \X Versions /\ closes \in 0..MaxCloses
    /\ shown \in [Symbols -> 0..MaxVersion] /\ seen \in [Symbols -> 0..MaxTime]
    /\ source \in [Symbols -> Sources] /\ mark \in [Symbols -> 0..MaxVersion]
    /\ rest \in {"idle", "asked", "answered"} /\ asked \in 0..now
    /\ content \in [Symbols -> 0..MaxVersion] /\ top \in [Symbols -> 0..MaxVersion]
    /\ \A s \in Symbols : source[s] = "none" <=> shown[s] = 0

\* Nothing is newer than the exchange, or observed in the future.
Bounded ==
    /\ \A s \in Symbols : seen[s] <= now /\ shown[s] <= version[s] /\ content[s] <= version[s]
    /\ \A u \in wire : u[2] <= version[u[1]]

\* The answer under way was given after its stamp, is newer than what was observed until
\* then, and was the exchange's quote some time after it.
InFlight ==
    rest = "answered" =>
        /\ asked < now
        /\ \A s \in Symbols : content[s] # 0 =>
              /\ seen[s] <= asked => shown[s] <= content[s]
              /\ content[s] = version[s] \/ overtaken[s][content[s]] >= asked

\* A REST quote was the exchange's quote some time after its stamp.
Honest ==
    \A s \in Symbols : source[s] = "REST" =>
        shown[s] = version[s] \/ overtaken[s][shown[s]] >= seen[s]

\* The update id of a symbol is the newest accepted, and its websocket quote is that one's.
Marked ==
    /\ mark = top /\ (wire # {} => connected)
    /\ \A s \in Symbols : source[s] = "WS" => connected /\ shown[s] = mark[s]

StreamInv == Types /\ Bounded /\ InFlight /\ Honest /\ Marked

-----------------------------------------------------------------------------
LEMMA StreamInit == Init => StreamInv
<1> SUFFICES ASSUME Init PROVE StreamInv
    OBVIOUS
<1> USE StreamAssumption DEF Init, Nowhere, Versions, Sources
<1>1. version \in [Symbols -> Versions] /\ overtaken \in [Symbols -> [Versions -> Nat]]
    OBVIOUS
<1>2. shown \in [Symbols -> 0..MaxVersion] /\ source \in [Symbols -> Sources]
    OBVIOUS
<1>3. seen \in [Symbols -> 0..MaxTime]
    OBVIOUS
<1>4. mark \in [Symbols -> 0..MaxVersion] /\ top \in [Symbols -> 0..MaxVersion]
      /\ content \in [Symbols -> 0..MaxVersion]
    OBVIOUS
<1>5. \A s \in Symbols : source[s] = "none" <=> shown[s] = 0
    OBVIOUS
<1>6. /\ now \in 0..MaxTime /\ connected \in BOOLEAN /\ wire \subseteq Symbols \X Versions
      /\ closes \in 0..MaxCloses /\ rest \in {"idle", "asked", "answered"} /\ asked \in 0..now
    <2>1. 0 \in 0..MaxTime /\ 0 \in 0..MaxCloses /\ 0 \in 0..0 OBVIOUS
    <2> QED BY <2>1
<1>7. Types BY <1>1, <1>2, <1>3, <1>4, <1>5, <1>6 DEF Types
<1>8. Bounded /\ InFlight /\ Honest /\ Marked
    BY DEF Bounded, InFlight, Honest, Marked
<1> QED BY <1>7, <1>8 DEF StreamInv

LEMMA TypesStep == Types /\ [Next]_vars => Types'
<1> SUFFICES ASSUME Types, [Next]_vars PROVE Types'
    OBVIOUS
<1> USE StreamAssumption DEF Types, exchange, link, quotes, request, Versions, Nowhere, Sources
<1>1. CASE Tick BY SMTT(30), <1>1 DEF Tick
<1>2. CASE Open BY <1>2 DEF Open
<1>3. CASE Close
    <2>1. shown' \in [Symbols -> 0..MaxVersion] /\ seen' \in [Symbols -> 0..MaxTime]
        BY <1>3 DEF Close
    <2>2. source' \in [Symbols -> Sources] BY <1>3 DEF Close
    <2>3. closes' \in 0..MaxCloses BY <1>3 DEF Close
    <2> QED BY <1>3, <2>1, <2>2, <2>3 DEF Close
<1>4. CASE Ask BY <1>4 DEF Ask
<1>5. CASE Answer
    <2>1. PICK S \in SUBSET Symbols :
            content' = [s \in Symbols |-> IF s \in S THEN version[s] ELSE 0]
        BY <1>5 DEF Answer
    <2>2. content' \in [Symbols -> 0..MaxVersion] BY <2>1
    <2> QED BY <1>5, <2>2 DEF Answer
<1>6. CASE Seed
    <2> DEFINE S == Usable \cap Replaceable(asked)
    <2>1. S \subseteq Symbols /\ \A s \in S : content[s] # 0 BY DEF Usable
    <2> HIDE DEF S
    <2>2. SeedWith(asked, S) BY <1>6 DEF Seed, S
    <2>3. shown' \in [Symbols -> 0..MaxVersion] BY <2>1, <2>2 DEF SeedWith
    <2>4. seen' \in [Symbols -> 0..MaxTime] BY <2>2 DEF SeedWith
    <2>5. source' \in [Symbols -> Sources] BY <2>2 DEF SeedWith
    <2>6. \A s \in Symbols : source'[s] = "none" <=> shown'[s] = 0
        BY <2>1, <2>2 DEF SeedWith
    <2> QED BY <2>2, <2>3, <2>4, <2>5, <2>6 DEF SeedWith
<1>7. CASE RequestFails BY <1>7 DEF RequestFails
<1>8. ASSUME NEW s \in Symbols, Trade(s) PROVE Types'
    <2>1. version' \in [Symbols -> Versions] BY SMTT(30), <1>8 DEF Trade
    <2>2. overtaken' \in [Symbols -> [Versions -> Nat]]
        <3>1. [overtaken[s] EXCEPT ![version[s]] = now] \in [Versions -> Nat]
            OBVIOUS
        <3>2. overtaken' = [overtaken EXCEPT ![s] = [overtaken[s] EXCEPT ![version[s]] = now]]
            BY <1>8 DEF Trade
        <3> QED BY <3>1, <3>2
    <2>3. wire' \subseteq Symbols \X Versions
        <3>1. wire' \subseteq wire \cup {<<s, version[s] + 1>>} BY <1>8 DEF Trade
        <3>2. version[s] + 1 \in Versions BY SMTT(30), <1>8 DEF Trade
        <3> QED BY SMTT(30), <3>1, <3>2
    <2> QED BY <1>8, <2>1, <2>2, <2>3 DEF Trade
<1>9. ASSUME NEW s \in Symbols, NEW v \in Versions, Message(s, v) PROVE Types'
    <2>1. wire' \subseteq wire BY <1>9 DEF Message, Accept
    <2>2. CASE UNCHANGED <<quotes, top>>
        BY <1>9, <2>1, <2>2 DEF Message, Accept
    <2>3. CASE Show(s, v, now, "WS") /\ mark' = [mark EXCEPT ![s] = v]
                 /\ top' = [top EXCEPT ![s] = IF v > @ THEN v ELSE @]
        <3>1. shown' \in [Symbols -> 0..MaxVersion] /\ mark' \in [Symbols -> 0..MaxVersion]
            BY <2>3 DEF Show
        <3>2. seen' \in [Symbols -> 0..MaxTime] /\ source' \in [Symbols -> Sources]
            BY <2>3 DEF Show
        <3>3. top' \in [Symbols -> 0..MaxVersion] BY <2>3
        <3>4. \A r \in Symbols : source'[r] = "none" <=> shown'[r] = 0
            BY <2>3 DEF Show
        <3> QED BY <1>9, <2>1, <3>1, <3>2, <3>3, <3>4 DEF Message, Accept
    <2> QED BY <1>9, <2>2, <2>3 DEF Message, Accept
<1>10. CASE UNCHANGED vars BY <1>10 DEF vars
<1> QED BY <1>1, <1>2, <1>3, <1>4, <1>5, <1>6, <1>7, <1>8, <1>9, <1>10 DEF Next

LEMMA MarkedStep == Types /\ Marked /\ [Next]_vars => Marked'
<1> SUFFICES ASSUME Types, Marked, [Next]_vars PROVE Marked'
    OBVIOUS
<1> USE DEF Types, Marked, exchange, link, quotes, request, Versions, Nowhere
<1>1. CASE Tick \/ Open \/ Close \/ Ask \/ Answer \/ RequestFails
    BY <1>1 DEF Tick, Open, Close, Ask, Answer, RequestFails
<1>2. CASE Seed BY <1>2 DEF Seed, SeedWith
<1>3. ASSUME NEW s \in Symbols, Trade(s) PROVE Marked' BY <1>3 DEF Trade
<1>4. ASSUME NEW s \in Symbols, NEW v \in Versions, Message(s, v) PROVE Marked'
    <2>1. connected BY <1>4 DEF Message, Accept
    <2>2. CASE v > mark[s]
        <3>1. mark' = [mark EXCEPT ![s] = v] /\ top' = [top EXCEPT ![s] = v]
            BY <1>4, <2>2 DEF Message, Accept
        <3> QED BY <1>4, <2>1, <2>2, <3>1 DEF Message, Accept, Show
    <2>3. CASE ~(v > mark[s]) BY <1>4, <2>1, <2>3 DEF Message, Accept
    <2> QED BY <2>2, <2>3
<1>5. CASE UNCHANGED vars BY <1>5 DEF vars
<1> QED BY <1>1, <1>2, <1>3, <1>4, <1>5 DEF Next

LEMMA BoundedStep == Types /\ Bounded /\ [Next]_vars => Bounded'
<1> SUFFICES ASSUME Types, Bounded, [Next]_vars PROVE Bounded'
    OBVIOUS
<1> USE DEF Types, Bounded, exchange, link, quotes, request, Versions, Nowhere
<1>1. CASE Tick BY <1>1 DEF Tick
<1>2. CASE Open \/ Ask \/ RequestFails BY <1>2 DEF Open, Ask, RequestFails
<1>3. CASE Close BY <1>3 DEF Close
<1>4. CASE Answer BY <1>4 DEF Answer
<1>5. CASE Seed BY <1>5 DEF Seed, SeedWith
<1>6. ASSUME NEW s \in Symbols, Trade(s) PROVE Bounded'
    <2>1. ASSUME NEW r \in Symbols
          PROVE  version[r] \in Nat /\ version'[r] \in Nat /\ version[r] <= version'[r]
        <3>1. version[r] \in Nat /\ version' = [version EXCEPT ![s] = @ + 1] BY <1>6 DEF Trade
        <3>2. CASE r = s BY <3>1, <3>2
        <3>3. CASE r # s BY <3>1, <3>3
        <3> QED BY <3>2, <3>3
    <2>2. ASSUME NEW u \in wire' PROVE u[2] <= version'[u[1]]
        <3>1. u \in wire \/ u = <<s, version[s] + 1>> BY <1>6 DEF Trade
        <3>2. CASE u \in wire
            <4>1. PICK r \in Symbols, w \in Versions : u = <<r, w>> BY <3>2
            <4>2. w <= version[r] /\ w \in Nat BY <3>2, <4>1
            <4>3. w <= version'[r] BY ONLY <2>1, <4>2
            <4> QED BY <4>1, <4>3
        <3>3. CASE u = <<s, version[s] + 1>>
            <4>1. version'[s] = version[s] + 1 /\ version[s] \in Nat BY <1>6 DEF Trade
            <4> QED BY <3>3, <4>1
        <3> QED BY <3>1, <3>2, <3>3
    <2>3. UNCHANGED <<now, seen, shown, content>> BY <1>6 DEF Trade
    <2>4. ASSUME NEW r \in Symbols
          PROVE  seen'[r] <= now' /\ shown'[r] <= version'[r] /\ content'[r] <= version'[r]
        <3>1. /\ seen[r] <= now /\ shown[r] <= version[r] /\ content[r] <= version[r]
              /\ shown[r] \in Nat /\ content[r] \in Nat /\ version[r] \in Nat
            OBVIOUS
        <3> QED BY SMTT(30), <2>1, <2>3, <3>1
    <2> QED BY <2>2, <2>4
<1>7. ASSUME NEW s \in Symbols, NEW v \in Versions, Message(s, v) PROVE Bounded'
    <2>1. v <= version[s] BY <1>7 DEF Message, Accept
    <2>2. wire' \subseteq wire /\ UNCHANGED <<now, version, content>> BY <1>7 DEF Message, Accept
    <2>3. CASE UNCHANGED <<quotes, top>> BY <2>2, <2>3
    <2>4. CASE Show(s, v, now, "WS") BY <2>1, <2>2, <2>4 DEF Show
    <2> QED BY <1>7, <2>3, <2>4 DEF Message, Accept
<1>8. CASE UNCHANGED vars BY <1>8 DEF vars
<1> QED BY <1>1, <1>2, <1>3, <1>4, <1>5, <1>6, <1>7, <1>8 DEF Next

LEMMA InFlightStep == Types /\ Bounded /\ InFlight /\ [Next]_vars => InFlight'
<1> SUFFICES ASSUME Types, Bounded, InFlight, [Next]_vars PROVE InFlight'
    OBVIOUS
<1> USE DEF Types, Bounded, InFlight, exchange, link, quotes, request, Versions, Nowhere
<1>1. CASE Tick BY <1>1 DEF Tick
<1>2. CASE Open \/ Ask \/ RequestFails BY <1>2 DEF Open, Ask, RequestFails
<1>3. CASE Close BY <1>3 DEF Close
<1>4. CASE Answer BY <1>4 DEF Answer
<1>5. CASE Seed BY <1>5 DEF Seed, SeedWith
<1>6. ASSUME NEW s \in Symbols, Trade(s), rest = "answered" PROVE InFlight'
    <2>1. UNCHANGED <<now, seen, shown, rest, asked, content>> BY <1>6 DEF Trade
    <2>2. ASSUME NEW r \in Symbols, content[r] # 0
          PROVE  content[r] = version'[r] \/ overtaken'[r][content[r]] >= asked
        <3>1. CASE r # s BY <1>6, <2>2, <3>1 DEF Trade
        <3>2. CASE r = s /\ content[r] = version[r]
            <4>1. overtaken'[r][content[r]] = now BY <1>6, <3>2 DEF Trade
            <4> QED BY <1>6, <4>1
        <3>3. CASE r = s /\ content[r] # version[r]
            <4>1. overtaken'[r][content[r]] = overtaken[r][content[r]]
                BY <1>6, <2>2, <3>3 DEF Trade
            <4> QED BY <1>6, <2>2, <3>3, <4>1
        <3> QED BY <3>1, <3>2, <3>3
    <2> QED BY <1>6, <2>1, <2>2
<1>7. ASSUME NEW s \in Symbols, NEW v \in Versions, Message(s, v) PROVE InFlight'
    <2>1. UNCHANGED <<now, version, overtaken, rest, asked, content>>
        BY <1>7 DEF Message, Accept
    <2>2. CASE UNCHANGED <<quotes, top>> BY <2>1, <2>2
    <2>3. CASE Show(s, v, now, "WS") BY SMTT(30), <2>1, <2>3 DEF Show
    <2> QED BY <1>7, <2>2, <2>3 DEF Message, Accept
<1>8. CASE UNCHANGED vars BY <1>8 DEF vars
<1> QED
    <2>1. ASSUME NEW s \in Symbols, Trade(s), rest # "answered" PROVE InFlight'
        BY <2>1 DEF Trade
    <2> QED BY <1>1, <1>2, <1>3, <1>4, <1>5, <1>6, <1>7, <1>8, <2>1 DEF Next

LEMMA HonestStep == Types /\ Bounded /\ InFlight /\ Honest /\ [Next]_vars => Honest'
<1> SUFFICES ASSUME Types, Bounded, InFlight, Honest, [Next]_vars PROVE Honest'
    OBVIOUS
<1> USE DEF Types, Bounded, Honest, exchange, link, quotes, request, Versions, Nowhere
<1>1. CASE Tick \/ Open \/ Ask \/ Answer \/ RequestFails
    BY <1>1 DEF Tick, Open, Ask, Answer, RequestFails
<1>2. CASE Close BY <1>2 DEF Close
<1>3. CASE Seed BY <1>3 DEF Seed, SeedWith, Usable, InFlight
<1>4. ASSUME NEW s \in Symbols, Trade(s) PROVE Honest'
    <2>1. UNCHANGED <<seen, shown, source>> BY <1>4 DEF Trade
    <2>2. ASSUME NEW r \in Symbols, source[r] = "REST"
          PROVE  shown[r] = version'[r] \/ overtaken'[r][shown[r]] >= seen[r]
        <3>1. CASE r # s BY <1>4, <2>2, <3>1 DEF Trade
        <3>2. CASE r = s /\ shown[r] = version[r]
            <4>1. overtaken'[r][shown[r]] = now BY <1>4, <3>2 DEF Trade
            <4> QED BY <4>1
        <3>3. CASE r = s /\ shown[r] # version[r]
            <4>1. overtaken'[r][shown[r]] = overtaken[r][shown[r]]
                BY <1>4, <2>2, <3>3 DEF Trade
            <4> QED BY <2>2, <3>3, <4>1
        <3> QED BY <3>1, <3>2, <3>3
    <2> QED BY <2>1, <2>2
<1>5. ASSUME NEW s \in Symbols, NEW v \in Versions, Message(s, v) PROVE Honest'
    <2>1. UNCHANGED <<version, overtaken>> BY <1>5 DEF Message, Accept
    <2>2. CASE UNCHANGED <<quotes, top>> BY <2>1, <2>2
    <2>3. CASE Show(s, v, now, "WS") BY <2>1, <2>3 DEF Show
    <2> QED BY <1>5, <2>2, <2>3 DEF Message, Accept
<1>6. CASE UNCHANGED vars BY <1>6 DEF vars
<1> QED BY <1>1, <1>2, <1>3, <1>4, <1>5, <1>6 DEF Next

-----------------------------------------------------------------------------
\* The inductive invariant of the cache.
THEOREM StreamHolds == Spec => []StreamInv
<1>1. StreamInv /\ [Next]_vars => StreamInv'
    BY TypesStep, BoundedStep, InFlightStep, HonestStep, MarkedStep DEF StreamInv
<1> QED BY StreamInit, <1>1, PTL DEF Spec

\* A REST quote in a snapshot was the exchange's at some time in the last MaxAge
\* (market_stream.py:41), for all constants.
THEOREM SnapshotsAreHonest == Spec => []SnapshotHonest
<1>1. StreamInv => SnapshotHonest
    BY SMTT(30), StreamAssumption DEF StreamInv, Types, Honest, SnapshotHonest, Snapshot, Versions
<1> QED BY StreamHolds, <1>1, PTL

\* A websocket quote is the newest update of the connection (market_stream.py:128), for
\* all constants.
THEOREM WebsocketQuotesAreNewest == Spec => []WatermarkHolds
<1>1. StreamInv => WatermarkHolds BY DEF StreamInv, Marked, WatermarkHolds
<1> QED BY StreamHolds, <1>1, PTL

\* A REST answer seeded late replaces no quote by an older one (market_stream.py:41), for
\* all constants.
THEOREM SeedsNeverRegress == Spec => SeedNeverRegresses
<1> DEFINE Keeps == rest = "answered" /\ rest' = "idle" => \A s \in Symbols : shown[s] <= shown'[s]
<1>1. ASSUME StreamInv, [Next]_vars, rest = "answered", rest' = "idle"
      PROVE  \A s \in Symbols : shown[s] <= shown'[s]
    <2>1. Seed \/ RequestFails
        BY <1>1 DEF Next, Tick, Open, Close, Ask, Answer, Trade, Message, Accept, vars,
                    exchange, link, quotes, request
    <2>2. Seed BY <1>1, <2>1 DEF RequestFails
    <2> QED BY <1>1, <2>2 DEF Seed, SeedWith, Usable, Replaceable, StreamInv, Types, InFlight
<1>2. StreamInv /\ [Next]_vars => [Keeps]_vars BY <1>1
<1> QED BY StreamHolds, <1>2, PTL DEF Spec, SeedNeverRegresses

-----------------------------------------------------------------------------
(* The commissions.  Requests of less than a minute ago are still counted,    *)
(* so whatever minute a new one falls into, it finds the others there.        *)

\* Rates in force at some time since t.
Since(r, t) == r \in 1..rates /\ (r = rates \/ replaced[r] >= t)

FeeTypes ==
    /\ bnow \in Nat /\ rates \in 1..MaxRates /\ replaced \in [1..MaxRates -> Nat]
    /\ cache \in [FeeSymbols -> [rates : 0..MaxRates, at : Nat]]
    /\ bmade \in Seq(Nat) /\ basked \in Nat /\ basked <= bnow

\* The requests of the last minute are remembered, and no minute has too many.
Counted ==
    /\ requests \subseteq DOMAIN bmade /\ \A i \in DOMAIN bmade : bmade[i] <= bnow
    /\ \A i \in DOMAIN bmade : bnow - bmade[i] < Minute => i \in requests
    /\ \A t \in Nat : Cardinality(Commissions!MadeIn(t)) <= Limit

\* What is cached was in force some time after its stamp.
Fresh ==
    \A s \in FeeSymbols :
        cache[s].at <= bnow /\ (cache[s].rates # 0 => Since(cache[s].rates, cache[s].at))

BudgetInv == FeeTypes /\ Counted /\ Fresh /\ RatesInForce

\* The requests of a minute, of a history m.
Within(m, from) == {i \in DOMAIN m : from <= m[i] /\ m[i] < from + Minute}

LEMMA MadeWithin == \A t : Commissions!MadeIn(t) = Within(bmade, t)
BY DEF Commissions!MadeIn, Within

LEMMA NoneWithin == \A t : Within(<<>>, t) = {} /\ Cardinality({}) = 0
BY FS_EmptySet DEF Within

LEMMA Appended ==
    ASSUME NEW m \in Seq(Nat), NEW e \in Nat
    PROVE  /\ Append(m, e) \in Seq(Nat) /\ Len(m) \in Nat /\ DOMAIN m = 1..Len(m)
           /\ DOMAIN Append(m, e) = 1..(Len(m) + 1) /\ Append(m, e)[Len(m) + 1] = e
           /\ \A i \in 1..Len(m) : Append(m, e)[i] = m[i] /\ m[i] \in Nat
OBVIOUS

\* A request finds those of the minutes it falls into among the recent ones.
LEMMA AnotherRequest ==
    ASSUME NEW m \in Seq(Nat), NEW e \in Nat, NEW t \in Nat, NEW R \in SUBSET DOMAIN m,
           Cardinality(R) < Limit, Cardinality(Within(m, t)) <= Limit,
           \A i \in DOMAIN m : m[i] <= e /\ (e - m[i] < Minute => i \in R)
    PROVE  Cardinality(Within(Append(m, e), t)) <= Limit
<1> DEFINE W == Within(Append(m, e), t)
           S == R \cup {Len(m) + 1}
<1>1. Minute \in Nat /\ Limit \in Nat BY ServiceAssumption
<1>2. CASE ~(t <= e /\ e < t + Minute)
    <2>1. W = Within(m, t) BY <1>1, <1>2, Appended DEF Within
    <2> QED BY <2>1
<1>3. CASE t <= e /\ e < t + Minute
    <2>1. ASSUME NEW i \in 1..Len(m), t <= m[i] PROVE i \in R
        <3>1. m[i] \in Nat /\ i \in DOMAIN m BY Appended
        <3>2. e - m[i] < Minute BY <1>1, <1>3, <2>1, <3>1
        <3> QED BY <3>1, <3>2
    <2>2. W \subseteq S
        <3>1. ASSUME NEW i \in W PROVE i \in S
            <4>1. i \in 1..(Len(m) + 1) /\ t <= Append(m, e)[i] BY Appended DEF Within
            <4>2. CASE i = Len(m) + 1 BY <4>2
            <4>3. CASE i \in 1..Len(m)
                <5>1. t <= m[i] BY <4>1, <4>3, Appended
                <5> QED BY <2>1, <4>3, <5>1
            <4> QED BY <4>1, <4>2, <4>3, Appended
        <3> QED BY <3>1
    <2>3. IsFiniteSet(R) /\ Cardinality(R) \in Nat
        <3>1. IsFiniteSet(DOMAIN m) BY Appended, FS_Interval
        <3> QED BY <3>1, FS_Subset, FS_CardinalityType
    <2>4. IsFiniteSet(S) /\ Cardinality(S) \in Nat /\ Cardinality(S) <= Limit
        <3>1. /\ IsFiniteSet(S)
              /\ Cardinality(S) = IF Len(m) + 1 \in R THEN Cardinality(R) ELSE Cardinality(R) + 1
            BY <2>3, FS_AddElement
        <3> QED BY <1>1, <2>3, <3>1
    <2>5. IsFiniteSet(W) /\ Cardinality(W) <= Cardinality(S) BY <2>2, <2>4, FS_Subset
    <2>6. Cardinality(W) \in Nat BY <2>5, FS_CardinalityType
    <2> QED BY <1>1, <2>4, <2>5, <2>6
<1> QED BY <1>2, <1>3

LEMMA BudgetInit == Commissions!Init => BudgetInv
<1> SUFFICES ASSUME Commissions!Init PROVE BudgetInv
    OBVIOUS
<1> USE ServiceAssumption DEF Commissions!Init, Commissions!Empty
<1>1. FeeTypes BY DEF FeeTypes
<1>2. bmade = <<>> /\ requests = {} /\ DOMAIN bmade = {} OBVIOUS
<1>3. Counted
    <2>1. \A t \in Nat : Cardinality(Commissions!MadeIn(t)) = 0 BY <1>2, MadeWithin, NoneWithin
    <2>2. Limit \in Nat OBVIOUS
    <2> QED BY <1>2, <2>1, <2>2 DEF Counted
<1>4. Fresh /\ RatesInForce BY DEF Fresh, RatesInForce, Commissions!RatesInForce
<1> QED BY <1>1, <1>3, <1>4 DEF BudgetInv

LEMMA FeeTypesStep == ASSUME BudgetInv, [Commissions!Next]_Commissions!vars PROVE FeeTypes'
<1> USE ServiceAssumption DEF BudgetInv, FeeTypes
<1>1. CASE Commissions!Tick BY <1>1 DEF Commissions!Tick
<1>2. CASE Commissions!Change BY <1>2 DEF Commissions!Change
<1>3. CASE Commissions!Answer
    <2>1. given' \in 1..rates /\ given' \in 0..MaxRates
        BY <1>3 DEF Commissions!Answer, Commissions!Keep
    <2>2. cache' = [cache EXCEPT ![waiting] = [rates |-> given', at |-> basked]]
        BY <1>3 DEF Commissions!Answer, Commissions!Keep
    <2>3. [rates |-> given', at |-> basked] \in [rates : 0..MaxRates, at : Nat] BY <2>1
    <2> QED BY <1>3, <2>2, <2>3 DEF Commissions!Answer, Commissions!Keep
<1>4. CASE Commissions!Fail BY <1>4 DEF Commissions!Fail
<1>5. CASE Commissions!Restart BY <1>5 DEF Commissions!Restart, Commissions!Empty
<1>6. ASSUME NEW s \in FeeSymbols,
             Commissions!FromCache(s) \/ Commissions!Defer(s) \/ Commissions!Ask(s)
      PROVE  FeeTypes'
    <2>1. /\ UNCHANGED <<bnow, rates, replaced, cache>>
          /\ bmade' = bmade \/ bmade' = Append(bmade, bnow)
          /\ basked' = basked \/ basked' = bnow
        BY <1>6 DEF Commissions!FromCache, Commissions!Defer, Commissions!Ask, Commissions!Send
    <2>2. bmade' \in Seq(Nat) BY ZenonT(30), <2>1, Appended
    <2>3. basked' \in Nat /\ basked' <= bnow' BY SMTT(30), <2>1
    <2>4. bnow' \in Nat BY <2>1
    <2> QED BY <2>1, <2>2, <2>3, <2>4
<1>7. CASE UNCHANGED Commissions!vars BY <1>7 DEF Commissions!vars
<1> QED BY <1>1, <1>2, <1>3, <1>4, <1>5, <1>6, <1>7 DEF Commissions!Next

LEMMA AskKeepsCount == ASSUME BudgetInv, NEW s \in FeeSymbols, Commissions!Ask(s) PROVE Counted'
<1>1. /\ requests' = Commissions!Recent \cup {Len(bmade) + 1} /\ bmade' = Append(bmade, bnow)
      /\ bnow' = bnow /\ Cardinality(Commissions!Recent) < Limit
    BY SameSize DEF Commissions!Ask, Commissions!Send
<1>2. bmade \in Seq(Nat) /\ bnow \in Nat BY DEF BudgetInv, FeeTypes
<1>3. /\ Commissions!Recent \in SUBSET DOMAIN bmade
      /\ \A i \in DOMAIN bmade :
            bmade[i] <= bnow /\ (bnow - bmade[i] < Minute => i \in Commissions!Recent)
    BY DEF BudgetInv, Counted, Commissions!Recent
<1>4. ASSUME NEW t \in Nat PROVE Cardinality(Commissions!MadeIn(t)') <= Limit
    <2>1. Cardinality(Within(bmade, t)) <= Limit BY MadeWithin DEF BudgetInv, Counted
    <2>2. Cardinality(Within(Append(bmade, bnow), t)) <= Limit
        BY <1>1, <1>2, <1>3, <2>1, AnotherRequest
    <2>3. Commissions!MadeIn(t)' = Within(bmade', t) BY DEF Commissions!MadeIn, Within
    <2> QED BY <1>1, <2>2, <2>3
<1>5. requests' \subseteq DOMAIN bmade'
    BY <1>1, <1>2, <1>3, Appended
<1>6. ASSUME NEW i \in DOMAIN bmade'
      PROVE  bmade'[i] <= bnow /\ (bnow - bmade'[i] < Minute => i \in requests')
    <2>1. CASE i \in DOMAIN bmade BY <1>1, <1>2, <1>3, <2>1, Appended
    <2>2. CASE i = Len(bmade) + 1
        <3>1. bmade'[i] = bnow /\ i \in requests' BY <1>1, <1>2, <2>2, Appended
        <3> QED BY <1>2, <3>1
    <2>3. i \in DOMAIN bmade \/ i = Len(bmade) + 1 BY <1>1, <1>2, Appended
    <2> QED BY <2>1, <2>2, <2>3
<1> QED BY <1>1, <1>4, <1>5, <1>6 DEF Counted

LEMMA CountedStep == ASSUME BudgetInv, [Commissions!Next]_Commissions!vars PROVE Counted'
<1> USE ServiceAssumption
    DEF BudgetInv, FeeTypes, Counted
<1>1. CASE Commissions!Tick
    <2>1. bnow' = bnow + 1 /\ UNCHANGED <<requests, bmade>> BY <1>1 DEF Commissions!Tick
    <2>2. PICK x \in Nat : x = bnow' /\ x = bnow + 1 BY <2>1
    <2>3. ASSUME NEW i \in DOMAIN bmade
          PROVE  bmade[i] <= x /\ (x - bmade[i] < Minute => i \in requests)
        <3>1. bmade[i] \in Nat /\ bmade[i] <= bnow BY Appended
        <3>2. x - bmade[i] < Minute => bnow - bmade[i] < Minute BY SMTT(30), <2>2, <3>1
        <3> QED BY SMTT(30), <2>2, <3>1, <3>2
    <2>4. \A t : Commissions!MadeIn(t)' = Commissions!MadeIn(t) BY <2>1 DEF Commissions!MadeIn
    <2> QED BY <2>1, <2>2, <2>3, <2>4
<1>2. CASE Commissions!Change \/ Commissions!Answer \/ Commissions!Fail
    BY <1>2 DEF Commissions!Change, Commissions!Answer, Commissions!Keep, Commissions!Fail,
                Commissions!MadeIn
<1>3. CASE Commissions!Restart
    <2>1. bmade' = <<>> /\ requests' = {} /\ bnow' = bnow BY <1>3 DEF Commissions!Restart
    <2>2. \A t : Commissions!MadeIn(t)' = {} BY <2>1 DEF Commissions!MadeIn
    <2>3. DOMAIN bmade' = {} BY <2>1
    <2>4. \A t \in Nat : Cardinality(Commissions!MadeIn(t)') <= Limit
        <3>1. 0 <= Limit /\ Cardinality({}) = 0 BY NoneWithin
        <3> QED BY <2>2, <3>1
    <2> QED BY <2>1, <2>3, <2>4
<1>4. ASSUME NEW s \in FeeSymbols, Commissions!FromCache(s) \/ Commissions!Defer(s)
      PROVE  Counted'
    BY <1>4 DEF Commissions!FromCache, Commissions!Defer, Commissions!Recent, Commissions!MadeIn
<1>5. CASE UNCHANGED Commissions!vars BY <1>5 DEF Commissions!vars, Commissions!MadeIn
<1> QED BY <1>1, <1>2, <1>3, <1>4, <1>5, AskKeepsCount DEF Commissions!Next

LEMMA FreshStep ==
    ASSUME BudgetInv, [Commissions!Next]_Commissions!vars PROVE Fresh' /\ RatesInForce'
<1> USE ServiceAssumption
    DEF BudgetInv, FeeTypes, Fresh, RatesInForce, Commissions!RatesInForce, Since
<1>1. CASE Commissions!Tick BY <1>1 DEF Commissions!Tick
<1>2. CASE Commissions!Change
    <2>1. /\ rates < MaxRates /\ rates' = rates + 1 /\ UNCHANGED cache /\ answer' = "none"
          /\ replaced' = [replaced EXCEPT ![rates] = bnow] /\ bnow' = bnow
        BY <1>2 DEF Commissions!Change
    <2>2. ASSUME NEW s \in FeeSymbols, cache[s].rates # 0
          PROVE  Since(cache[s].rates, cache[s].at)'
        <3> DEFINE r == cache[s].rates
        <3>1. r \in 1..rates /\ (r = rates \/ replaced[r] >= cache[s].at) BY <2>2
        <3>2. r \in 1..rates' BY <2>1, <3>1
        <3>3. CASE r = rates
            <4>1. replaced'[r] = bnow /\ cache[s].at <= bnow BY <2>1, <3>3
            <4> QED BY <2>1, <3>2, <4>1
        <3>4. CASE r # rates
            <4>1. replaced'[r] = replaced[r] BY <2>1, <3>1, <3>4
            <4> QED BY <2>1, <3>1, <3>2, <3>4, <4>1
        <3> QED BY <3>3, <3>4
    <2> QED BY <2>1, <2>2
<1>3. CASE Commissions!Answer
    <2>1. Since(given', basked) /\ answer' = "rates" /\ bnow - basked < Minute
          /\ UNCHANGED <<rates, replaced, bnow>>
        BY <1>3 DEF Commissions!Answer, Commissions!Keep
    <2>2. cache' = [cache EXCEPT ![waiting] = [rates |-> given', at |-> basked]]
        BY <1>3 DEF Commissions!Answer, Commissions!Keep
    <2>3. Fresh' BY <2>1, <2>2
    <2>4. PICK r \in 1..rates : r = given' /\ (r = rates \/ replaced[r] >= basked) BY <2>1
    <2>5. r = rates \/ replaced[r] + Minute > bnow BY SMTT(30), <2>1, <2>4
    <2> QED BY <2>1, <2>3, <2>4, <2>5
<1>4. CASE Commissions!Fail BY <1>4 DEF Commissions!Fail
<1>5. CASE Commissions!Restart BY <1>5 DEF Commissions!Restart, Commissions!Empty
<1>6. ASSUME NEW s \in FeeSymbols,
             Commissions!FromCache(s) \/ Commissions!Defer(s) \/ Commissions!Ask(s)
      PROVE  Fresh' /\ RatesInForce'
    <2>1. UNCHANGED <<bnow, rates, replaced, cache>>
        BY <1>6 DEF Commissions!FromCache, Commissions!Defer, Commissions!Ask, Commissions!Send
    <2>2. Fresh' BY <2>1
    <2>3. CASE Commissions!FromCache(s)
        <3>1. /\ cache[s].rates # 0 /\ bnow - cache[s].at < Minute /\ given' = cache[s].rates
            BY <2>3 DEF Commissions!FromCache, Commissions!Cached
        <3>2. PICK r \in 1..rates : r = given' /\ (r = rates \/ replaced[r] >= cache[s].at)
            BY <3>1
        <3>3. PICK x \in Nat, y \in Nat : x = cache[s].at /\ y = replaced[r]
            <4>1. r \in 1..MaxRates OBVIOUS
            <4>2. replaced[r] \in Nat BY <4>1
            <4>3. cache[s].at \in Nat OBVIOUS
            <4> QED BY <4>2, <4>3
        <3>4. r = rates \/ y >= x BY <3>2, <3>3
        <3>5. bnow - x < Minute /\ Minute \in Nat /\ bnow \in Nat BY <3>1, <3>3
        <3>6. r = rates \/ y + Minute > bnow BY ONLY x \in Nat, y \in Nat, <3>4, <3>5
        <3>7. r = rates \/ replaced[r] + Minute > bnow BY <3>3, <3>6
        <3> QED BY <2>1, <2>2, <3>2, <3>7
    <2>4. CASE Commissions!Defer(s) \/ Commissions!Ask(s)
        BY <2>2, <2>4 DEF Commissions!Defer, Commissions!Ask, Commissions!Send
    <2> QED BY <1>6, <2>3, <2>4
<1>7. CASE UNCHANGED Commissions!vars BY <1>7 DEF Commissions!vars
<1> QED BY <1>1, <1>2, <1>3, <1>4, <1>5, <1>6, <1>7 DEF Commissions!Next

\* The composition moves the commissions as their module says.
LEMMA CommissionsMove == MCSpec => Commissions!Spec
<1>1. UNCHANGED budget => UNCHANGED Commissions!vars BY DEF budget, Commissions!vars
<1>2. [MCNext]_all => [Commissions!Next]_Commissions!vars BY <1>1 DEF MCNext, all
<1> QED BY <1>2, PTL DEF MCSpec, MCInit, Commissions!Spec

THEOREM BudgetHolds == Commissions!Spec => []BudgetInv
<1>1. BudgetInv /\ [Commissions!Next]_Commissions!vars => BudgetInv'
    BY FeeTypesStep, CountedStep, FreshStep DEF BudgetInv
<1> QED BY BudgetInit, <1>1, PTL DEF Commissions!Spec

\* In no minute, wherever it begins, does a process make more requests than the limit
\* (client.py, commission_rates; README.md:25).
THEOREM RequestsKeepToTheBudget == MCSpec => []RequestsWithinBudget
<1>1. BudgetInv => RequestsWithinBudget
    BY ServiceAssumption, SameSize DEF BudgetInv, Counted, RequestsWithinBudget,
       Commissions!RequestsWithinBudget
<1> QED BY <1>1, CommissionsMove, BudgetHolds, PTL

\* The rates a call returns were in force in the minute before (client.py,
\* commission_rates; README.md:25).
THEOREM RatesAreInForce == MCSpec => []RatesInForce
<1>1. BudgetInv => RatesInForce BY DEF BudgetInv
<1> QED BY <1>1, CommissionsMove, BudgetHolds, PTL

-----------------------------------------------------------------------------
(* The captures.  What is renamed is what room was made for.                  *)

Files == [id : Nat, at : Nat, size : Nat]

\* Files within both caps.
Fits(S) ==
    /\ IsFiniteSet(S) /\ Cardinality(S) <= MaxFiles
    /\ IsFiniteSet(Captures!Contents(S)) /\ Captures!Bytes(S) <= MaxBytes

CaptureTypes ==
    /\ cnow \in Nat /\ cmade \in Nat /\ size \in Nat
    /\ files \subseteq Files /\ temporary \subseteq Files

\* The file being written is of the capture at hand, and of its size.
InTurn ==
    /\ \A f \in temporary : f.id <= cmade
    /\ cpc \in {"clean", "room"} => \A f \in temporary : f.id # cmade
    /\ cpc = "rename" => \E t \in Nat : Captures!Written = {[id |-> cmade, at |-> t, size |-> size]}
    /\ cpc # "idle" => size <= MaxFileBytes

\* There is room for it.
RoomFor(S, n) == Cardinality(S) < MaxFiles /\ Captures!Bytes(S) + n <= MaxBytes
RoomMade == cpc = "rename" => RoomFor(files, size)

CaptureInv == CaptureTypes /\ InTurn /\ RoomMade /\ Fits(files)

LEMMA BytesAre == ASSUME NEW S PROVE Captures!Bytes(S) = Cardinality(Captures!Contents(S))
BY SameSize DEF Captures!Bytes

LEMMA CapsAre ==
    /\ MaxFiles \in Nat /\ MaxFiles >= 1 /\ MaxBytes \in Nat /\ MaxFileBytes \in Nat
    /\ MaxFileBytes <= MaxBytes /\ Sizes \subseteq Nat
BY ServiceAssumption

LEMMA NoFiles == Cardinality({}) = 0 /\ Captures!Bytes({}) = 0 /\ Fits({})
<1>1. Captures!Contents({}) = {} BY DEF Captures!Contents
<1>2. Cardinality({}) = 0 /\ Captures!Bytes({}) = 0 BY <1>1, BytesAre, FS_EmptySet
<1> QED BY <1>1, <1>2, CapsAre, FS_EmptySet DEF Fits

LEMMA FewerFit == ASSUME NEW S, NEW T \in SUBSET S, Fits(S) PROVE Fits(T)
<1>1. Captures!Contents(T) \in SUBSET Captures!Contents(S) BY DEF Captures!Contents
<1>2. IsFiniteSet(T) /\ Cardinality(T) <= Cardinality(S) BY FS_Subset DEF Fits
<1>3. /\ IsFiniteSet(Captures!Contents(T))
      /\ Cardinality(Captures!Contents(T)) <= Cardinality(Captures!Contents(S))
    BY <1>1, FS_Subset DEF Fits
<1>4. /\ Cardinality(S) \in Nat /\ Cardinality(T) \in Nat
      /\ Cardinality(Captures!Contents(S)) \in Nat /\ Cardinality(Captures!Contents(T)) \in Nat
    BY <1>2, <1>3, FS_CardinalityType DEF Fits
<1> QED BY <1>2, <1>3, <1>4, BytesAre, CapsAre DEF Fits

LEMMA OneMoreFits ==
    ASSUME NEW S, NEW f \in Files, Fits(S), RoomFor(S, f.size)
    PROVE  Fits(S \cup {f})
<1> DEFINE C == Captures!Contents(S)
           B == {f} \X (1..f.size)
<1>1. Captures!Contents(S \cup {f}) = C \cup B BY DEF Captures!Contents
<1>2. f.size \in Nat BY DEF Files
<1>3. IsFiniteSet(B) /\ Cardinality(B) = f.size
    <2>1. IsFiniteSet(1..f.size) /\ Cardinality(1..f.size) = f.size BY <1>2, FS_Interval
    <2>2. IsFiniteSet({f}) /\ Cardinality({f}) = 1 BY FS_Singleton
    <2>3. IsFiniteSet(B) /\ Cardinality(B) = Cardinality({f}) * Cardinality(1..f.size)
        BY <2>1, <2>2, FS_Product
    <2>4. Cardinality(B) = 1 * f.size BY <2>1, <2>2, <2>3
    <2> QED BY <1>2, <2>3, <2>4
<1>4. IsFiniteSet(S) /\ IsFiniteSet(C) /\ Cardinality(S) \in Nat /\ Cardinality(C) \in Nat
    BY FS_CardinalityType DEF Fits
<1>5. IsFiniteSet(C \cup B) /\ Cardinality(C \cup B) <= Cardinality(C) + f.size
    <2>1. /\ IsFiniteSet(C \cup B)
          /\ Cardinality(C \cup B) = Cardinality(C) + Cardinality(B) - Cardinality(C \cap B)
        BY <1>3, <1>4, FS_Union
    <2>2. Cardinality(C \cap B) \in Nat BY <1>4, FS_Intersection, FS_CardinalityType
    <2> QED BY <1>2, <1>3, <1>4, <2>1, <2>2
<1>6. IsFiniteSet(S \cup {f}) /\ Cardinality(S \cup {f}) <= Cardinality(S) + 1
    <2>1. IsFiniteSet(S \cup {f}) BY <1>4, FS_AddElement
    <2>2. Cardinality(S \cup {f}) \in {Cardinality(S), Cardinality(S) + 1}
        BY <1>4, FS_AddElement
    <2> QED BY <1>4, <2>1, <2>2
<1>7. Cardinality(S) + 1 <= MaxFiles /\ Cardinality(C) + f.size <= MaxBytes
    BY <1>4, BytesAre, CapsAre DEF RoomFor
<1>8. Cardinality(S \cup {f}) \in Nat /\ Cardinality(C \cup B) \in Nat
    BY <1>5, <1>6, FS_CardinalityType
<1>9. Cardinality(S \cup {f}) <= MaxFiles BY <1>4, <1>6, <1>7, <1>8, CapsAre
<1>10. Cardinality(C \cup B) <= MaxBytes BY <1>2, <1>4, <1>5, <1>7, <1>8, CapsAre
<1> QED BY <1>1, <1>5, <1>6, <1>9, <1>10, BytesAre DEF Fits

LEMMA CaptureInit == Captures!Init => CaptureInv
BY NoFiles DEF Captures!Init, CaptureInv, CaptureTypes, InTurn, RoomMade

\* Fewer files, and no rename at hand.
LEMMA FilesGo ==
    ASSUME CaptureInv, files' \subseteq files, temporary' \subseteq temporary,
           cpc' \in {cpc, "idle", "room"} \ {"rename"}, cpc' # "room" \/ cpc \in {"clean", "room"},
           cnow' \in Nat, UNCHANGED <<cmade, size>>
    PROVE  CaptureInv'
<1>1. Fits(files)' BY FewerFit DEF CaptureInv, Fits, Captures!Bytes, Captures!Contents
<1>2. CaptureTypes' BY DEF CaptureInv, CaptureTypes
<1>3. InTurn' BY DEF CaptureInv, InTurn
<1> QED BY <1>1, <1>2, <1>3 DEF CaptureInv, RoomMade

LEMMA WriteFindsRoom == ASSUME CaptureInv, Captures!Write PROVE CaptureInv'
<1> DEFINE new == [id |-> cmade, at |-> cnow, size |-> size]
<1>1. /\ cpc = "room" /\ cpc' = "rename" /\ temporary' = temporary \cup {new}
      /\ UNCHANGED <<cnow, files, cmade, size>>
    BY DEF Captures!Write
<1>2. RoomFor(files, size)
    <2>1. size \in Nat /\ size <= MaxFileBytes BY <1>1 DEF CaptureInv, CaptureTypes, InTurn
    <2>2. CASE files = {} BY <2>1, <2>2, NoFiles, CapsAre DEF RoomFor
    <2>3. CASE files # {}
        <3>1. ~(Cardinality(files) >= MaxFiles) /\ ~(Captures!Bytes(files) + size > MaxBytes)
            BY <2>3, SameSize DEF Captures!Write, Captures!Full
        <3>2. Cardinality(files) \in Nat /\ Captures!Bytes(files) \in Nat
            BY BytesAre, FS_CardinalityType DEF CaptureInv, Fits
        <3> QED BY <2>1, <3>1, <3>2, CapsAre DEF RoomFor
    <2> QED BY <2>2, <2>3
<1>3. new \in Files BY DEF CaptureInv, CaptureTypes, Files
<1>4. CaptureTypes' BY <1>1, <1>3 DEF CaptureInv, CaptureTypes
<1>5. InTurn'
    <2>1. Captures!Written' = {new} BY <1>1 DEF CaptureInv, InTurn, Captures!Written
    <2>2. \A f \in temporary' : f.id <= cmade'
        BY <1>1 DEF CaptureInv, CaptureTypes, InTurn
    <2> QED BY <1>1, <2>1, <2>2 DEF CaptureInv, CaptureTypes, InTurn
<1>6. RoomMade' BY <1>1, <1>2 DEF RoomMade, RoomFor, Captures!Bytes, Captures!Contents
<1>7. Fits(files)' BY <1>1 DEF CaptureInv, Fits, Captures!Bytes, Captures!Contents
<1> QED BY <1>4, <1>5, <1>6, <1>7 DEF CaptureInv

LEMMA RenameFits == ASSUME CaptureInv, Captures!Rename PROVE CaptureInv'
<1>1. /\ cpc = "rename" /\ cpc' = "idle" /\ UNCHANGED <<cnow, cmade, size>>
      /\ files' = files \cup Captures!Written /\ temporary' = temporary \ Captures!Written
    BY DEF Captures!Rename
<1>2. PICK t \in Nat : Captures!Written = {[id |-> cmade, at |-> t, size |-> size]}
    BY <1>1 DEF CaptureInv, InTurn
<1> DEFINE new == [id |-> cmade, at |-> t, size |-> size]
<1>3. new \in Files /\ new.size = size BY DEF CaptureInv, CaptureTypes, Files
<1>4. RoomFor(files, new.size) BY <1>1, <1>3 DEF CaptureInv, RoomMade
<1>5. Fits(files \cup {new}) BY <1>3, <1>4, OneMoreFits DEF CaptureInv
<1>6. Fits(files)' BY <1>1, <1>2, <1>5 DEF Fits, Captures!Bytes, Captures!Contents
<1>7. CaptureTypes' BY <1>1, <1>2, <1>3 DEF CaptureInv, CaptureTypes
<1>8. InTurn' BY <1>1 DEF CaptureInv, InTurn
<1> QED BY <1>1, <1>6, <1>7, <1>8 DEF CaptureInv, RoomMade

LEMMA BeginKeeps == ASSUME CaptureInv, NEW s \in Sizes, Captures!Begin(s) PROVE CaptureInv'
<1>1. /\ cmade' = cmade + 1 /\ size' = s /\ cpc' = IF s > MaxFileBytes THEN "idle" ELSE "clean"
      /\ UNCHANGED <<cnow, files, temporary>>
    BY DEF Captures!Begin
<1>2. CaptureTypes' BY <1>1, CapsAre DEF CaptureInv, CaptureTypes
<1>3. InTurn'
    <2>1. PICK n \in Nat : n = cmade' /\ n = cmade + 1 BY <1>1 DEF CaptureInv, CaptureTypes
    <2>2. ASSUME NEW f \in temporary PROVE f.id <= n /\ f.id # n
        <3>1. f.id \in Nat /\ f.id <= cmade /\ cmade \in Nat
            BY DEF CaptureInv, CaptureTypes, InTurn, Files
        <3> QED BY <2>1, <3>1
    <2>3. s > MaxFileBytes \/ s <= MaxFileBytes BY CapsAre
    <2> QED BY <1>1, <2>1, <2>2, <2>3 DEF InTurn
<1>4. Fits(files)' BY <1>1 DEF CaptureInv, Fits, Captures!Bytes, Captures!Contents
<1> QED BY <1>1, <1>2, <1>3, <1>4 DEF CaptureInv, RoomMade

LEMMA TimePasses ==
    ASSUME CaptureInv, cnow' \in Nat, UNCHANGED <<files, temporary, cpc, cmade, size>>
    PROVE  CaptureInv'
<1>1. Fits(files)' /\ RoomMade'
    BY DEF CaptureInv, Fits, RoomMade, RoomFor, Captures!Bytes, Captures!Contents
<1>2. InTurn' BY DEF CaptureInv, InTurn, Captures!Written
<1> QED BY <1>1, <1>2 DEF CaptureInv, CaptureTypes

LEMMA CaptureStep == CaptureInv /\ [Captures!Next]_Captures!vars => CaptureInv'
<1> SUFFICES ASSUME CaptureInv, [Captures!Next]_Captures!vars PROVE CaptureInv'
    OBVIOUS
<1>0. cnow \in Nat BY DEF CaptureInv, CaptureTypes
<1>1. CASE Captures!Tick BY <1>0, <1>1, TimePasses DEF Captures!Tick
<1>2. CASE Captures!Cleaned BY <1>0, <1>2, FilesGo DEF Captures!Cleaned
<1>3. CASE Captures!Fails \/ Captures!Restart
    BY <1>0, <1>3, FilesGo DEF Captures!Fails, Captures!Restart
<1>4. ASSUME NEW f \in temporary, Captures!CleanTemporary(f) PROVE CaptureInv'
    BY <1>0, <1>4, FilesGo DEF Captures!CleanTemporary
<1>5. ASSUME NEW f \in files, Captures!CleanOld(f) \/ Captures!Evict(f) PROVE CaptureInv'
    BY <1>0, <1>5, FilesGo DEF Captures!CleanOld, Captures!Evict
<1>6. CASE UNCHANGED Captures!vars BY <1>0, <1>6, TimePasses DEF Captures!vars
<1> QED BY <1>1, <1>2, <1>3, <1>4, <1>5, <1>6, WriteFindsRoom, RenameFits, BeginKeeps
        DEF Captures!Next

LEMMA CapturesMove == MCSpec => Captures!Spec
<1>1. UNCHANGED dir => UNCHANGED Captures!vars BY DEF dir, Captures!vars
<1>2. [MCNext]_all => [Captures!Next]_Captures!vars BY <1>1 DEF MCNext, all
<1> QED BY <1>2, PTL DEF MCSpec, MCInit, Captures!Spec

\* The directory of captures keeps both caps, whatever step of a capture fails or dies
\* (research.py, write_capture; README.md:61).
THEOREM CapturesStayCapped == MCSpec => []Capped
<1>1. CaptureInv => Capped BY SameSize DEF CaptureInv, Fits, Capped, Captures!Capped
<1> QED BY <1>1, CapturesMove, CaptureInit, CaptureStep, PTL DEF Captures!Spec
=============================================================================
