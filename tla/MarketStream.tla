---------------------------- MODULE MarketStream ----------------------------
(* The quote cache (market_stream.py) of one websocket connection: updates    *)
(* with ids arrive in any order, the connection closes and opens again, and   *)
(* the main loop seeds the cache from REST answers that were under way in the *)
(* meantime.  A quote is known by its version, which is also its update id.   *)
EXTENDS Naturals

CONSTANTS
    Symbols,     \* the symbols of the connection
    MaxVersion,  \* bound: quotes the exchange has for each symbol
    MaxTime,     \* bound: ticks of the monotonic clock
    MaxAge,      \* snapshot's max_age_s
    MaxCloses    \* bound: connections that close

ASSUME StreamAssumption == {MaxTime, MaxAge, MaxCloses} \subseteq Nat /\ MaxVersion \in Nat \ {0}

VARIABLES
    now, version, overtaken,   \* clock and exchange: newest version, when each was overtaken
    connected, wire, closes,   \* the connection: updates under way
    shown, seen, source,       \* _quotes: version, observation time, WS or REST
    mark,                      \* _update_ids
    rest, asked, content,      \* the REST request: its place, stamp and answer
    top                        \* history: newest update accepted on this connection

exchange == <<now, version, overtaken>>
link     == <<connected, wire, closes>>
quotes   == <<shown, seen, source, mark>>
request  == <<rest, asked, content>>
vars     == <<exchange, link, quotes, request, top>>

Versions == 1..MaxVersion
Nowhere  == [s \in Symbols |-> 0]

Init ==
    /\ now = 0 /\ version = [s \in Symbols |-> 1]
    /\ overtaken = [s \in Symbols |-> [v \in Versions |-> 0]]
    /\ connected = FALSE /\ wire = {} /\ closes = 0
    /\ shown = Nowhere /\ seen = Nowhere /\ source = [s \in Symbols |-> "none"]
    /\ mark = Nowhere /\ top = Nowhere
    /\ rest = "idle" /\ asked = 0 /\ content = Nowhere

Tick == now < MaxTime /\ now' = now + 1 /\ UNCHANGED <<version, overtaken, link, quotes, request, top>>

\* The best bid or ask of a symbol changes; a connection in place is told.
Trade(s) ==
    /\ version[s] < MaxVersion
    /\ version' = [version EXCEPT ![s] = @ + 1]
    /\ overtaken' = [overtaken EXCEPT ![s][version[s]] = now]
    /\ wire' = IF connected THEN wire \cup {<<s, version[s] + 1>>} ELSE wire
    /\ UNCHANGED <<now, connected, closes, quotes, request, top>>

-----------------------------------------------------------------------------
Open ==
    /\ ~connected /\ connected' = TRUE
    /\ UNCHANGED <<wire, closes, exchange, quotes, request, top>>

\* _close: no quote of the connection stays.
Close ==
    /\ connected /\ connected' = FALSE /\ wire' = {}
    /\ closes < MaxCloses /\ closes' = closes + 1 /\ top' = Nowhere
    /\ UNCHANGED <<exchange, request>>
    /\ shown' = Nowhere /\ seen' = Nowhere /\ source' = [s \in Symbols |-> "none"]
    /\ mark' = Nowhere

Show(s, v, t, src) ==
    /\ shown' = [shown EXCEPT ![s] = v]
    /\ seen' = [seen EXCEPT ![s] = t]
    /\ source' = [source EXCEPT ![s] = src]

\* _message: an update no newer than the last one accepted is dropped
\* (mutant: than the one whose quote is shown, which a REST quote has none of).
Accept(s, v, last) ==
    /\ <<s, v>> \in wire /\ wire' = wire \ {<<s, v>>}
    /\ IF v <= last
       THEN UNCHANGED <<quotes, top>>
       ELSE /\ Show(s, v, now, "WS") /\ mark' = [mark EXCEPT ![s] = v]
            /\ top' = [top EXCEPT ![s] = IF v > @ THEN v ELSE @]
    /\ UNCHANGED <<connected, closes, exchange, request>>
MessageByQuote(s, v) == Accept(s, v, IF source[s] = "WS" THEN shown[s] ELSE 0)
Message(s, v)        == Accept(s, v, mark[s])

-----------------------------------------------------------------------------
\* client.tickers, on behalf of the main loop: the stamp is taken before the request,
\* which takes time; the answer may lack symbols or give them no usable price.
Ask ==
    /\ rest = "idle" /\ rest' = "asked" /\ asked' = now
    /\ UNCHANGED <<content, exchange, link, quotes, top>>

Answer ==
    /\ rest = "asked" /\ now > asked /\ rest' = "answered"
    /\ \E S \in SUBSET Symbols : content' = [s \in Symbols |-> IF s \in S THEN version[s] ELSE 0]
    /\ UNCHANGED <<asked, exchange, link, quotes, top>>

RequestFails ==
    /\ rest = "asked" /\ rest' = "idle"
    /\ UNCHANGED <<asked, content, exchange, link, quotes, top>>

\* seed puts in every usable quote unless one was observed after its stamp (mutant: the
\* stamp is the time of the seed).
SeedWith(stamp, S) ==
    /\ rest = "answered" /\ rest' = "idle"
    /\ shown' = [s \in Symbols |-> IF s \in S THEN content[s] ELSE shown[s]]
    /\ seen' = [s \in Symbols |-> IF s \in S THEN stamp ELSE seen[s]]
    /\ source' = [s \in Symbols |-> IF s \in S THEN "REST" ELSE source[s]]
    /\ UNCHANGED <<mark, asked, content, exchange, link, top>>
Usable             == {s \in Symbols : content[s] # 0}
Replaceable(stamp) == {s \in Symbols : source[s] = "none" \/ seen[s] <= stamp}
SeedLate == SeedWith(now, Usable \cap Replaceable(now))
Seed     == SeedWith(asked, Usable \cap Replaceable(asked))

Next ==
    \/ Tick \/ Open \/ Close \/ Ask \/ Answer \/ Seed \/ RequestFails
    \/ \E s \in Symbols : Trade(s) \/ \E v \in Versions : Message(s, v)

Spec == Init /\ [][Next]_vars

-----------------------------------------------------------------------------
\* The quotes of a snapshot.
Snapshot == {s \in Symbols : source[s] # "none" /\ seen[s] + MaxAge >= now}

\* A REST quote in a snapshot was the exchange's quote at some time in the last MaxAge,
\* however long its request took (market_stream.py:41).
SnapshotHonest ==
    \A s \in Snapshot : source[s] = "REST" =>
        shown[s] = version[s] \/ overtaken[s][shown[s]] + MaxAge >= now

\* A websocket quote is the newest update this connection brought, also when REST seeds
\* came in between, and there is none while there is no connection (market_stream.py:128).
WatermarkHolds ==
    \A s \in Symbols : source[s] = "WS" => connected /\ shown[s] = top[s]

\* A REST answer never replaces a quote by an older one, although updates overtake it
\* on the way (market_stream.py:41).
SeedNeverRegresses ==
    [][rest = "answered" /\ rest' = "idle" => \A s \in Symbols : shown[s] <= shown'[s]]_vars
=============================================================================
