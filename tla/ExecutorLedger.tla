--------------------------- MODULE ExecutorLedger ----------------------------
(* The durable ledger of a deal, for every number of legs, deals and amounts: *)
(* unless a fill is not booked, it is what the exchange moved.  As long as no *)
(* local fault comes between an order and its booking, a deal spends within   *)
(* its means besides, and what is retired is flat.                            *)
EXTENDS ExecutorJournalProofs

InHand  == pc \in Waiting \cup {"account"}
Arrived == InHand /\ ex[deal][Label] = "done"
Held(n) == IF n > 0 THEN n ELSE 0

\* What is booked was filled, and the order at hand is not booked yet.
Booking ==
    /\ \A d \in Deals, l \in Labels : orders[d][l] = "BOOKED" => ex[d][l] = "done"
    /\ pc = "account" => ex[deal][Label] = "done"
    /\ pc \in Placing => orders[deal][Label] # "BOOKED"

\* Without local faults, of the deal at hand only the fill being waited on is not booked.
Settling ==
    /\ Executing /\ pc # "ambiguous" => \A l \in Labels :
         ex[deal][l] = "done" /\ orders[deal][l] # "BOOKED" => InHand /\ l = Label
    /\ pc # "ambiguous" /\ ~Arrived => fill = NoFill

\* Before its first fill a deal holds nothing, and before a leg nothing of what it buys
\* was overspent.
Untouched ==
    /\ \A d \in Deals : place[d] = "none" \/ (pc = "preflight" /\ d = deal) =>
         /\ startSpent[d] = 0 /\ authorized[d] = 0
         /\ \A a \in Assets : inv[d][a] = 0 /\ acct[d][a] = 0
    /\ Executing /\ pc # "ambiguous" /\ phase = "legs" =>
         /\ leg < N => inv[deal][0] = 0
         /\ \A a \in Mids : a >= leg => acct[deal][a] >= 0

\* The ledger is exact once the fill that arrived is booked.
Due ==
    /\ \A a \in Mids : Booked(Label)[deal][a] = Held(acct[deal][a])
    /\ acct[deal][0] = Booked(Label)[deal][0] - startSpent[deal]
                         - IF Source(Label) = 0 THEN fill.spent ELSE 0
OthersBooked == \A l \in Labels :
    ex[deal][l] = "done" /\ orders[deal][l] # "BOOKED" => l = Label
Ledger == LedgerExact /\ (Arrived /\ OthersBooked => Due)

\* What holds of the ledger through local faults too.
BooksInv == Booking /\ Untouched /\ Ledger

\* What a deal may still spend of an asset covers every order that may still fill, and
\* what remains of the leg's budget.
Purse(d, a) == acct[d][a] + IF a = 0 THEN authorized[d] ELSE 0
Means ==
    /\ WithinMeans
    /\ \A d \in Deals, l \in Labels : Unresolved(d, l) => Purse(d, Source(l)) >= input[d][l]
    /\ pc = "send" => Purse(deal, Source(Label)) >= input[deal][Label]
    /\ phase = "legs" /\ pc \in {"attempt", "credit"} \cup Placing =>
         /\ pc # "credit" => Purse(deal, leg - 1) + spent + fill.spent >= amount
         /\ leg < N => acct[deal][leg] >= out + fill.out

\* What holds without them besides.
LedgerInv == Settling /\ Means

\* A recovery that has failed at nothing leaves nothing executable behind it, nor does
\* what the service retires.
NoMaximum == \A q \in MarketLots, n \in Nat : n >= q => n \in MarketLots
Flat ==
    /\ pc = "tickers" => ok /\ \A a \in Mids \ todo : inv[deal][a] = 0
    /\ phase # "legs" /\ ok /\ pc \in {"recover"} \cup Placing =>
         \A a \in Mids \ todo : inv[deal][a] \notin MarketLots
    /\ pc = "retire" => \A a \in Mids : inv[deal][a] \notin MarketLots
    /\ RetiredFlat

-----------------------------------------------------------------------------
(* What the steps do to balances and bookings.                              *)

\* An order is from one asset to another.
LEMMA Ends ==
    ASSUME NEW l \in Labels
    PROVE  Source(l) \in Assets /\ Target(l) \in Assets /\ Source(l) # Target(l)
<1>1. CASE l \in Legs \X Policies
    <2>1. l[1] \in Legs /\ l[2] \in Policies BY <1>1
    <2> QED BY <2>1, LegsAssumption DEF Policies, Legs, Assets, Source, Target
<1>2. CASE l \in Mids \X {"RECOVERY"}
    <2>1. l[1] \in Mids /\ l[2] = "RECOVERY" BY <1>2
    <2> QED BY <2>1, LegsAssumption DEF Mids, Assets, Source, Target
<1> QED BY <1>1, <1>2 DEF Labels

LEMMA MatchMoves ==
    ASSUME TypeOK, NEW d \in Deals, NEW l \in Labels, Match(d, l)
    PROVE  \E f \in [spent : Nat, out : Nat] :
             /\ f.spent <= input[d][l] + MaxOver
             /\ \A e \in Deals, a \in Assets : acct'[e][a] =
                  IF e = d /\ a = Source(l) THEN acct[d][a] - f.spent
                  ELSE IF e = d /\ a = Target(l) THEN acct[d][a] + f.out ELSE acct[e][a]
             /\ \A e \in Deals, m \in Labels :
                  ex'[e][m] = IF e = d /\ m = l THEN "done" ELSE ex[e][m]
             /\ fill' = IF d = deal /\ l = Label /\ pc \in Waiting THEN f ELSE fill
<1>1. input[d][l] \in Nat BY DEF TypeOK, TypeJournal
<1>2. PICK f \in Fills(input[d][l]) :
        /\ acct' = Transfer(acct, d, l, acct[d][Source(l)] - f.spent, acct[d][Target(l)] + f.out)
        /\ fill' = IF d = deal /\ l = Label /\ pc \in Waiting THEN f ELSE fill
    BY DEF Match
<1>3. f \in [spent : Nat, out : Nat] BY <1>1, FillsType
<1>4. f.spent <= input[d][l] + MaxOver
    BY <1>1, BoundsAssumption DEF Fills
<1>5. \A e \in Deals, a \in Assets : acct'[e][a] =
        IF e = d /\ a = Source(l) THEN acct[d][a] - f.spent
        ELSE IF e = d /\ a = Target(l) THEN acct[d][a] + f.out ELSE acct[e][a]
    BY <1>2, Ends DEF Transfer, TypeOK, TypeExchange
<1>6. \A e \in Deals, m \in Labels : ex'[e][m] = IF e = d /\ m = l THEN "done" ELSE ex[e][m]
    BY DEF Match, TypeOK, TypeExchange
<1> QED BY <1>2, <1>3, <1>4, <1>5, <1>6

LEMMA BookedMoves ==
    ASSUME TypeOK, deal \in Deals, NEW l \in Labels
    PROVE  \A e \in Deals, a \in Assets : Booked(l)[e][a] =
             IF e = deal /\ a = Source(l) THEN Drawn(inv[deal][a])
             ELSE IF e = deal /\ a = Target(l) THEN inv[deal][a] + fill.out ELSE inv[e][a]
<1>1. inv \in [Deals -> [Assets -> Nat]] BY DEF TypeOK, TypeLedger
<1> QED BY <1>1, Ends DEF Booked, Transfer, SourceOf, TargetOf

\* The actions that touch an order, its record or a balance; no other does.
Touching == Authorize \/ Journal \/ RecoverJournal \/ Send \/ ReadFill \/ ReadNew
            \/ IdentityMismatch \/ Account \/ AccountRecovery \/ Exchange

LEMMA OthersTouchNothing ==
    ASSUME Next, ~Touching PROVE UNCHANGED <<ledger, journal, ex, acct>>
<1> USE DEF Touching, operator, walk, carry, flat, journal, files, exchange, Goto, Step
<1>1. CASE Loop
    BY <1>1 DEF Loop, LoopScan, NoCandidate, LoopClear, ClearFails, ConsumeClear, Restart
<1>2. CASE Execute
    BY <1>2 DEF Execute, StartDeal, PreflightFails, PreflightRejects, Skip,
                AttemptFails, FinishLeg, CreditSettles, CreditFails
<1>3. CASE Place
    BY <1>3 DEF Place, ReadRejection, Timeout, GiveUp, LocalFault
<1>4. CASE Flatten
    BY <1>4 DEF Flatten, FetchTickers, TickersFail, RecoverNoEdge, RecoverDust,
                Flattened, NotFlattened
<1>5. CASE End BY <1>5 DEF End, HandleFailure, HandleAmbiguous, Archive, FinishFails
<1>6. CASE Crash BY <1>6 DEF Crash
<1>7. CASE Operator BY <1>7 DEF Operator, Pause, Resume, RequestClear
<1> QED BY <1>1, <1>2, <1>3, <1>4, <1>5, <1>6, <1>7 DEF Next, Process

\* A record that is read or booked is that of the order at hand.
LEMMA MarkMoves ==
    ASSUME TypeOK, OrdersInv, ReadFill \/ ReadNew \/ IdentityMismatch \/ Account \/ AccountRecovery
    PROVE  /\ deal \in Deals /\ Label \in Labels /\ pc \in Waiting \cup {"account"}
           /\ UNCHANGED <<input, ex, acct, authorized, place>>
           /\ \E s \in {"CLOSED", "NEW", "BOOKED"} :
                /\ s = "BOOKED" <=> pc = "account"
                /\ \A d \in Deals, l \in Labels :
                     orders'[d][l] = IF d = deal /\ l = Label THEN s ELSE orders[d][l]
<1>1. pc \in Waiting \cup {"account"}
    BY DEF ReadFill, ReadNew, IdentityMismatch, Account, AccountRecovery, Waiting
<1>2. deal \in Deals /\ Label \in Labels
    BY <1>1 DEF OrdersInv, WalkOK, RecordsOK, Executing, Idling, Placing, Waiting
<1>3. PICK s \in {"CLOSED", "NEW", "BOOKED"} :
        orders' = [orders EXCEPT ![deal][Label] = s] /\ (s = "BOOKED" <=> pc = "account")
    BY DEF ReadFill, ReadNew, IdentityMismatch, Account, AccountRecovery, Waiting
<1>4. \A d \in Deals, l \in Labels :
        orders'[d][l] = IF d = deal /\ l = Label THEN s ELSE orders[d][l]
    BY <1>2, <1>3 DEF TypeOK, TypeJournal
<1>5. UNCHANGED <<input, ex, acct, authorized, place>>
    BY DEF ReadFill, ReadNew, IdentityMismatch, Account, AccountRecovery, ledger, files, exchange
<1> QED BY <1>1, <1>2, <1>3, <1>4, <1>5

\* An order that is appended was never sent.
LEMMA AppendMoves ==
    ASSUME TypeOK, OrdersInv, Journal \/ RecoverJournal
    PROVE  /\ deal \in Deals /\ Label' \in Labels /\ deal' = deal /\ pc' = "send"
           /\ UNCHANGED <<inv, startSpent, authorized, ex, acct, fill, place>>
           /\ ex[deal][Label'] = "none"
           /\ \E q \in Nat \ {0} : \A d \in Deals, l \in Labels :
                /\ orders'[d][l] = IF d = deal /\ l = Label' THEN "SUBMITTING" ELSE orders[d][l]
                /\ input'[d][l] = IF d = deal /\ l = Label' THEN q ELSE input[d][l]
<1>1. PICK q \in Nat \ {0} : Append(Label', q)
    BY JournaledOrder
<1>2. deal \in Deals /\ Label' \in Labels /\ pc' = "send" /\ deal' = deal
    BY JournaledOrder
<1>3. \A d \in Deals, l \in Labels :
        /\ orders'[d][l] = IF d = deal /\ l = Label' THEN "SUBMITTING" ELSE orders[d][l]
        /\ input'[d][l] = IF d = deal /\ l = Label' THEN q ELSE input[d][l]
    BY <1>1, <1>2 DEF Append, TypeOK, TypeJournal
<1>4. UNCHANGED <<inv, startSpent, authorized, ex, acct, fill, place>>
    BY DEF Journal, RecoverJournal, ledger, exchange, files
<1>5. Label' \in ToCome'
    BY <1>2 DEF ToCome
<1>6. Label' \in ToCome
    BY <1>5, ToComeJournal, ToComeRecover
<1>7. Executing
    BY DEF Journal, RecoverJournal, Executing, Idling
<1>8. ex[deal][Label'] = "none"
    BY <1>6, <1>7 DEF OrdersInv, Fresh
<1> QED BY <1>1, <1>2, <1>3, <1>4, <1>8

\* An order that is sent was never sent before.
LEMMA SendMoves ==
    ASSUME TypeOK, OrdersInv, Send
    PROVE  /\ deal \in Deals /\ Label \in Labels /\ ex[deal][Label] = "none"
           /\ UNCHANGED <<orders, input, inv, startSpent, authorized, acct, fill, place>>
           /\ \A d \in Deals, l \in Labels :
                ex'[d][l] = IF d = deal /\ l = Label THEN "wire" ELSE ex[d][l]
<1>1. deal \in Deals /\ Label \in Labels /\ Executing
    BY DEF Send, OrdersInv, WalkOK, RecordsOK, Executing, Idling, Placing
<1>2. Label \in ToCome BY <1>1 DEF ToCome, Send
<1>3. ex[deal][Label] = "none" BY <1>1, <1>2 DEF OrdersInv, Fresh
<1> QED BY <1>1, <1>3, SendTouches DEF TypeOK, Send, ledger, journal, files

LEMMA AcceptMoves ==
    ASSUME TypeOK, NEW d \in Deals, NEW l \in Labels, Accept(d, l)
    PROVE  /\ UNCHANGED <<acct, fill>>
           /\ ex[d][l] = "wire"
           /\ \E s \in {"open", "refused", "lost"} : \A e \in Deals, m \in Labels :
                ex'[e][m] = IF e = d /\ m = l THEN s ELSE ex[e][m]
BY DEF Accept, TypeOK, TypeExchange

-----------------------------------------------------------------------------
(* The invariant, part by part.                                             *)

\* An order is booked when its fill arrived, and is not returned to then.
LEMMA BookingStep ==
    ASSUME TypeOK, OrdersInv, Booking, Next
    PROVE  Booking'
<1> USE DEF Booking, Arrived, InHand, Executing, Idling, Placing, Waiting
<1>1. CASE Journal \/ RecoverJournal
    <2>1. Executing /\ pc \in {"attempt", "recover"} /\ ~Arrived
        BY <1>1 DEF Journal, RecoverJournal
    <2> QED BY <1>1, <2>1, AppendMoves
<1>2. CASE Send
    <2>1. pc = "send" /\ pc' = "await" /\ deal' = deal /\ Label' = Label
        BY <1>2 DEF Send, Goto, Label
    <2> QED BY <1>2, <2>1, SendMoves
<1>3. CASE ReadFill \/ ReadNew \/ IdentityMismatch
    <2>1. /\ deal' = deal /\ Label' = Label /\ fill' = fill
          /\ \/ pc' \in {"account", "ambiguous"} /\ ex[deal][Label] = "done"
             \/ pc' = "poll" /\ ex[deal][Label] = "open"
          /\ pc \in Waiting
        BY <1>3 DEF ReadFill, ReadNew, IdentityMismatch, Goto, Label, exchange
    <2> QED BY <1>3, <2>1, MarkMoves
<1>4. CASE Account \/ AccountRecovery
    <2>1. deal' = deal /\ fill' = NoFill /\ pc = "account"
          /\ pc' \in {"raise", "attempt", "recover"}
        BY <1>4 DEF Account, AccountRecovery, Goto
    <2> QED BY <1>4, <2>1, MarkMoves
<1>5. CASE Exchange
    <2>1. UNCHANGED <<pc, phase, deal, leg, policy, orders, Label>>
        BY <1>5, ExchangeOnlySettles DEF TypeOK, walk, journal, Label
    <2>2. PICK d \in Deals, l \in Labels : Accept(d, l) \/ Match(d, l)
        BY <1>5 DEF Exchange
    <2>3. CASE Accept(d, l)
        BY <2>1, <2>3, AcceptMoves DEF OrdersInv, WalkOK, RecordsOK
    <2>4. CASE Match(d, l)
        <3>1. ex[d][l] = "open" BY <2>4 DEF Match
        <3>3. Arrived => Arrived' BY <2>1, <2>4, MatchMoves, <3>1 DEF OrdersInv, WalkOK, RecordsOK
        <3> QED BY <2>1, <2>4, <3>1, <3>3, MatchMoves DEF OrdersInv, WalkOK, RecordsOK
    <2> QED BY <2>2, <2>3, <2>4
<1>6. CASE Authorize
    <2>1. pc' = "attempt" /\ deal' = deal /\ UNCHANGED <<orders, ex, fill>> /\ pc = "preflight"
        BY <1>6 DEF Authorize, BeginLeg, journal, exchange
    <2> QED BY <2>1
<1>7. CASE ~Touching
    <2>1. UNCHANGED <<orders, ex>> BY <1>7, OthersTouchNothing DEF journal
    <2> USE DEF Goto, Step, Leave, BeginLeg, BeginRecovery, Fails, walk, carry, flat, exchange,
        Label
    <2>2. CASE Loop
        BY <2>1, <2>2 DEF Loop, LoopScan, NoCandidate, LoopClear, ClearFails, ConsumeClear, Restart
    <2>3. CASE Execute
        <3>1. CASE StartDeal
            <4>1. deal' \in Deals /\ place[deal'] = "none" /\ pc' = "preflight" /\ fill' = fill
                BY <3>1 DEF StartDeal
            <4>2. \A l \in Labels : ex[deal'][l] = "none" BY <4>1 DEF OrdersInv, Recorded
            <4> QED BY <2>1, <3>1, <4>1, <4>2 DEF StartDeal
        <3>2. CASE ~StartDeal
            BY <2>1, <2>3, <3>2, <1>7 DEF Touching, Execute, PreflightFails, PreflightRejects, Skip,
                    AttemptFails, FinishLeg, CreditSettles, CreditFails
        <3> QED BY <3>1, <3>2
    <2>4. CASE Place
        BY <2>1, <2>4, <1>7 DEF Touching, Place, ReadRejection, Timeout, GiveUp, LocalFault
    <2>5. CASE Flatten
        BY <2>1, <2>5, <1>7 DEF Touching, Flatten, FetchTickers, TickersFail, RecoverNoEdge,
            RecoverDust,
                    Flattened, NotFlattened
    <2>6. CASE End
        BY <2>1, <2>6 DEF End, HandleFailure, HandleAmbiguous, Archive, FinishFails
    <2>7. CASE Crash BY <2>1, <2>7 DEF Crash
    <2>8. CASE Operator BY <2>1, <2>8 DEF Operator, Pause, Resume, RequestClear
    <2> QED BY <1>7, <2>2, <2>3, <2>4, <2>5, <2>6, <2>7, <2>8 DEF Next, Process, Touching
<1> QED BY <1>1, <1>2, <1>3, <1>4, <1>5, <1>6, <1>7 DEF Touching

\* Of the deal at hand only the fill being waited on, if it arrived, is not booked.
LEMMA SettlingStep ==
    ASSUME TypeOK, JournalInv, Booking, Settling, ~LocalFaults, Next
    PROVE  Settling'
<1> USE JournalOrders DEF Booking, Settling, Arrived, InHand, Executing, Idling, Placing, Waiting
<1>1. CASE Journal \/ RecoverJournal
    <2>1. Executing /\ pc \in {"attempt", "recover"} /\ ~Arrived
        BY <1>1 DEF Journal, RecoverJournal
    <2> QED BY <1>1, <2>1, AppendMoves
<1>2. CASE Send
    <2>1. pc = "send" /\ pc' = "await" /\ deal' = deal /\ Label' = Label
        BY <1>2 DEF Send, Goto, Label
    <2> QED BY <1>2, <2>1, SendMoves
<1>3. CASE ReadFill \/ ReadNew \/ IdentityMismatch
    <2>1. /\ deal' = deal /\ Label' = Label /\ fill' = fill
          /\ \/ pc' \in {"account", "ambiguous"} /\ ex[deal][Label] = "done"
             \/ pc' = "poll" /\ ex[deal][Label] = "open"
          /\ pc \in Waiting
        BY <1>3 DEF ReadFill, ReadNew, IdentityMismatch, Goto, Label, exchange
    <2> QED BY <1>3, <2>1, MarkMoves
<1>4. CASE Account \/ AccountRecovery
    <2>1. deal' = deal /\ fill' = NoFill /\ pc = "account"
          /\ pc' \in {"raise", "attempt", "recover"}
        BY <1>4 DEF Account, AccountRecovery, Goto
    <2> QED BY <1>4, <2>1, MarkMoves
<1>5. CASE Exchange
    <2>1. UNCHANGED <<pc, phase, deal, leg, policy, orders, Label>>
        BY <1>5, ExchangeOnlySettles DEF TypeOK, walk, journal, Label
    <2>2. PICK d \in Deals, l \in Labels : Accept(d, l) \/ Match(d, l)
        BY <1>5 DEF Exchange
    <2>3. CASE Accept(d, l)
        BY <2>1, <2>3, AcceptMoves DEF JournalInv, WalkOK, FilesOK
    <2>4. CASE Match(d, l)
        <3>1. ex[d][l] = "open" BY <2>4 DEF Match
        <3>2. d = deal /\ Executing /\ pc # "ambiguous" => pc \in Waiting /\ l = Label
            BY <3>1 DEF JournalInv, Quiet, Unresolved
        <3>3. Arrived => Arrived' BY <2>1, <2>4, MatchMoves, <3>1 DEF JournalInv, WalkOK, FilesOK
        <3> QED BY <2>1, <2>4, <3>1, <3>2, <3>3, MatchMoves DEF JournalInv, WalkOK, FilesOK
    <2> QED BY <2>2, <2>3, <2>4
<1>6. CASE Authorize
    <2>1. pc' = "attempt" /\ deal' = deal /\ UNCHANGED <<orders, ex, fill>> /\ pc = "preflight"
        BY <1>6 DEF Authorize, BeginLeg, journal, exchange
    <2> QED BY <2>1
<1>7. CASE ~Touching
    <2>1. UNCHANGED <<orders, ex>> BY <1>7, OthersTouchNothing DEF journal
    <2> USE DEF Goto, Step, Leave, BeginLeg, BeginRecovery, Fails, walk, carry, flat, exchange,
        Label
    <2>2. CASE Loop
        BY <2>1, <2>2 DEF Loop, LoopScan, NoCandidate, LoopClear, ClearFails, ConsumeClear, Restart
    <2>3. CASE Execute
        <3>1. CASE StartDeal
            <4>1. deal' \in Deals /\ place[deal'] = "none" /\ pc' = "preflight" /\ fill' = fill
                BY <3>1 DEF StartDeal
            <4>2. \A l \in Labels : ex[deal'][l] = "none" BY <4>1 DEF JournalInv, Recorded
            <4> QED BY <2>1, <3>1, <4>1, <4>2 DEF StartDeal
        <3>2. CASE ~StartDeal
            BY <2>1, <2>3, <3>2, <1>7 DEF Touching, Execute, PreflightFails, PreflightRejects, Skip,
                    AttemptFails, FinishLeg, CreditSettles, CreditFails
        <3> QED BY <3>1, <3>2
    <2>4. CASE Place
        BY <2>1, <2>4, <1>7 DEF Touching, Place, ReadRejection, Timeout, GiveUp, LocalFault
    <2>5. CASE Flatten
        BY <2>1, <2>5, <1>7 DEF Touching, Flatten, FetchTickers, TickersFail, RecoverNoEdge,
            RecoverDust,
                    Flattened, NotFlattened
    <2>6. CASE End
        BY <2>1, <2>6 DEF End, HandleFailure, HandleAmbiguous, Archive, FinishFails
    <2>7. CASE Crash BY <2>1, <2>7 DEF Crash
    <2>8. CASE Operator BY <2>1, <2>8 DEF Operator, Pause, Resume, RequestClear
    <2> QED BY <1>7, <2>2, <2>3, <2>4, <2>5, <2>6, <2>7, <2>8 DEF Next, Process, Touching
<1> QED BY <1>1, <1>2, <1>3, <1>4, <1>5, <1>6, <1>7 DEF Touching

\* A deal that was not authorized has no balance, and no leg overspends what it buys.
LEMMA UntouchedStep ==
    ASSUME TypeOK, OrdersInv, Untouched, Next
    PROVE  Untouched'
<1> USE DEF Untouched, Executing, Idling
<1>1. CASE Journal \/ RecoverJournal
    <2>1. /\ pc \in {"attempt", "recover"} /\ phase' = phase
          /\ phase = "legs" => leg' = leg
        BY <1>1 DEF Journal, RecoverJournal, Goto, OrdersInv, WalkOK
    <2> QED BY <1>1, <2>1, AppendMoves
<1>2. CASE Send
    <2>1. pc = "send" /\ pc' = "await" /\ UNCHANGED <<deal, phase, leg>>
        BY <1>2 DEF Send, Goto
    <2> QED BY <1>2, <2>1, SendMoves
<1>3. CASE ReadFill \/ ReadNew \/ IdentityMismatch
    <2>1. /\ UNCHANGED <<deal, phase, leg, inv, startSpent>>
          /\ pc \in Waiting /\ pc' \in {"account", "ambiguous", "poll"}
        BY <1>3 DEF ReadFill, ReadNew, IdentityMismatch, Goto, ledger, Waiting
    <2> QED BY <1>3, <2>1, MarkMoves DEF Waiting
<1>4. CASE Account \/ AccountRecovery
    <2>1. /\ UNCHANGED <<deal, phase, leg>> /\ deal \in Deals /\ Label \in Labels
          /\ pc = "account" /\ pc' \in {"raise", "attempt", "recover"}
          /\ inv' = Booked(Label) /\ \A d \in Deals : d # deal => startSpent'[d] = startSpent[d]
        BY <1>4, MarkMoves DEF Account, AccountRecovery, Goto, TypeOK, TypeLedger
    <2>2. place[deal] = "active" /\ UNCHANGED <<acct, place, authorized>>
        BY <1>4, <2>1, MarkMoves DEF OrdersInv, RecordsOK
    <2>3. \A d \in Deals, a \in Assets : d # deal => inv'[d][a] = inv[d][a]
        BY <2>1, BookedMoves
    <2>4. phase = "legs" /\ leg < N => inv'[deal][0] = 0
        <3> SUFFICES ASSUME phase = "legs", leg < N PROVE inv'[deal][0] = 0
            OBVIOUS
        <3>1. inv[deal][0] = 0 BY <2>1
        <3>2. Label[1] = leg /\ Label[2] = policy /\ leg \in Legs /\ policy # "RECOVERY"
            BY DEF Label, TypeOK, TypeWalk, Policies
        <3>3. Target(Label) # 0 BY <3>2, LegsAssumption DEF Target, Legs
        <3>4. Drawn(0) = 0 BY DEF Drawn, TypeOK, TypeFill
        <3> QED BY <2>1, <3>1, <3>3, <3>4, BookedMoves, LegsAssumption DEF Assets
    <2> QED BY <2>1, <2>2, <2>3, <2>4
<1>5. CASE Exchange
    <2>1. UNCHANGED <<pc, phase, deal, leg, place, inv, startSpent, authorized>>
        BY <1>5, ExchangeOnlySettles DEF TypeOK, walk, ledger, files
    <2>2. PICK d \in Deals, l \in Labels : Accept(d, l) \/ Match(d, l)
        BY <1>5 DEF Exchange
    <2>3. CASE Accept(d, l)
        BY <2>1, <2>3, AcceptMoves
    <2>4. CASE Match(d, l)
        <3>1. ex[d][l] = "open" BY <2>4 DEF Match
        <3>2. place[d] # "none" /\ ~(pc = "preflight" /\ d = deal)
            BY <3>1 DEF OrdersInv, Recorded, Fresh, ToCome
        <3>3. PICK f \in [spent : Nat, out : Nat] :
                \A e \in Deals, a \in Assets : acct'[e][a] =
                  IF e = d /\ a = Source(l) THEN acct[d][a] - f.spent
                  ELSE IF e = d /\ a = Target(l) THEN acct[d][a] + f.out ELSE acct[e][a]
            BY <2>4, MatchMoves
        <3>4. ASSUME d = deal, Executing, pc # "ambiguous", phase = "legs",
                     NEW a \in Mids, a >= leg
              PROVE  acct'[deal][a] >= 0
            <4>1. l = Label BY <3>1, <3>4 DEF OrdersInv, LegQuiet, Unresolved
            <4>2. Source(l) = leg - 1 /\ leg \in Legs
                BY <3>4, <4>1 DEF Label, TypeOK, TypeWalk, Policies, Source
            <4>3. a # Source(l) /\ a \in Assets BY <3>4, <4>2, LegsAssumption DEF Mids, Assets, Legs
            <4>4. acct[deal][a] \in Int /\ acct[deal][a] >= 0
                BY <3>4, <4>3 DEF TypeOK, TypeExchange
            <4> QED BY <3>3, <3>4, <4>3, <4>4
        <3>5. \A e \in Deals : e # d => \A a \in Assets : acct'[e][a] = acct[e][a]
            BY <3>3
        <3>6. Mids \subseteq Assets /\ (Executing => deal \in Deals)
            BY LegsAssumption DEF Mids, Assets, OrdersInv, RecordsOK
        <3> QED BY <2>1, <3>2, <3>4, <3>5, <3>6
    <2> QED BY <2>2, <2>3, <2>4
<1>6. CASE Authorize
    <2>1. /\ pc = "preflight" /\ pc' = "attempt" /\ leg' = 1
          /\ UNCHANGED <<deal, phase, inv, startSpent, acct, place>>
          /\ \A d \in Deals : d # deal => authorized'[d] = authorized[d]
        BY <1>6 DEF Authorize, BeginLeg, exchange, files, TypeOK, TypeLedger
    <2>2. deal \in Deals /\ place[deal] = "active"
        BY <2>1 DEF OrdersInv, RecordsOK
    <2> QED BY <2>1, <2>2, LegsAssumption DEF Assets, Mids
<1>7. CASE ~Touching
    <2>1. UNCHANGED <<inv, startSpent, authorized, acct>>
        BY <1>7, OthersTouchNothing DEF ledger
    <2> USE DEF Goto, Step, Leave, BeginRecovery, Fails, walk, carry, flat, exchange, files
    <2>2. CASE Loop
        BY <2>1, <2>2 DEF Loop, LoopScan, NoCandidate, LoopClear, ClearFails, ConsumeClear, Restart
    <2>3. CASE Execute
        <3>1. CASE StartDeal
            <4>1. /\ deal' \in Deals /\ place[deal'] = "none" /\ pc' = "preflight"
                  /\ \A d \in Deals : place'[d] = "none" => place[d] = "none"
                BY <3>1 DEF StartDeal, TypeOK, TypeFiles
            <4> QED BY <2>1, <4>1, LegsAssumption DEF Assets, Mids
        <3>2. CASE CreditSettles
            <4>1. /\ pc = "credit" /\ UNCHANGED <<deal, place>>
                  /\ \/ pc' = "attempt" /\ leg < N /\ leg' = leg + 1 /\ phase' = phase
                     \/ pc' = "tickers" /\ phase' = "flatten"
                BY <3>2 DEF CreditSettles, BeginLeg
            <4>2. leg \in Nat BY LegsAssumption DEF TypeOK, TypeWalk, Legs
            <4> QED BY <2>1, <4>1, <4>2, LegsAssumption DEF Mids
        <3>3. CASE ~StartDeal /\ ~CreditSettles
            BY <2>1, <2>3, <3>3, <1>7 DEF Touching, Execute, PreflightFails, PreflightRejects, Skip,
                    AttemptFails, FinishLeg, CreditFails
        <3> QED BY <3>1, <3>2, <3>3
    <2>4. CASE Place
        BY <2>1, <2>4, <1>7 DEF Touching, Place, ReadRejection, Timeout, GiveUp, LocalFault
    <2>5. CASE Flatten
        BY <2>1, <2>5, <1>7 DEF Touching, Flatten, FetchTickers, TickersFail, RecoverNoEdge,
            RecoverDust,
                    Flattened, NotFlattened
    <2>6. CASE End
        BY <2>1, <2>6 DEF End, HandleFailure, HandleAmbiguous, Archive, FinishFails, OrdersInv,
            RecordsOK,
                TypeOK, TypeFiles
    <2>7. CASE Crash BY <2>1, <2>7 DEF Crash
    <2>8. CASE Operator BY <2>1, <2>8 DEF Operator, Pause, Resume, RequestClear
    <2> QED BY <1>7, <2>2, <2>3, <2>4, <2>5, <2>6, <2>7, <2>8 DEF Next, Process, Touching
<1> QED BY <1>1, <1>2, <1>3, <1>4, <1>5, <1>6, <1>7 DEF Touching

\* Once booked, the fill that arrived makes the ledger what the exchange's balances are.
LEMMA DueAfterMatch ==
    ASSUME TypeOK, OrdersInv, Untouched, Ledger, OthersBooked, pc \in Waiting, Match(deal, Label),
           UNCHANGED <<inv, startSpent, deal, Label>>
    PROVE  Due'
<1>1. deal \in Deals /\ Label \in Labels /\ Executing /\ pc # "ambiguous" /\ ~Arrived
    BY DEF OrdersInv, WalkOK, RecordsOK, Executing, Idling, Waiting, Placing, Match, Arrived
<1>2. /\ inv[deal][0] - startSpent[deal] = acct[deal][0]
      /\ \A a \in Mids : inv[deal][a] = Held(acct[deal][a])
    BY <1>1 DEF Match, OthersBooked, Ledger, LedgerExact, Held
<1>3. /\ startSpent[deal] \in Nat
      /\ \A a \in Assets : inv[deal][a] \in Nat /\ acct[deal][a] \in Int
    BY <1>1 DEF TypeOK, TypeLedger, TypeExchange
<1>4. PICK f \in [spent : Nat, out : Nat] :
        /\ fill' = f
        /\ \A a \in Assets : acct'[deal][a] =
             IF a = Source(Label) THEN acct[deal][a] - f.spent
             ELSE IF a = Target(Label) THEN acct[deal][a] + f.out ELSE acct[deal][a]
    BY <1>1, MatchMoves
<1>5. \A a \in Assets : Booked(Label)'[deal][a] =
        IF a = Source(Label) THEN IF inv[deal][a] > f.spent THEN inv[deal][a] - f.spent ELSE 0
        ELSE IF a = Target(Label) THEN inv[deal][a] + f.out ELSE inv[deal][a]
    <2>1. inv \in [Deals -> [Assets -> Nat]] BY DEF TypeOK, TypeLedger
    <2> QED BY <1>1, <1>4, <2>1, Ends DEF Booked, Transfer, SourceOf, TargetOf, Drawn
<1>6. Mids \subseteq Assets \ {0} /\ 0 \in Assets
    BY LegsAssumption DEF Mids, Assets
<1>7. \A a \in Mids : a = Target(Label) => acct[deal][a] >= 0
    <2> SUFFICES ASSUME Target(Label) \in Mids PROVE acct[deal][Target(Label)] >= 0
        OBVIOUS
    <2>1. phase = "legs" /\ Target(Label) = leg
        BY DEF Target, Label, Mids, TypeOK, TypeWalk
    <2> QED BY <1>1, <2>1 DEF Untouched, TypeOK, TypeWalk, Legs
<1>8. \A a \in Mids : Booked(Label)'[deal][a] = Held(acct'[deal][a])
    <2> SUFFICES ASSUME NEW a \in Mids PROVE Booked(Label)'[deal][a] = Held(acct'[deal][a])
        OBVIOUS
    <2> DEFINE h == inv[deal][a]  b == acct[deal][a]
    <2>1. h \in Nat /\ b \in Int /\ h = Held(b) /\ f.spent \in Nat /\ f.out \in Nat
        BY <1>2, <1>3, <1>6
    <2>2. CASE a = Source(Label)
        <3>1. Booked(Label)'[deal][a] = IF h > f.spent THEN h - f.spent ELSE 0
            BY <1>5, <1>6, <2>2
        <3>2. acct'[deal][a] = b - f.spent BY <1>4, <1>6, <2>2
        <3> HIDE DEF h, b
        <3> QED BY <2>1, <3>1, <3>2 DEF Held
    <2>3. CASE a = Target(Label)
        <3>1. Booked(Label)'[deal][a] = h + f.out /\ acct'[deal][a] = b + f.out /\ b >= 0
            BY <1>1, <1>4, <1>5, <1>6, <1>7, <2>3, Ends
        <3> HIDE DEF h, b
        <3> QED BY <2>1, <3>1 DEF Held
    <2>4. CASE a # Source(Label) /\ a # Target(Label)
        BY <1>4, <1>5, <1>6, <2>1, <2>4
    <2> QED BY <2>2, <2>3, <2>4
<1>9. acct'[deal][0] = Booked(Label)'[deal][0] - startSpent[deal]
                        - IF Source(Label) = 0 THEN f.spent ELSE 0
    <2>1. CASE Source(Label) = 0
        <3>1. phase = "legs" /\ leg = 1
            BY <2>1 DEF Source, Label, Mids, TypeOK, TypeWalk, Legs, Policies
        <3>2. inv[deal][0] = 0 BY <1>1, <3>1, LegsAssumption DEF Untouched
        <3>3. Booked(Label)'[deal][0] = 0 /\ acct'[deal][0] = acct[deal][0] - f.spent
            BY <1>4, <1>5, <1>6, <2>1, <3>2
        <3> QED BY <1>2, <1>3, <1>6, <2>1, <3>2, <3>3
    <2>2. CASE Source(Label) # 0
        BY <1>2, <1>3, <1>4, <1>5, <1>6, <2>2
    <2> QED BY <2>1, <2>2
<1> QED BY <1>4, <1>8, <1>9 DEF Due

\* The ledger is exact but for the fill at hand, which makes it exact again once booked.
LEMMA LedgerStep ==
    ASSUME TypeOK, OrdersInv, Booking, Untouched, Ledger, Next
    PROVE  Ledger'
<1>1. CASE Journal \/ RecoverJournal
    <2>1. pc' = "send" BY <1>1, AppendMoves
    <2>2. ~Arrived' BY <2>1 DEF Arrived, InHand, Waiting
    <2> QED BY <1>1, <2>2, AppendMoves DEF Ledger, LedgerExact
<1>2. CASE Send
    <2>1. deal' = deal /\ Label' = Label BY <1>2 DEF Send, Goto, Label
    <2>2. ~Arrived' BY <1>2, <2>1, SendMoves DEF Arrived
    <2> QED BY <1>2, <2>2, SendMoves DEF Ledger, LedgerExact
<1>3. CASE ReadFill \/ ReadNew \/ IdentityMismatch
    <2>1. /\ UNCHANGED <<deal, phase, leg, policy, Label, fill, inv, startSpent, acct, ex>>
          /\ pc \in Waiting
        BY <1>3 DEF ReadFill, ReadNew, IdentityMismatch, Goto, ledger, exchange, Label, Waiting
    <2>2. Arrived' /\ OthersBooked' => Arrived /\ OthersBooked
        <3>1. \A l \in Labels : l # Label => orders'[deal][l] = orders[deal][l]
            BY <1>3, MarkMoves
        <3> QED BY <2>1, <3>1 DEF Arrived, InHand, OthersBooked
    <2>3. Due => Due' BY <2>1 DEF Due, Booked, Transfer, SourceOf, TargetOf, Drawn
    <2>4. LedgerExact'
        <3>1. orders[deal][Label] # "BOOKED" BY <2>1 DEF Booking, Placing
        <3>2. \A d \in Deals, l \in Labels : orders'[d][l] = "BOOKED" => orders[d][l] = "BOOKED"
            BY <1>3, <2>1, <3>1, MarkMoves DEF Waiting
        <3> QED BY <2>1, <3>2 DEF Ledger, LedgerExact
    <2> QED BY <2>2, <2>3, <2>4 DEF Ledger
<1>4. CASE Account \/ AccountRecovery
    <2>1. /\ deal' = deal /\ deal \in Deals /\ Label \in Labels /\ pc = "account"
          /\ pc' \in {"raise", "attempt", "recover"}
          /\ inv' = Booked(Label)
          /\ UNCHANGED <<ex, acct>>
        BY <1>4, MarkMoves DEF Account, AccountRecovery, Goto
    <2>2. ~Arrived' BY <2>1 DEF Arrived, InHand, Waiting
    <2>3. OthersBooked => Due BY <2>1 DEF Arrived, InHand, Booking, Ledger
    <2>4. startSpent' = IF Source(Label) = 0 THEN [startSpent EXCEPT ![deal] = @ + fill.spent]
                        ELSE startSpent
        <3>1. CASE Account
            <4>1. Source(Label) = leg - 1 /\ leg \in Nat
                BY <3>1 DEF Account, Source, Label, TypeOK, TypeWalk, Policies, Legs
            <4> QED BY <3>1, <4>1 DEF Account
        <3>2. CASE AccountRecovery
            <4>1. Source(Label) = leg /\ leg # 0
                BY <3>2 DEF AccountRecovery, Source, Label, TypeOK, TypeWalk, Legs
            <4> QED BY <3>2, <4>1 DEF AccountRecovery
        <3> QED BY <1>4, <3>1, <3>2
    <2>5. startSpent \in [Deals -> Nat] /\ fill.spent \in Nat
        BY DEF TypeOK, TypeLedger, TypeFill
    <2>6. \A d \in Deals : startSpent'[d] =
            IF d = deal /\ Source(Label) = 0 THEN startSpent[d] + fill.spent ELSE startSpent[d]
        BY <2>4, <2>5
    <2>7. OthersBooked =>
          /\ inv'[deal][0] \in Int /\ acct[deal][0] \in Int /\ startSpent[deal] \in Nat
          /\ inv'[deal][0] - startSpent'[deal] = acct[deal][0]
        <3>1. 0 \in Assets BY LegsAssumption DEF Assets
        <3>2. inv'[deal][0] \in Int /\ acct[deal][0] \in Int /\ startSpent[deal] \in Nat
            BY <1>4, <2>1, <2>5, <3>1, BookedType DEF TypeOK, TypeExchange
        <3>3. OthersBooked => acct[deal][0] = inv'[deal][0] - startSpent[deal]
                                 - IF Source(Label) = 0 THEN fill.spent ELSE 0
            BY <2>1, <2>3 DEF Due
        <3> QED BY <2>1, <2>5, <2>6, <3>2, <3>3
    <2>8. OthersBooked => \A a \in Mids : inv'[deal][a] = Held(acct[deal][a])
        BY <2>1, <2>3 DEF Due
    <2>9. \A d \in Deals : d # deal =>
            /\ startSpent'[d] = startSpent[d]
            /\ \A a \in Assets : inv'[d][a] = inv[d][a]
            /\ \A l \in Labels : orders'[d][l] = orders[d][l]
        BY <1>4, <2>1, <2>6, BookedMoves, MarkMoves
    <2>10. Mids \subseteq Assets /\ 0 \in Assets BY LegsAssumption DEF Mids, Assets
    <2>11. ~OthersBooked => \E l \in Labels : ex'[deal][l] = "done" /\ orders'[deal][l] # "BOOKED"
        BY <1>4, <2>1, MarkMoves DEF OthersBooked
    <2>12. LedgerExact'
        <3>1. CASE OthersBooked
            BY <2>1, <2>7, <2>8, <2>9, <2>10, <3>1 DEF Ledger, LedgerExact, Held
        <3>2. CASE ~OthersBooked
            BY <2>1, <2>9, <2>10, <2>11, <3>2 DEF Ledger, LedgerExact
        <3> QED BY <3>1, <3>2
    <2> QED BY <2>2, <2>12 DEF Ledger
<1>5. CASE Exchange
    <2>1. UNCHANGED <<pc, phase, deal, leg, policy, orders, Label, inv, startSpent, InHand>>
        BY <1>5, ExchangeOnlySettles DEF TypeOK, walk, journal, ledger, Label, InHand
    <2>2. PICK d \in Deals, l \in Labels : Accept(d, l) \/ Match(d, l)
        BY <1>5 DEF Exchange
    <2>3. InHand => deal \in Deals /\ Label \in Labels /\ Executing /\ pc # "ambiguous"
        BY DEF InHand, OrdersInv, WalkOK, RecordsOK, Executing, Idling, Placing, Waiting
    <2>4. CASE Accept(d, l)
        <3>1. /\ UNCHANGED <<acct, fill>>
              /\ \A e \in Deals, m \in Labels : ex'[e][m] = "done" <=> ex[e][m] = "done"
            BY <2>4, AcceptMoves
        <3>2. Arrived' /\ OthersBooked' => Arrived /\ OthersBooked
            BY <2>1, <2>3, <3>1 DEF Arrived, OthersBooked
        <3>3. Due => Due' BY <2>1, <3>1 DEF Due, Booked, Transfer, SourceOf, TargetOf, Drawn
        <3> QED BY <2>1, <3>1, <3>2, <3>3 DEF Ledger, LedgerExact
    <2>5. CASE Match(d, l)
        <3>1. ex[d][l] = "open" /\ orders[d][l] # "BOOKED"
            BY <2>5 DEF Match, Booking
        <3>2. /\ \A e \in Deals, a \in Assets : e # d => acct'[e][a] = acct[e][a]
              /\ \A e \in Deals, m \in Labels : e # d => ex'[e][m] = ex[e][m]
              /\ ex'[d][l] = "done"
              /\ ~(d = deal /\ l = Label /\ pc \in Waiting) => fill' = fill
            BY <2>5, MatchMoves
        <3>3. Mids \subseteq Assets /\ 0 \in Assets BY LegsAssumption DEF Mids, Assets
        <3>4. LedgerExact'
            BY <2>1, <3>1, <3>2, <3>3 DEF Ledger, LedgerExact
        <3>6. ASSUME Arrived', OthersBooked' PROVE Due'
            <4>1. CASE d = deal
                <5>1. l = Label BY <2>1, <3>1, <3>2, <3>6, <4>1 DEF OthersBooked
                <5>2. pc \in Waiting
                    BY <2>1, <3>1, <3>6, <4>1, <5>1 DEF Arrived, InHand, Booking
                <5>3. OthersBooked
                    <6>1. \A m \in Labels : ex'[deal][m] = IF m = l THEN "done" ELSE ex[deal][m]
                        BY <2>5, <4>1, MatchMoves
                    <6> QED BY <2>1, <3>6, <5>1, <6>1 DEF OthersBooked
                <5> QED BY <2>1, <2>5, <4>1, <5>1, <5>2, <5>3, DueAfterMatch
            <4>2. CASE d # deal
                <5>1. Arrived /\ OthersBooked
                    BY <2>1, <2>3, <3>2, <3>6, <4>2 DEF Arrived, OthersBooked
                <5>2. Due BY <5>1 DEF Ledger
                <5>3. fill' = fill /\ \A a \in Assets : acct'[deal][a] = acct[deal][a]
                    BY <2>1, <2>3, <3>2, <3>6, <4>2 DEF Arrived
                <5> QED BY <2>1, <3>3, <5>2, <5>3
                    DEF Due, Booked, Transfer, SourceOf, TargetOf, Drawn
            <4> QED BY <4>1, <4>2
        <3> QED BY <3>4, <3>6 DEF Ledger
    <2> QED BY <2>2, <2>4, <2>5
<1>6. CASE Authorize
    <2>1. pc' = "attempt" /\ UNCHANGED <<inv, startSpent, acct, ex, orders>>
        BY <1>6 DEF Authorize, BeginLeg, exchange, journal
    <2>2. ~Arrived' BY <2>1 DEF Arrived, InHand, Waiting
    <2> QED BY <2>1, <2>2 DEF Ledger, LedgerExact
<1>7. CASE ~Touching
    <2>1. UNCHANGED <<inv, startSpent, acct, ex, orders>>
        BY <1>7, OthersTouchNothing DEF ledger, journal
    <2>2. InHand' => UNCHANGED <<deal, leg, phase, policy, fill>> /\ InHand
        <3> USE DEF InHand, Waiting, Goto, Step, Leave, BeginLeg, BeginRecovery, Fails, walk,
            exchange
        <3>1. CASE Loop
            BY <3>1 DEF Loop, LoopScan, NoCandidate, LoopClear, ClearFails, ConsumeClear, Restart
        <3>2. CASE Execute
            BY <3>2, <1>7 DEF Touching, Execute, StartDeal, PreflightFails, PreflightRejects, Skip,
                    AttemptFails, FinishLeg, CreditSettles, CreditFails
        <3>3. CASE Place
            BY <3>3, <1>7 DEF Touching, Place, ReadRejection, Timeout, GiveUp, LocalFault
        <3>4. CASE Flatten
            BY <3>4, <1>7 DEF Touching, Flatten, FetchTickers, TickersFail, RecoverNoEdge,
                RecoverDust,
                        Flattened, NotFlattened
        <3>5. CASE End
            BY <3>5 DEF End, HandleFailure, HandleAmbiguous, Archive, FinishFails
        <3>6. CASE Crash BY <3>6 DEF Crash
        <3>7. CASE Operator BY <3>7 DEF Operator, Pause, Resume, RequestClear
        <3> QED BY <1>7, <3>1, <3>2, <3>3, <3>4, <3>5, <3>6, <3>7 DEF Next, Process, Touching
    <2>3. InHand' => Label' = Label BY <2>2 DEF Label
    <2>4. Arrived' /\ OthersBooked' => Arrived /\ OthersBooked
        BY <2>1, <2>2, <2>3 DEF Arrived, OthersBooked
    <2>5. InHand' /\ Due => Due'
        BY <2>1, <2>2, <2>3 DEF Due, Booked, Transfer, SourceOf, TargetOf, Drawn
    <2> QED BY <2>1, <2>4, <2>5 DEF Ledger, LedgerExact, Arrived
<1> QED BY <1>1, <1>2, <1>3, <1>4, <1>5, <1>6, <1>7 DEF Touching

\* While no fill waits to be booked every fill of the deal at hand is.
LEMMA AllBooked ==
    ASSUME Settling, Executing, pc # "ambiguous", ~Arrived
    PROVE  \A l \in Labels : ex[deal][l] = "done" => orders[deal][l] = "BOOKED"
BY DEF Settling, Arrived

\* A fill draws on the purse its order was checked against.
LEMMA MatchWithinMeans ==
    ASSUME TypeOK, JournalInv, Settling, Untouched, Means, NEW d \in Deals, NEW l \in Labels,
           Match(d, l), UNCHANGED <<walk, carry, authorized, input>>
    PROVE  Means'
<1>14. UNCHANGED <<pc, phase, deal, leg, policy, amount, spent, out, Label>>
    BY DEF walk, carry, Label
<1>1. ex[d][l] = "open" /\ Unresolved(d, l) /\ input[d][l] \in Nat
    BY DEF Match, Unresolved, TypeOK, TypeJournal
<1>2. PICK f \in [spent : Nat, out : Nat] :
        /\ f.spent <= input[d][l] + MaxOver
        /\ \A e \in Deals, a \in Assets : acct'[e][a] =
             IF e = d /\ a = Source(l) THEN acct[d][a] - f.spent
             ELSE IF e = d /\ a = Target(l) THEN acct[d][a] + f.out ELSE acct[e][a]
        /\ \A e \in Deals, m \in Labels : ex'[e][m] = IF e = d /\ m = l THEN "done" ELSE ex[e][m]
        /\ fill' = IF d = deal /\ l = Label /\ pc \in Waiting THEN f ELSE fill
    BY MatchMoves
<1>3. /\ f.spent \in Nat /\ f.out \in Nat /\ MaxOver \in Nat
      /\ \A e \in Deals, a \in Assets : acct[e][a] \in Int /\ authorized[e] \in Nat
    BY BoundsAssumption DEF TypeOK, TypeExchange, TypeLedger
<1>4. Source(l) \in Assets /\ Target(l) \in Assets /\ Source(l) # Target(l)
      /\ \A m \in Labels : Source(m) \in Assets
    BY Ends
<1>5. Purse(d, Source(l)) >= input[d][l] BY <1>1 DEF Means
<1>6. \A m \in Labels : Unresolved(d, m) => m = l
    BY <1>1 DEF JournalInv, Lone, OneAtATime
<1>7. Mids \subseteq Assets /\ 0 \in Assets /\ 0 \notin Mids
    BY LegsAssumption DEF Mids, Assets
<1>8. WithinMeans'
    <2>1. \A a \in Assets : Purse(d, a)' + MaxOver >= 0
        <3> SUFFICES ASSUME NEW a \in Assets PROVE Purse(d, a)' + MaxOver >= 0
            OBVIOUS
        <3>1. Purse(d, a) + MaxOver >= 0
            BY <1>3, <1>7 DEF Means, WithinMeans, Purse, Mids, Assets
        <3>2. CASE a = Source(l)
            BY <1>1, <1>2, <1>3, <1>5, <3>2 DEF Purse
        <3>3. CASE a # Source(l)
            BY <1>2, <1>3, <3>1, <3>3 DEF Purse
        <3> QED BY <3>2, <3>3
    <2>2. \A e \in Deals : e # d => \A a \in Assets : acct'[e][a] = acct[e][a]
        BY <1>2
    <2>3. ASSUME NEW e \in Deals, e = d
          PROVE  /\ acct'[e][0] + authorized[e] + MaxOver >= 0
                 /\ \A a \in Mids : acct'[e][a] + MaxOver >= 0
        <3>1. Purse(d, 0)' + MaxOver >= 0 BY <1>7, <2>1
        <3>2. \A a \in Mids : Purse(d, a)' + MaxOver >= 0 /\ a # 0 BY <1>7, <2>1
        <3>3. \A a \in Mids : acct'[d][a] + MaxOver >= 0
            <4>1. \A a \in Assets : acct'[d][a] \in Int BY <1>2, <1>3
            <4> QED BY <1>7, <3>2, <4>1 DEF Purse
        <3> QED BY <2>3, <3>1, <3>3 DEF Purse
    <2>4. ASSUME NEW e \in Deals, e # d
          PROVE  /\ acct'[e][0] + authorized[e] + MaxOver >= 0
                 /\ \A a \in Mids : acct'[e][a] + MaxOver >= 0
        BY <1>7, <2>2, <2>4 DEF Means, WithinMeans
    <2> QED BY <2>3, <2>4 DEF WithinMeans
<1>9. ASSUME NEW e \in Deals, NEW m \in Labels, Unresolved(e, m)'
      PROVE  Purse(e, Source(m))' >= input[e][m]
    <2>1. Unresolved(e, m) /\ e # d BY <1>2, <1>6, <1>9 DEF Unresolved
    <2> QED BY <1>2, <1>4, <2>1 DEF Means, Purse
<1>10. Executing /\ pc # "ambiguous" /\ d = deal => pc \in Waiting /\ l = Label
    BY <1>1 DEF JournalInv, Quiet
<1>11. pc \in {"send", "attempt", "credit"} \cup Placing =>
         deal \in Deals /\ Executing /\ pc # "ambiguous"
    BY DEF JournalInv, FilesOK, Executing, Idling, Placing, Waiting
<1>12. pc = "send" => Purse(deal, Source(Label))' >= input[deal][Label]
    <2> SUFFICES ASSUME pc = "send" PROVE Purse(deal, Source(Label))' >= input[deal][Label]
        OBVIOUS
    <2>1. d # deal /\ Label \in Labels BY <1>10, <1>11 DEF Waiting, JournalInv, WalkOK, Placing
    <2> QED BY <1>2, <1>4, <1>11, <1>14, <2>1 DEF Means, Purse
<1>13. ASSUME phase = "legs", pc \in {"attempt", "credit"} \cup Placing
       PROVE  /\ pc # "credit" => Purse(deal, leg - 1)' + spent + fill'.spent >= amount
              /\ leg < N => acct'[deal][leg] >= out + fill'.out
    <2>1. /\ pc # "credit" => Purse(deal, leg - 1) + spent + fill.spent >= amount
          /\ leg < N => acct[deal][leg] >= out + fill.out
        BY <1>13 DEF Means
    <2>2. leg \in Legs /\ leg - 1 \in Assets /\ (leg < N => leg \in Assets)
        BY LegsAssumption DEF TypeOK, TypeWalk, Legs, Assets
    <2>3. spent \in Nat /\ amount \in Nat /\ out \in Nat
        BY DEF TypeOK, TypeCarry
    <2>4. CASE d # deal
        <3>1. fill' = fill /\ \A a \in Assets : acct'[deal][a] = acct[deal][a]
            BY <1>2, <1>11, <1>13, <2>4
        <3> QED BY <1>14, <2>1, <2>2, <3>1 DEF Purse
    <2>5. CASE d = deal
        <3>1. pc \in Waiting /\ l = Label /\ fill' = f
            BY <1>2, <1>10, <1>11, <1>13, <2>5
        <3>2. Source(l) = leg - 1 /\ (leg < N => Target(l) = leg)
            BY <1>13, <2>2, <3>1 DEF Label, Source, Target, TypeOK, TypeWalk, Policies, Legs
        <3>3. fill = NoFill
            BY <1>1, <2>5, <3>1 DEF Settling, Arrived, Unresolved, Waiting
        <3>4. Purse(deal, leg - 1)' = Purse(deal, leg - 1) - f.spent
            BY <1>2, <1>3, <1>11, <1>13, <1>14, <2>2, <2>5, <3>2 DEF Purse
        <3>5. leg < N => acct'[deal][leg] = acct[deal][leg] + f.out
            BY <1>2, <1>4, <2>2, <2>5, <3>2
        <3>6. Purse(deal, leg - 1) \in Int /\ (leg < N => acct[deal][leg] \in Int)
            BY <1>3, <1>11, <1>13, <2>2 DEF Purse
        <3>7. pc # "credit" BY <3>1 DEF Waiting
        <3>8. fill.spent = 0 /\ fill.out = 0 BY <3>3 DEF NoFill
        <3> QED BY <1>3, <2>1, <2>3, <3>1, <3>4, <3>5, <3>6, <3>7, <3>8
    <2> QED BY <2>4, <2>5
<1> QED BY <1>8, <1>9, <1>12, <1>13, <1>14 DEF Means, Placing, Waiting

\* An order asks for no more than its source may still spend: what is left of the
\* leg's budget, or the position a recovery sells, which the ledger has exactly.
LEMMA AppendWithinMeans ==
    ASSUME TypeOK, JournalInv, Settling, Ledger, Means, Journal \/ RecoverJournal
    PROVE  Means'
<1>1. /\ deal \in Deals /\ Label' \in Labels /\ deal' = deal /\ pc' = "send"
      /\ UNCHANGED <<authorized, ex, acct, fill>>
    BY JournalOrders, AppendMoves
<1>2. PICK q \in Nat \ {0} : \A d \in Deals, l \in Labels :
        input'[d][l] = IF d = deal /\ l = Label' THEN q ELSE input[d][l]
    BY JournalOrders, AppendMoves
<1>3. ~Arrived /\ Executing /\ pc # "ambiguous" /\ pc \notin Waiting
    BY DEF Journal, RecoverJournal, Arrived, InHand, Waiting, Executing, Idling
<1>4. \A l \in Labels : ~Unresolved(deal, l)
    BY <1>3 DEF JournalInv, Quiet
<1>5. \A d \in Deals, l \in Labels : Unresolved(d, l)' => Purse(d, Source(l))' >= input'[d][l]
    BY <1>1, <1>2, <1>4 DEF Means, Purse, Unresolved
<1>6. WithinMeans' BY <1>1 DEF Means, WithinMeans
<1>7. /\ Purse(deal, Source(Label))' >= input'[deal][Label']
      /\ phase' = "legs" => /\ Purse(deal, leg - 1)' + spent' + fill'.spent >= amount'
                            /\ leg' < N => acct'[deal][leg'] >= out' + fill'.out
    <2>1. \A a \in Assets : Purse(deal, a)' = Purse(deal, a) /\ Purse(deal, a) \in Int
        BY <1>1 DEF Purse, TypeOK, TypeExchange, TypeLedger
    <2>2. CASE Journal
        <3>1. /\ pc = "attempt" /\ phase = "legs" /\ Remaining # 0
              /\ UNCHANGED <<phase, leg, policy, spent, out, amount>> /\ Label' = Label
              /\ input'[deal][Label] = Remaining
            BY <1>1, <2>2 DEF Journal, Append, Goto, carry, Label, JournalInv, WalkOK, LegOver,
                              TypeOK, TypeJournal
        <3>2. Source(Label) = leg - 1 /\ leg - 1 \in Assets
            BY <3>1, LegsAssumption DEF Label, Source, TypeOK, TypeWalk, Policies, Legs, Assets
        <3>3. fill.spent = 0 /\ fill.out = 0
            BY <1>3, <3>1 DEF Settling, NoFill
        <3>4. /\ Purse(deal, leg - 1) + spent + fill.spent >= amount
              /\ leg < N => acct[deal][leg] >= out + fill.out
            BY <3>1 DEF Means
        <3>5. spent < amount /\ Remaining = amount - spent
            BY <3>1 DEF Remaining, TypeOK, TypeCarry
        <3>6. spent \in Nat /\ amount \in Nat BY DEF TypeOK, TypeCarry
        <3>7. Purse(deal, leg - 1) >= Remaining
            BY <2>1, <3>2, <3>3, <3>4, <3>5, <3>6
        <3> QED BY <1>1, <2>1, <3>1, <3>2, <3>4, <3>7
    <2>3. CASE RecoverJournal
        <3>1. PICK a \in Mids : inv[deal][a] \in MarketLots /\ leg' = a
                                /\ Append(<<a, "RECOVERY">>, inv[deal][a])
            BY <2>3 DEF RecoverJournal, Executable
        <3>2. phase # "legs" /\ phase' = phase
            BY <2>3 DEF RecoverJournal, JournalInv, WalkOK
        <3>3. Label' = <<a, "RECOVERY">> /\ Source(Label') = a
            BY <3>1, <3>2 DEF Label, Source
        <3>4. input'[deal][Label'] = inv[deal][a]
            BY <1>1, <3>1, <3>3 DEF Append, TypeOK, TypeJournal
        <3>5. inv[deal][a] = Held(acct[deal][a])
            BY <1>1, <1>3, AllBooked DEF Ledger, LedgerExact, Held
        <3>6. inv[deal][a] \in Nat \ {0} /\ a \in Assets /\ a # 0
            <4>1. inv[deal][a] \in Nat \ {0} BY <3>1, LotsAssumption
            <4>2. a \in Assets /\ a # 0 BY LegsAssumption DEF Mids, Assets
            <4> QED BY <4>1, <4>2
        <3>7. acct[deal][a] \in Int BY <1>1, <3>6 DEF TypeOK, TypeExchange
        <3>8. acct[deal][a] = inv[deal][a] BY <3>5, <3>6, <3>7 DEF Held
        <3>9. Purse(deal, a) = acct[deal][a] BY <3>6, <3>7 DEF Purse
        <3> QED BY <1>1, <2>1, <3>2, <3>3, <3>4, <3>6, <3>8, <3>9
    <2> QED BY <2>2, <2>3
<1> QED BY <1>1, <1>5, <1>6, <1>7 DEF Means

\* What an unchanged exchange and journal keep of the means: all but the leg's budget.
LEMMA MeansKept ==
    ASSUME Means, UNCHANGED <<authorized, acct, input, ex>>
    PROVE  /\ WithinMeans'
           /\ \A d \in Deals, l \in Labels :
               Unresolved(d, l)' => Purse(d, Source(l))' >= input'[d][l]
BY DEF Means, WithinMeans, Purse, Unresolved

LEMMA MeansStep ==
    ASSUME TypeOK, JournalInv, Settling, Untouched, Ledger, Means, ~LocalFaults, Next
    PROVE  Means'
<1>1. CASE Journal \/ RecoverJournal BY <1>1, AppendWithinMeans
<1>2. CASE Send
    <2>1. /\ pc = "send" /\ pc' = "await"
          /\ UNCHANGED <<deal, phase, leg, policy, Label, amount, spent, out>>
        BY <1>2 DEF Send, Goto, Label, carry
    <2>2. Purse(deal, Source(Label)) >= input[deal][Label] BY <2>1 DEF Means
    <2>3. \A d \in Deals, l \in Labels : Unresolved(d, l)' => Purse(d, Source(l))' >= input'[d][l]
        BY <1>2, <2>2, JournalOrders, SendMoves DEF Means, Purse, Unresolved
    <2> QED BY <1>2, <2>1, <2>3, JournalOrders, SendMoves
            DEF Means, WithinMeans, Purse, Placing, Waiting
<1>3. CASE ReadFill \/ ReadNew \/ IdentityMismatch
    <2>1. /\ pc \in Waiting /\ pc' \in {"account", "ambiguous", "poll"}
          /\ UNCHANGED <<deal, phase, leg, policy, fill, amount, spent, out, acct, ex>>
        BY <1>3 DEF ReadFill, ReadNew, IdentityMismatch, Goto, exchange, carry, Waiting
    <2> QED BY <1>3, <2>1, JournalOrders, MarkMoves, MeansKept DEF Means, Purse, Placing, Waiting
<1>4. CASE Account
    <2>1. /\ pc = "account" /\ pc' \in {"raise", "attempt"} /\ phase = "legs"
          /\ UNCHANGED <<deal, phase, leg, amount, acct, ex>>
          /\ spent' = spent + fill.spent /\ out' = out + fill.out /\ fill' = NoFill
        BY <1>4, JournalOrders, MarkMoves DEF Account
    <2>2. WithinMeans' /\ \A d \in Deals, l \in Labels :
            Unresolved(d, l)' => Purse(d, Source(l))' >= input'[d][l]
        BY <1>4, JournalOrders, MarkMoves, MeansKept
    <2>3. /\ Purse(deal, leg - 1) + spent + fill.spent >= amount
          /\ leg < N => acct[deal][leg] >= out + fill.out
        BY <2>1 DEF Means, Placing
    <2>4. fill'.spent = 0 /\ fill'.out = 0 BY <2>1 DEF NoFill
    <2>5. spent \in Nat /\ out \in Nat /\ fill.spent \in Nat /\ fill.out \in Nat /\ deal \in Deals
        BY <1>4, JournalOrders, MarkMoves DEF TypeOK, TypeCarry, TypeFill
    <2>6. leg - 1 \in Assets BY LegsAssumption DEF TypeOK, TypeWalk, Legs, Assets
    <2>7. Purse(deal, leg - 1)' = Purse(deal, leg - 1) /\ Purse(deal, leg - 1) \in Int
        BY <1>4, <2>1, <2>5, <2>6, JournalOrders, MarkMoves
           DEF Purse, TypeOK, TypeExchange, TypeLedger
    <2>8. Purse(deal, leg - 1) + spent' + fill'.spent >= amount
        BY <2>1, <2>3, <2>4, <2>5, <2>7
    <2>9. leg < N => acct[deal][leg] >= out' + fill'.out
        BY <2>1, <2>3, <2>4, <2>5
    <2> QED BY <2>1, <2>2, <2>7, <2>8, <2>9 DEF Means, Placing, Waiting
<1>5. CASE AccountRecovery
    <2>1. pc' = "recover" /\ UNCHANGED <<acct, ex, input, authorized>>
        BY <1>5, JournalOrders, MarkMoves DEF AccountRecovery, Goto
    <2> QED BY <2>1, MeansKept DEF Means, Placing, Waiting
<1>6. CASE Exchange
    <2>1. UNCHANGED <<walk, carry, authorized, input>>
        BY <1>6, ExchangeOnlySettles DEF TypeOK, ledger, journal
    <2>2. PICK d \in Deals, l \in Labels : Accept(d, l) \/ Match(d, l)
        BY <1>6 DEF Exchange
    <2>3. CASE Accept(d, l)
        <3>1. UNCHANGED <<acct, fill>> BY <2>3, AcceptMoves
        <3>2. \A e \in Deals, m \in Labels : Unresolved(e, m)' => Unresolved(e, m)
            BY <1>6, ExchangeOnlySettles DEF TypeOK
        <3> QED BY <2>1, <3>1, <3>2 DEF Means, WithinMeans, Purse, walk, carry, Label, Placing,
            Waiting
    <2>4. CASE Match(d, l) BY <2>1, <2>4, MatchWithinMeans
    <2> QED BY <2>2, <2>3, <2>4
<1>7. CASE Authorize
    <2>1. PICK q \in 1..MaxAmount :
            /\ authorized' = [authorized EXCEPT ![deal] = q] /\ amount' = q
            /\ spent' = 0 /\ leg' = 1 /\ out' = 0 /\ UNCHANGED phase
        BY <1>7 DEF Authorize, BeginLeg
    <2>2. /\ pc = "preflight" /\ pc' = "attempt" /\ deal \in Deals
          /\ UNCHANGED <<deal, acct, ex, input, fill>>
        BY <1>7 DEF Authorize, BeginLeg, exchange, journal, JournalInv, FilesOK, Executing, Idling
    <2>3. \A a \in Assets : acct[deal][a] = 0 BY <2>2 DEF Untouched
    <2>4. authorized[deal] = 0 /\ fill.spent = 0 /\ fill.out = 0
        BY <2>2 DEF Untouched, Settling, Arrived, InHand, Waiting, NoFill
    <2>5. \A d \in Deals : authorized'[d] = IF d = deal THEN q ELSE authorized[d]
        BY <2>1 DEF TypeOK, TypeLedger
    <2>6. 0 \in Assets /\ 1 \in Assets /\ MaxOver \in Nat /\ Mids \subseteq Assets
        BY LegsAssumption, BoundsAssumption DEF Assets, Mids
    <2>7. \A l \in Labels : ~Unresolved(deal, l)
        BY <2>2 DEF JournalInv, Quiet, Executing, Idling, Waiting
    <2>8. WithinMeans' BY <2>1, <2>2, <2>3, <2>4, <2>5, <2>6 DEF Means, WithinMeans
    <2>9. \A d \in Deals, l \in Labels : Unresolved(d, l)' => Purse(d, Source(l))' >= input'[d][l]
        BY <2>2, <2>5, <2>7 DEF Means, Purse, Unresolved
    <2>10. Purse(deal, 0)' = q /\ acct'[deal][1] = 0
        BY <2>2, <2>3, <2>5, <2>6 DEF Purse
    <2>11. q \in Nat BY BoundsAssumption
    <2> QED BY <2>1, <2>2, <2>4, <2>8, <2>9, <2>10, <2>11 DEF Means, Placing, Waiting
<1>8. CASE CreditSettles
    <2>1. UNCHANGED <<deal, acct, ex, input, authorized, fill>> /\ pc = "credit" /\ phase = "legs"
        BY <1>8 DEF CreditSettles, BeginLeg, BeginRecovery, exchange, journal, ledger,
            JournalInv, WalkOK
    <2>2. CASE leg < N /\ BeginLeg(leg + 1, out)
        <3>1. /\ pc' = "attempt" /\ leg' = leg + 1 /\ amount' = out /\ spent' = 0 /\ out' = 0
            BY <2>2 DEF BeginLeg
        <3>2. fill.spent = 0 /\ fill.out = 0
            BY <2>1 DEF Settling, Arrived, InHand, Waiting, NoFill
        <3>3. acct[deal][leg] >= out + fill.out BY <2>1, <2>2 DEF Means
        <3>4. leg \in Legs /\ leg \in Assets /\ leg # 0 /\ deal \in Deals
            BY <2>1, <2>2, LegsAssumption
               DEF TypeOK, TypeWalk, Legs, Assets, JournalInv, FilesOK, Executing, Idling
        <3>5. acct[deal][leg] \in Int /\ out \in Nat
            BY <3>4 DEF TypeOK, TypeExchange, TypeCarry
        <3>6. Purse(deal, leg - 1)' = acct[deal][leg]
            <4>1. leg' - 1 = leg BY <3>1, <3>4 DEF Legs
            <4> QED BY <2>1, <3>4, <3>5, <4>1 DEF Purse
        <3>7. leg + 1 < N => acct[deal][leg + 1] >= 0
            <4>1. leg + 1 < N => leg + 1 \in Mids /\ leg + 1 >= leg
                BY <3>4, LegsAssumption DEF Legs, Mids
            <4> QED BY <2>1, <4>1 DEF Untouched, Executing, Idling
        <3>8. Purse(deal, leg - 1)' + spent' + fill'.spent >= amount'
            BY <2>1, <3>1, <3>2, <3>3, <3>5, <3>6
        <3>9. leg' < N => acct'[deal'][leg'] >= out' + fill'.out
            BY <2>1, <3>1, <3>2, <3>7
        <3> QED BY <2>1, <3>1, <3>8, <3>9, MeansKept DEF Means, Placing, Waiting
    <2>3. CASE BeginRecovery("flatten")
        BY <2>1, <2>3, MeansKept DEF BeginRecovery, Means, Placing, Waiting
    <2> QED BY <1>8, <2>2, <2>3 DEF CreditSettles
<1>9. CASE ~Touching /\ ~CreditSettles
    <2>1. UNCHANGED <<authorized, acct, ex, input>>
        BY <1>9, OthersTouchNothing DEF ledger, journal
    <2>2. /\ phase' = "legs" /\ pc' \in {"attempt", "credit"} \cup Placing =>
               /\ UNCHANGED <<deal, leg, amount, spent, out, fill>> /\ phase = "legs"
               /\ pc \in {"attempt", "credit"} \cup Placing
               /\ pc = "credit" => pc' = "credit"
          /\ pc' = "send" => pc = "send" /\ UNCHANGED <<deal, Label>>
        <3> USE DEF Placing, Waiting, Goto, Step, Leave, BeginRecovery, Fails, walk, carry,
            exchange, Label
        <3>1. CASE Loop
            BY <3>1 DEF Loop, LoopScan, NoCandidate, LoopClear, ClearFails, ConsumeClear, Restart
        <3>2. CASE Execute
            BY <3>2, <1>9 DEF Touching, Execute, StartDeal, PreflightFails, PreflightRejects, Skip,
                    AttemptFails, FinishLeg, CreditFails
        <3>3. CASE Place
            BY <3>3, <1>9 DEF Touching, Place, ReadRejection, Timeout, GiveUp, LocalFault
        <3>4. CASE Flatten
            BY <3>4, <1>9 DEF Touching, Flatten, FetchTickers, TickersFail, RecoverNoEdge,
                RecoverDust,
                        Flattened, NotFlattened
        <3>5. CASE End
            BY <3>5 DEF End, HandleFailure, HandleAmbiguous, Archive, FinishFails
        <3>6. CASE Crash BY <3>6 DEF Crash
        <3>7. CASE Operator BY <3>7 DEF Operator, Pause, Resume, RequestClear
        <3> QED BY <1>9, <3>1, <3>2, <3>3, <3>4, <3>5, <3>6, <3>7 DEF Next, Process, Touching
    <2> QED BY <2>1, <2>2, MeansKept DEF Means, Purse, Placing, Waiting
<1> QED BY <1>1, <1>2, <1>3, <1>4, <1>5, <1>6, <1>7, <1>8, <1>9 DEF Touching

\* What is retired was flat in the ledger, and the ledger was exact.
LEMMA FlatStep ==
    ASSUME NoMaximum, TypeOK, JournalInv, Settling, Untouched, Ledger, Flat, ~LocalFaults, Next
    PROVE  Flat'
<1>1. Mids \subseteq Assets /\ 0 \notin MarketLots /\ 0 \notin Mids
    BY LegsAssumption, LotsAssumption DEF Mids, Assets
<1>2. CASE Journal \/ RecoverJournal
    <2>1. pc' = "send" /\ UNCHANGED <<deal, phase, todo, ok, inv, acct, place, status>>
        BY <1>2, JournalOrders, JournaledOrder, AppendMoves DEF Journal, RecoverJournal, flat, files
    <2>2. phase # "legs" => pc = "recover"
        BY <1>2 DEF Journal, RecoverJournal, JournalInv, WalkOK
    <2> QED BY <2>1, <2>2 DEF Flat, RetiredFlat, Retired
<1>3. CASE Send
    <2>1. pc = "send" /\ pc' = "await" /\ UNCHANGED <<deal, phase, todo, ok, inv, acct,
                                                          place, status>>
        BY <1>3 DEF Send, Goto, flat, ledger, files
    <2> QED BY <2>1 DEF Flat, RetiredFlat, Retired, Placing
<1>4. CASE ReadFill \/ ReadNew \/ IdentityMismatch
    <2>1. /\ UNCHANGED <<deal, phase, todo, ok, inv, acct, place, status>>
          /\ pc \in Waiting /\ pc' \in {"account", "ambiguous", "poll"}
        BY <1>4 DEF ReadFill, ReadNew, IdentityMismatch, Goto, flat, ledger, files, exchange,
            Waiting
    <2> QED BY <2>1 DEF Flat, RetiredFlat, Retired, Placing
<1>5. CASE Account
    <2>1. pc' \in {"raise", "attempt"} /\ UNCHANGED <<phase, place, status, acct>> /\ phase = "legs"
        BY <1>5 DEF Account, files
    <2> QED BY <2>1 DEF Flat, RetiredFlat, Retired
<1>6. CASE AccountRecovery
    <2>1. /\ pc = "account" /\ phase # "legs" /\ pc' = "recover" /\ inv' = Booked(Label)
          /\ UNCHANGED <<deal, phase, place, status, acct>> /\ todo' = todo \ {leg}
          /\ ok' => ok /\ inv'[deal][leg] \notin MarketLots
        BY <1>6 DEF AccountRecovery, Goto, files, Executable
    <2>2. deal \in Deals /\ Label \in Labels /\ Source(Label) = leg /\ Target(Label) = 0
        BY <1>6, <2>1, JournalOrders, MarkMoves DEF Label, Source, Target
    <2>3. \A a \in Mids : a # leg => inv'[deal][a] = inv[deal][a]
        BY <1>1, <2>1, <2>2, BookedMoves
    <2> QED BY <2>1, <2>3 DEF Flat, RetiredFlat, Retired, Placing
<1>7. CASE Exchange
    <2>1. UNCHANGED <<pc, phase, deal, todo, ok, inv, place, status>>
        BY <1>7, ExchangeOnlySettles DEF TypeOK, walk, flat, ledger, files
    <2>2. PICK d \in Deals, l \in Labels : Accept(d, l) \/ Match(d, l)
        BY <1>7 DEF Exchange
    <2>3. \A e \in Deals : Retired(e) => \A a \in Mids : acct'[e][a] = acct[e][a]
        <3>1. CASE Accept(d, l) BY <3>1, AcceptMoves
        <3>2. CASE Match(d, l)
            <4>1. ~Retired(d) BY <3>2 DEF Match, JournalInv, RetiredSettled, Unresolved
            <4> QED BY <1>1, <3>2, <4>1, MatchMoves
        <3> QED BY <2>2, <3>1, <3>2
    <2> QED BY <2>1, <2>3 DEF Flat, RetiredFlat, Retired, Placing, Waiting
<1>8. CASE Authorize
    <2>1. pc' = "attempt" /\ phase' = "legs" /\ UNCHANGED <<place, status, acct>>
        BY <1>8 DEF Authorize, BeginLeg, files, exchange, JournalInv, WalkOK
    <2> QED BY <2>1 DEF Flat, RetiredFlat, Retired, Placing, Waiting
<1>9. CASE Archive
    <2>1. /\ pc = "retire" /\ pc' \in {"dead", "idle"} /\ phase' = "legs"
          /\ \A d \in Deals : d # deal => place'[d] = place[d]
          /\ UNCHANGED <<status, acct>>
        BY <1>9 DEF Archive, Leave, TypeOK, TypeFiles
    <2>2. deal \in Deals /\ Executing /\ pc # "ambiguous" /\ ~Arrived
        BY <2>1 DEF JournalInv, FilesOK, Executing, Idling, Arrived, InHand, Waiting
    <2>3. \A a \in Mids : inv[deal][a] = Held(acct[deal][a])
        BY <2>2, AllBooked DEF Ledger, LedgerExact, Held
    <2>4. ASSUME NEW a \in Mids, NEW q \in MarketLots PROVE acct[deal][a] < q
        <3>1. inv[deal][a] \notin MarketLots BY <2>1 DEF Flat
        <3>2. q \in Nat /\ q > 0 BY LotsAssumption
        <3>3. acct[deal][a] \in Int BY <1>1, <2>2 DEF TypeOK, TypeExchange
        <3>4. inv[deal][a] = Held(acct[deal][a]) BY <2>3
        <3>5. acct[deal][a] >= q => acct[deal][a] \in MarketLots
            BY <3>2, <3>3 DEF NoMaximum
        <3>6. acct[deal][a] > 0 => inv[deal][a] = acct[deal][a]
            BY <3>4 DEF Held
        <3> QED BY <3>1, <3>2, <3>3, <3>5, <3>6
    <2> QED BY <2>1, <2>4 DEF Flat, RetiredFlat, Retired, Placing, Waiting
<1>10. CASE ~Touching /\ ~Archive
    <2>1. UNCHANGED <<inv, acct>>
        BY <1>10, OthersTouchNothing DEF ledger
    <2>2. \A d \in Deals : Retired(d)' => Retired(d)
        <3> USE DEF Retired, Step, SetStatus, files, TypeOK, TypeFiles
        <3>1. CASE Loop
            BY <3>1 DEF Loop, LoopScan, NoCandidate, LoopClear, ClearFails, ConsumeClear, Restart
        <3>2. CASE Execute
            BY <3>2, <1>10 DEF Touching, Execute, StartDeal, PreflightFails, PreflightRejects, Skip,
                    AttemptFails, FinishLeg, CreditSettles, CreditFails, JournalInv, FilesOK,
                    Executing, Idling
        <3>3. CASE Place
            BY <3>3, <1>10 DEF Touching, Place, ReadRejection, Timeout, GiveUp, LocalFault
        <3>4. CASE Flatten
            BY <3>4, <1>10 DEF Touching, Flatten, FetchTickers, TickersFail, RecoverNoEdge,
                RecoverDust,
                        Flattened, NotFlattened, JournalInv, FilesOK, Executing, Idling
        <3>5. CASE End
            BY <3>5, <1>10 DEF End, HandleFailure, HandleAmbiguous, FinishFails,
                        JournalInv, FilesOK, Executing, Idling
        <3>6. CASE Crash BY <3>6 DEF Crash
        <3>7. CASE Operator BY <3>7 DEF Operator, Pause, Resume, RequestClear
        <3> QED BY <1>10, <3>1, <3>2, <3>3, <3>4, <3>5, <3>6, <3>7 DEF Next, Process, Touching
    <2>3. RetiredFlat' BY <2>1, <2>2 DEF Flat, RetiredFlat
    <2>4. /\ pc' = "tickers" => ok' /\ \A a \in Mids \ todo' : inv[deal'][a] = 0
          /\ phase' # "legs" /\ ok' /\ pc' \in {"recover"} \cup Placing =>
               \A a \in Mids \ todo' : inv[deal'][a] \notin MarketLots
          /\ pc' = "retire" => \A a \in Mids : inv[deal'][a] \notin MarketLots
        <3> USE <1>1 DEF Flat, Placing, Waiting, Goto, Step, Leave, BeginLeg, Fails, SetStatus,
                walk, carry, flat, JournalInv, WalkOK
        <3>1. ASSUME NEW p, BeginRecovery(p), deal \in Deals
              PROVE  pc' = "tickers" /\ ok' /\ \A a \in Mids \ todo' : inv[deal'][a] = 0
            BY <3>1 DEF BeginRecovery, Positions, TypeOK, TypeLedger
        <3>2. Executing => deal \in Deals BY DEF FilesOK
        <3>3. CASE Loop
            BY <3>3 DEF Loop, LoopScan, NoCandidate, LoopClear, ClearFails, ConsumeClear, Restart
        <3>4. CASE CreditSettles
            BY <3>1, <3>2, <3>4 DEF CreditSettles, Executing, Idling
        <3>5. CASE PreflightRejects
            <4>1. \A a \in Assets : inv[deal][a] = 0
                BY <3>2, <3>5 DEF PreflightRejects, Untouched, Executing, Idling
            <4> QED BY <3>5, <4>1 DEF PreflightRejects
        <3>6. CASE Execute /\ ~CreditSettles /\ ~PreflightRejects
            BY <3>6, <1>10 DEF Touching, Execute, StartDeal, PreflightFails, Skip, AttemptFails,
                    FinishLeg, CreditFails
        <3>7. CASE Place
            BY <3>7, <1>10 DEF Touching, Place, ReadRejection, Timeout, GiveUp, LocalFault
        <3>8. CASE Flatten
            BY <3>8, <1>10 DEF Touching, Flatten, FetchTickers, TickersFail, RecoverNoEdge,
                RecoverDust,
                        Flattened, NotFlattened, FirstOf, Executable
        <3>9. CASE HandleFailure
            BY <3>1, <3>2, <3>9 DEF HandleFailure, Executing, Idling
        <3>10. CASE End /\ ~HandleFailure
            BY <3>10, <1>10 DEF End, HandleAmbiguous, FinishFails
        <3>11. CASE Crash BY <3>11 DEF Crash
        <3>12. CASE Operator BY <3>12 DEF Operator, Pause, Resume, RequestClear
        <3> QED BY <1>10, <3>3, <3>4, <3>5, <3>6, <3>7, <3>8, <3>9, <3>10, <3>11, <3>12
                DEF Next, Process, Touching
    <2> QED BY <2>1, <2>3, <2>4 DEF Flat
<1> QED BY <1>2, <1>3, <1>4, <1>5, <1>6, <1>7, <1>8, <1>9, <1>10 DEF Touching

-----------------------------------------------------------------------------
(* The theorems.                                                            *)

LEMMA LedgerInit == Init => BooksInv /\ LedgerInv /\ Flat
<1> SUFFICES ASSUME Init PROVE BooksInv /\ LedgerInv /\ Flat
    OBVIOUS
<1>1. /\ pc = "idle" /\ phase = "legs" /\ fill = NoFill
      /\ \A d \in Deals : /\ place[d] = "none" /\ startSpent[d] = 0 /\ authorized[d] = 0
                          /\ \A a \in Assets : inv[d][a] = 0 /\ acct[d][a] = 0
                          /\ \A l \in Labels : ex[d][l] = "none" /\ orders[d][l] = "none"
    BY DEF Init
<1>2. Mids \subseteq Assets /\ 0 \in Assets /\ MaxOver \in Nat
    BY LegsAssumption, BoundsAssumption DEF Mids, Assets
<1>3. Booking /\ Settling
    BY <1>1 DEF Booking, Settling, Executing, Idling, Placing, Waiting
<1>4. Untouched BY <1>1 DEF Untouched, Executing, Idling
<1>5. Ledger BY <1>1, <1>2 DEF Ledger, LedgerExact, Arrived, InHand, Waiting
<1>6. Means BY <1>1, <1>2 DEF Means, WithinMeans, Unresolved, Placing, Waiting
<1>7. Flat BY <1>1 DEF Flat, RetiredFlat, Retired, Placing, Waiting
<1> QED BY <1>3, <1>4, <1>5, <1>6, <1>7 DEF BooksInv, LedgerInv

LEMMA BooksInvStep == TypeOK /\ OrdersInv /\ BooksInv /\ [Next]_vars => BooksInv'
<1>1. ASSUME TypeOK, OrdersInv, BooksInv, Next PROVE BooksInv'
    BY <1>1, BookingStep, UntouchedStep, LedgerStep DEF BooksInv
<1>2. ASSUME BooksInv, UNCHANGED vars PROVE BooksInv'
    <2> USE <1>2 DEF BooksInv, vars, walk, carry, ledger, journal, files, exchange, Label,
            Executing, Arrived, InHand
    <2>1. Booking' BY DEF Booking
    <2>2. Untouched' BY DEF Untouched
    <2>3. Ledger'
        BY DEF Ledger, LedgerExact, OthersBooked, Due, Booked, Transfer, SourceOf, TargetOf, Drawn
    <2> QED BY <2>1, <2>2, <2>3
<1> QED BY <1>1, <1>2

LEMMA LedgerInvStep ==
    TypeOK /\ JournalInv /\ BooksInv /\ LedgerInv /\ ~LocalFaults /\ [Next]_vars => LedgerInv'
<1>1. ASSUME TypeOK, JournalInv, BooksInv, LedgerInv, ~LocalFaults, Next PROVE LedgerInv'
    BY <1>1, SettlingStep, MeansStep DEF BooksInv, LedgerInv
<1>2. ASSUME LedgerInv, UNCHANGED vars PROVE LedgerInv'
    <2> USE <1>2 DEF LedgerInv, vars, walk, carry, ledger, journal, files, exchange, Label,
            Executing, Arrived, InHand
    <2>1. Settling' BY DEF Settling
    <2>2. Means' BY DEF Means, WithinMeans, Purse, Unresolved
    <2> QED BY <2>1, <2>2
<1> QED BY <1>1, <1>2

\* What is booked was filled, and the ledger is exact but for the fill at hand and those
\* a local fault or a crash left unbooked.
THEOREM BooksHold == Spec => []BooksInv
<1>1. Init => BooksInv BY LedgerInit
<1>2. TypeOK /\ OrdersInv /\ BooksInv /\ [Next]_vars => BooksInv'
    BY BooksInvStep
<1> QED BY <1>1, <1>2, TypeCorrect, OrdersHold, PTL DEF Spec

\* The inventory and the start spend on disk are what the exchange moved, but for fills
\* not booked yet (executor.py, _update_inventory and the saves around it).
THEOREM LedgerIsExact == Spec => []LedgerExact
<1>1. BooksInv => LedgerExact BY DEF BooksInv, Ledger
<1> QED BY <1>1, BooksHold, PTL

\* Of the deal at hand only the fill being waited on is not booked, and what a deal may
\* still spend covers every order that may still fill.
THEOREM LedgerHolds == ASSUME ~LocalFaults PROVE Spec => []LedgerInv
<1>1. Init => LedgerInv BY LedgerInit
<1>2. TypeOK /\ JournalInv /\ BooksInv /\ LedgerInv /\ [Next]_vars => LedgerInv'
    BY LedgerInvStep
<1> QED BY <1>1, <1>2, TypeCorrect, JournalHolds, BooksHold, PTL DEF Spec

\* A deal spends no more of any asset than it was authorized or acquired, but for what one
\* fill may overspend: over all policies, legs, recovery orders and crashes.
THEOREM DealsStayWithinMeans == ASSUME ~LocalFaults PROVE Spec => []WithinMeans
<1>1. LedgerInv => WithinMeans BY DEF LedgerInv, Means
<1> QED BY <1>1, LedgerHolds, PTL

\* A deal the service retired left nothing the market would take, provided that what it
\* takes has no upper limit: with one the code calls such a position dust.
THEOREM RetiredDealsAreFlat == ASSUME ~LocalFaults, NoMaximum PROVE Spec => []RetiredFlat
<1>1. Init => Flat BY LedgerInit
<1>2. TypeOK /\ JournalInv /\ BooksInv /\ LedgerInv /\ Flat /\ [Next]_vars => Flat'
    <2>1. ASSUME TypeOK, JournalInv, BooksInv, LedgerInv, Flat, Next PROVE Flat'
        BY <2>1, FlatStep DEF BooksInv, LedgerInv
    <2>2. ASSUME Flat, UNCHANGED vars PROVE Flat'
        BY <2>2 DEF vars, walk, flat, ledger, files, exchange, Flat, RetiredFlat, Retired
    <2> QED BY <2>1, <2>2
<1>3. Flat => RetiredFlat BY DEF Flat
<1> QED BY <1>1, <1>2, <1>3, TypeCorrect, JournalHolds, BooksHold, LedgerHolds,
       PTL DEF Spec
=============================================================================
