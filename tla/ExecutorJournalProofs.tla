----------------------- MODULE ExecutorJournalProofs -----------------------
(* For every number of legs, deals and amounts nothing is sent unrecorded   *)
(* or twice.  As long as no local fault comes between an order and its      *)
(* booking, the executor keeps the order journal besides: nothing is sent   *)
(* while another order of the deal is unresolved, and no deal is retired    *)
(* over an unresolved order.  One lemma per part of JournalInv and          *)
(* OrdersInv, each by groups of actions.                                    *)
EXTENDS ExecutorJournal, ExecutorTypes

-----------------------------------------------------------------------------
(* What the steps do to the exchange's orders.                              *)

\* The process touches them in one action only.
LEMMA OnlySendTouches ==
    ASSUME Process \/ Crash \/ Operator, ~Send PROVE UNCHANGED ex
<1> USE DEF exchange, Goto, Step
<1>1. CASE Loop
    BY <1>1 DEF Loop, LoopScan, NoCandidate, LoopClear, ClearFails, ConsumeClear, Restart
<1>2. CASE Execute
    BY <1>2 DEF Execute, StartDeal, PreflightFails, PreflightRejects, Authorize, Skip,
                AttemptFails, Journal, FinishLeg, CreditSettles, CreditFails
<1>3. CASE Place
    BY <1>3 DEF Place, ReadFill, ReadNew, ReadRejection, Timeout, GiveUp,
                IdentityMismatch, LocalFault, Account, AccountRecovery
<1>4. CASE Flatten
    BY <1>4 DEF Flatten, FetchTickers, TickersFail, RecoverNoEdge, RecoverDust,
                RecoverJournal, Flattened, NotFlattened
<1>5. CASE End BY <1>5 DEF End, HandleFailure, HandleAmbiguous, Archive, FinishFails
<1>6. CASE Crash BY <1>6 DEF Crash
<1>7. CASE Operator BY <1>7 DEF Operator, Pause, Resume, RequestClear
<1> QED BY <1>1, <1>2, <1>3, <1>4, <1>5, <1>6, <1>7 DEF Process

\* The exchange itself takes no order it was not sent and revives none.
LEMMA ExchangeOnlySettles ==
    ASSUME TypeExchange, Exchange
    PROVE  /\ UNCHANGED <<operator, walk, carry, flat, ledger, journal, files, lateEntries>>
           /\ \A d \in Deals, l \in Labels :
                /\ ex'[d][l] = "none" <=> ex[d][l] = "none"
                /\ Unresolved(d, l)' => Unresolved(d, l)
<1>1. PICK d \in Deals, l \in Labels : Accept(d, l) \/ Match(d, l)
    BY DEF Exchange
<1>2. PICK s \in {"open", "refused", "lost", "done"} :
        ex' = [ex EXCEPT ![d][l] = s] /\ ex[d][l] \in {"wire", "open"}
        /\ (s = "open" => ex[d][l] = "wire")
    BY <1>1 DEF Accept, Match
<1>3. UNCHANGED <<operator, walk, carry, flat, ledger, journal, files, lateEntries>>
    BY <1>1 DEF Accept, Match
<1>4. ASSUME NEW e \in Deals, NEW m \in Labels
      PROVE  (ex'[e][m] = "none" <=> ex[e][m] = "none") /\ (Unresolved(e, m)' => Unresolved(e, m))
    BY <1>2 DEF TypeExchange, Unresolved
<1> QED BY <1>3, <1>4

LEMMA ExchangeSendsNothing ==
    ASSUME TypeExchange, Exchange
    PROVE  \A d \in Deals, l \in Labels : ex'[d][l] = "wire" => ex[d][l] = "wire"
<1>1. PICK d \in Deals, l \in Labels : Accept(d, l) \/ Match(d, l)
    BY DEF Exchange
<1>2. PICK s \in {"open", "refused", "lost", "done"} : ex' = [ex EXCEPT ![d][l] = s]
    BY <1>1 DEF Accept, Match
<1> QED BY <1>2 DEF TypeExchange

-----------------------------------------------------------------------------
(* What the steps that touch an order's record or the order itself do.      *)

LEMMA AppendRecords ==
    ASSUME TypeFiles, TypeJournal, deal \in Deals, place[deal] # "none", NEW l \in Labels,
           NEW q \in Nat \ {0}, Append(l, q), UNCHANGED <<place, ex>>, Recorded
    PROVE  Recorded' /\ orders'[deal][l] # "none" /\ input'[deal][l] > 0
<1>1. \A d \in Deals, m \in Labels :
        /\ orders'[d][m] = IF d = deal /\ m = l THEN "SUBMITTING" ELSE orders[d][m]
        /\ input'[d][m] = IF d = deal /\ m = l THEN q ELSE input[d][m]
    BY DEF TypeJournal, Append
<1> QED BY <1>1 DEF Recorded

LEMMA SendTouches ==
    ASSUME TypeExchange, deal \in Deals, Label \in Labels, Send
    PROVE  \A d \in Deals, l \in Labels :
             ex'[d][l] = IF d = deal /\ l = Label THEN "wire" ELSE ex[d][l]
BY DEF TypeExchange, Send

LEMMA ReadTouches ==
    ASSUME TypeJournal, ReadFill \/ ReadNew \/ IdentityMismatch \/ Account \/ AccountRecovery
    PROVE  \A d \in Deals, l \in Labels :
             input'[d][l] = input[d][l] /\ (orders[d][l] # "none" => orders'[d][l] # "none")
<1>1. PICK s \in {"CLOSED", "NEW", "BOOKED"} :
        orders' = [orders EXCEPT ![deal][Label] = s] /\ input' = input
    BY DEF ReadFill, ReadNew, IdentityMismatch, Account, AccountRecovery
<1> QED BY <1>1 DEF TypeJournal

\* Without local faults the executed deal's record is active wherever the process stands.
LEMMA JournalOrders == TypeOK /\ JournalInv => OrdersInv
<1>1. TypeOK /\ JournalInv => RecordsOK
    <2> SUFFICES ASSUME TypeOK, JournalInv PROVE RecordsOK
        OBVIOUS
    <2>1. ASSUME Executing, NEW e \in Deals, deal < e PROVE place[e] = "none"
        BY <2>1 DEF JournalInv, FilesOK
    <2> QED BY <2>1 DEF JournalInv, FilesOK, RecordsOK
<1>2. JournalInv => LegQuiet
    BY DEF JournalInv, Quiet, LegQuiet
<1> QED BY <1>1, <1>2 DEF JournalInv, OrdersInv

\* An order that is journaled is one of the executed deal's, for some amount, and the
\* process stands at it then.
LEMMA JournaledOrder ==
    ASSUME TypeOK, OrdersInv, Journal \/ RecoverJournal
    PROVE  /\ deal \in Deals /\ place[deal] = "active" /\ pc' = "send"
           /\ UNCHANGED <<deal, phase, todo, place, ex>>
           /\ Label' \in Labels
           /\ phase # "legs" => leg' \in todo
           /\ \E q \in Nat \ {0} : Append(Label', q)
<1> USE DEF Label, Goto, walk, flat, files, exchange
<1>1. deal \in Deals /\ place[deal] = "active"
    BY DEF OrdersInv, RecordsOK, Executing, Idling, Journal, RecoverJournal
<1>2. CASE Journal
    <2>1. phase = "legs" /\ policy \in Policies /\ leg \in Legs
        BY <1>2 DEF OrdersInv, WalkOK, Journal, TypeOK, TypeWalk, LegOver
    <2>2. Remaining \in Nat \ {0}
        BY <1>2, RemainingType DEF Journal, LegOver, TypeOK
    <2> QED BY <1>1, <1>2, <2>1, <2>2 DEF Journal, Labels
<1>3. CASE RecoverJournal
    <2>1. PICK a \in Mids : /\ a \in todo /\ inv[deal][a] \in MarketLots /\ leg' = a
                            /\ Append(<<a, "RECOVERY">>, inv[deal][a])
        BY <1>3 DEF RecoverJournal, FirstOf, Executable
    <2>2. phase # "legs"
        BY <1>3 DEF OrdersInv, WalkOK, RecoverJournal
    <2> QED BY <1>1, <1>3, <2>1, <2>2, LotsAssumption DEF RecoverJournal, Labels
<1> QED BY <1>2, <1>3

\* A policy that was tried is no longer ahead, and nothing comes back.
LEMMA AheadShrinks ==
    \A p \in Policies \cup {"NONE"} :
        /\ Ahead(NextPolicy(p)) \subseteq Ahead(p)
        /\ p \notin Ahead(NextPolicy(p))
        /\ p \in Policies => p \in Ahead(p)
BY DEF Ahead, NextPolicy, Policies

LEMMA ToComeSend ==
    ASSUME TypeOK, OrdersInv, Send
    PROVE  ToCome' \subseteq ToCome /\ Label \notin ToCome'
<1>1. /\ pc = "send" /\ pc' = "await" /\ UNCHANGED <<phase, leg, policy, todo>>
      /\ Label' = Label /\ Label \in Labels /\ (phase # "legs" => leg \in todo)
    BY DEF Send, Goto, flat, Label, OrdersInv, WalkOK, Placing
<1>2. CASE phase = "legs"
    <2>1. Label = <<leg, policy>> /\ policy \in Policies
        BY <1>1, <1>2 DEF Label, Labels, Policies, TypeOK, TypeWalk
    <2>2. policy \notin Ahead(NextPolicy(policy))
        BY <2>1, AheadShrinks
    <2>3. ToCome' \subseteq ToCome
        BY <1>1, <1>2 DEF ToCome, Placing, Waiting
    <2>4. Label \notin ToCome'
        BY <1>1, <1>2, <2>1, <2>2 DEF ToCome, TypeOK, TypeWalk, Legs, Policies
    <2> QED BY <2>3, <2>4
<1>3. CASE phase # "legs"
    BY <1>1, <1>3 DEF ToCome, Placing, Waiting, Label
<1> QED BY <1>2, <1>3

LEMMA ToComeJournal ==
    ASSUME TypeOK, OrdersInv, Journal
    PROVE  ToCome' \subseteq ToCome
<1>1. /\ pc = "attempt" /\ pc' = "send" /\ UNCHANGED <<phase, leg, policy, todo>>
      /\ phase = "legs" /\ policy \in Policies /\ Label' = Label /\ Label = <<leg, policy>>
    BY DEF Journal, Goto, flat, Label, OrdersInv, WalkOK, LegOver, TypeOK, TypeWalk
<1> QED BY <1>1, AheadShrinks DEF ToCome, Placing, Labels, Policies

LEMMA ToComeRecover ==
    ASSUME TypeOK, OrdersInv, RecoverJournal
    PROVE  ToCome' \subseteq ToCome
<1>1. /\ pc = "recover" /\ pc' = "send" /\ UNCHANGED <<phase, todo>>
      /\ phase # "legs" /\ leg' \in todo /\ Label' = <<leg', "RECOVERY">>
    BY JournaledOrder DEF RecoverJournal, flat, Label, OrdersInv, WalkOK
<1> QED BY <1>1 DEF ToCome, Placing

LEMMA ToComeCredit ==
    ASSUME TypeOK, OrdersInv, CreditSettles
    PROVE  ToCome' \subseteq ToCome
<1>1. pc = "credit" /\ phase = "legs" /\ leg \in Legs
    BY DEF CreditSettles, OrdersInv, WalkOK, TypeOK, TypeWalk
<1>2. CASE leg < N /\ BeginLeg(leg + 1, out)
    <2>1. pc' = "attempt" /\ leg' = leg + 1 /\ UNCHANGED <<phase, todo>>
        BY <1>2 DEF BeginLeg, flat
    <2> QED BY <1>1, <2>1 DEF ToCome, Labels, Legs, Mids, Placing, Waiting
<1>3. CASE BeginRecovery("flatten")
    BY <1>1, <1>3 DEF BeginRecovery, ToCome, Placing, Waiting
<1> QED BY <1>2, <1>3 DEF CreditSettles

-----------------------------------------------------------------------------
(* The invariant, part by part.                                             *)

\* The process stands where its place in execute says.
LEMMA WalkOKStep ==
    ASSUME TypeOK, OrdersInv, Next
    PROVE  WalkOK'
<1> USE LegsAssumption, LotsAssumption DEF TypeWalk, TypeFlat, TypeFiles, TypeOK,
        OrdersInv, WalkOK, RecordsOK, Executing, Idling, Placing, Waiting, Label,
        operator, walk, carry, flat, ledger, journal, files, exchange, Goto, Step, Leave,
        SetStatus, BeginLeg, BeginRecovery, Append, Fails, WalkOK
<1>1. CASE Loop
    BY <1>1 DEF Loop, LoopScan, NoCandidate, LoopClear, ClearFails, ConsumeClear, Restart
<1>2. CASE Execute
    <2>1. CASE Journal BY <2>1, JournaledOrder DEF Journal
    <2>2. CASE ~Journal
        BY <1>2, <2>2 DEF Execute, StartDeal, PreflightFails, PreflightRejects, Authorize,
                Skip, AttemptFails, FinishLeg, CreditSettles, CreditFails
    <2> QED BY <2>1, <2>2
<1>3. CASE Place
    BY <1>3 DEF Place, Send, ReadFill, ReadNew, ReadRejection, Timeout, GiveUp,
                IdentityMismatch, LocalFault, Account, AccountRecovery
<1>4. CASE Flatten
    <2>1. CASE RecoverJournal BY <2>1, JournaledOrder DEF RecoverJournal
    <2>2. CASE ~RecoverJournal
        BY <1>4, <2>2 DEF Flatten, FetchTickers, TickersFail, RecoverNoEdge, RecoverDust,
                Flattened, NotFlattened
    <2> QED BY <2>1, <2>2
<1>5. CASE End
    BY <1>5 DEF End, HandleFailure, HandleAmbiguous, Archive, FinishFails
<1>6. CASE Crash
    BY <1>6 DEF Crash
<1>7. CASE Operator
    BY <1>7 DEF Operator, Pause, Resume, RequestClear
<1>8. CASE Exchange
    BY <1>8, ExchangeOnlySettles
<1> QED BY <1>1, <1>2, <1>3, <1>4, <1>5, <1>6, <1>7, <1>8 DEF Next, Process

\* At most one record is active, and the executed deal has it.
LEMMA FilesOKStep ==
    ASSUME TypeOK, JournalInv, ~LocalFaults, Next
    PROVE  FilesOK'
<1> USE LegsAssumption, LotsAssumption DEF TypeWalk, TypeFlat, TypeFiles, TypeOK,
        JournalInv, WalkOK, FilesOK, Quiet, Executing, Idling, Placing, Waiting, Label,
        operator, walk, carry, flat, ledger, journal, files, exchange, Goto, Step, Leave,
        SetStatus, BeginLeg, BeginRecovery, Append, Fails, DealGate, FilesOK
<1>1. CASE Loop
    BY <1>1 DEF Loop, LoopScan, NoCandidate, LoopClear, ClearFails, ConsumeClear, Restart
<1>2. CASE Execute
    BY <1>2 DEF Execute, StartDeal, PreflightFails, PreflightRejects, Authorize, Skip,
                AttemptFails, Journal, FinishLeg, CreditSettles, CreditFails
<1>3. CASE Place
    BY <1>3 DEF Place, Send, ReadFill, ReadNew, ReadRejection, Timeout, GiveUp,
                IdentityMismatch, LocalFault, Account, AccountRecovery
<1>4. CASE Flatten
    BY <1>4 DEF Flatten, FetchTickers, TickersFail, RecoverNoEdge, RecoverDust,
                RecoverJournal, Flattened, NotFlattened
<1>5. CASE End
    BY <1>5 DEF End, HandleFailure, HandleAmbiguous, Archive, FinishFails
<1>6. CASE Crash
    BY <1>6 DEF Crash
<1>7. CASE Operator
    BY <1>7 DEF Operator, Pause, Resume, RequestClear
<1>8. CASE Exchange
    BY <1>8, ExchangeOnlySettles
<1> QED BY <1>1, <1>2, <1>3, <1>4, <1>5, <1>6, <1>7, <1>8 DEF Next, Process

\* The same when finish may raise after the record was moved: the failure handler
\* makes it active again before anything else is executed.
LEMMA RecordsOKStep ==
    ASSUME TypeOK, OrdersInv, Next
    PROVE  RecordsOK'
<1> USE LegsAssumption, LotsAssumption DEF TypeWalk, TypeFlat, TypeFiles, TypeOK,
        OrdersInv, WalkOK, RecordsOK, Executing, Idling, Placing, Waiting, Label,
        operator, walk, carry, flat, ledger, journal, files, exchange, Goto, Step, Leave,
        SetStatus, BeginLeg, BeginRecovery, Append, Fails, DealGate, RecordsOK
<1>1. CASE Loop
    BY <1>1 DEF Loop, LoopScan, NoCandidate, LoopClear, ClearFails, ConsumeClear, Restart
<1>2. CASE Execute
    BY <1>2 DEF Execute, StartDeal, PreflightFails, PreflightRejects, Authorize, Skip,
                AttemptFails, Journal, FinishLeg, CreditSettles, CreditFails
<1>3. CASE Place
    BY <1>3 DEF Place, Send, ReadFill, ReadNew, ReadRejection, Timeout, GiveUp,
                IdentityMismatch, LocalFault, Account, AccountRecovery
<1>4. CASE Flatten
    BY <1>4 DEF Flatten, FetchTickers, TickersFail, RecoverNoEdge, RecoverDust,
                RecoverJournal, Flattened, NotFlattened
<1>5. CASE End
    BY <1>5 DEF End, HandleFailure, HandleAmbiguous, Archive, FinishFails
<1>6. CASE Crash
    BY <1>6 DEF Crash
<1>7. CASE Operator
    BY <1>7 DEF Operator, Pause, Resume, RequestClear
<1>8. CASE Exchange
    BY <1>8, ExchangeOnlySettles
<1> QED BY <1>1, <1>2, <1>3, <1>4, <1>5, <1>6, <1>7, <1>8 DEF Next, Process

\* An order the process moves on from is terminal: rejected, filled or never sent.
LEMMA QuietStep ==
    ASSUME TypeOK, JournalInv, ~LocalFaults, Next
    PROVE  Quiet'
<1> USE LegsAssumption, LotsAssumption DEF TypeWalk, TypeFlat, TypeFiles, TypeOK,
        JournalInv, WalkOK, FilesOK, Quiet, Executing, Idling, Placing, Waiting, Label,
        operator, walk, carry, flat, ledger, journal, files, exchange, Goto, Step, Leave,
        SetStatus, BeginLeg, BeginRecovery, Append, Fails, Unresolved, Recorded, Quiet
<1>1. CASE Loop
    BY <1>1 DEF Loop, LoopScan, NoCandidate, LoopClear, ClearFails, ConsumeClear, Restart
<1>2. CASE Execute
    <2>1. CASE StartDeal BY <2>1 DEF StartDeal
    <2>2. CASE ~StartDeal
        BY <1>2, <2>2 DEF Execute, PreflightFails, PreflightRejects, Authorize, Skip,
                AttemptFails, Journal, FinishLeg, CreditSettles, CreditFails
    <2> QED BY <2>1, <2>2
<1>3. CASE Place
    <2>1. CASE Send BY <2>1 DEF Send
    <2>2. CASE ReadFill BY <2>2 DEF ReadFill
    <2>3. CASE ReadNew BY <2>3 DEF ReadNew
    <2>4. CASE ReadRejection BY <2>4 DEF ReadRejection
    <2>5. CASE Timeout BY <2>5 DEF Timeout
    <2>6. CASE GiveUp BY <2>6 DEF GiveUp
    <2>7. CASE IdentityMismatch BY <2>7 DEF IdentityMismatch
    <2>8. CASE LocalFault BY <2>8 DEF LocalFault
    <2>9. CASE Account BY <2>9 DEF Account
    <2>10. CASE AccountRecovery BY <2>10 DEF AccountRecovery
    <2> QED BY <1>3, <2>1, <2>2, <2>3, <2>4, <2>5, <2>6, <2>7, <2>8, <2>9, <2>10 DEF Place
<1>4. CASE Flatten
    BY <1>4 DEF Flatten, FetchTickers, TickersFail, RecoverNoEdge, RecoverDust,
                RecoverJournal, Flattened, NotFlattened
<1>5. CASE End
    BY <1>5 DEF End, HandleFailure, HandleAmbiguous, Archive, FinishFails
<1>6. CASE Crash
    BY <1>6 DEF Crash
<1>7. CASE Operator
    BY <1>7 DEF Operator, Pause, Resume, RequestClear
<1>8. CASE Exchange
    BY <1>8, ExchangeOnlySettles
<1> QED BY <1>1, <1>2, <1>3, <1>4, <1>5, <1>6, <1>7, <1>8 DEF Next, Process

\* The legs are left for good when an order of theirs fails.
LEMMA LegQuietStep ==
    ASSUME TypeOK, OrdersInv, Next
    PROVE  LegQuiet'
<1> USE LegsAssumption, LotsAssumption DEF TypeWalk, TypeFlat, TypeFiles, TypeOK,
        OrdersInv, WalkOK, RecordsOK, Executing, Idling, Placing, Waiting, Label,
        operator, walk, carry, flat, ledger, journal, files, exchange, Goto, Step, Leave,
        SetStatus, BeginLeg, BeginRecovery, Append, Fails, Unresolved, Recorded,
        LegQuiet
<1>1. CASE Loop
    BY <1>1 DEF Loop, LoopScan, NoCandidate, LoopClear, ClearFails, ConsumeClear, Restart
<1>2. CASE Execute
    <2>1. CASE StartDeal BY <2>1 DEF StartDeal
    <2>2. CASE ~StartDeal
        BY <1>2, <2>2 DEF Execute, PreflightFails, PreflightRejects, Authorize, Skip,
                AttemptFails, Journal, FinishLeg, CreditSettles, CreditFails
    <2> QED BY <2>1, <2>2
<1>3. CASE Place
    <2>1. CASE Send BY <2>1 DEF Send
    <2>2. CASE ReadFill BY <2>2 DEF ReadFill
    <2>3. CASE ReadNew BY <2>3 DEF ReadNew
    <2>4. CASE ReadRejection BY <2>4 DEF ReadRejection
    <2>5. CASE Timeout BY <2>5 DEF Timeout
    <2>6. CASE GiveUp BY <2>6 DEF GiveUp
    <2>7. CASE IdentityMismatch BY <2>7 DEF IdentityMismatch
    <2>8. CASE LocalFault BY <2>8 DEF LocalFault
    <2>9. CASE Account BY <2>9 DEF Account
    <2>10. CASE AccountRecovery BY <2>10 DEF AccountRecovery
    <2> QED BY <1>3, <2>1, <2>2, <2>3, <2>4, <2>5, <2>6, <2>7, <2>8, <2>9, <2>10 DEF Place
<1>4. CASE Flatten
    BY <1>4 DEF Flatten, FetchTickers, TickersFail, RecoverNoEdge, RecoverDust,
                RecoverJournal, Flattened, NotFlattened
<1>5. CASE End
    BY <1>5 DEF End, HandleFailure, HandleAmbiguous, Archive, FinishFails, MayRecover
<1>6. CASE Crash
    BY <1>6 DEF Crash
<1>7. CASE Operator
    BY <1>7 DEF Operator, Pause, Resume, RequestClear
<1>8. CASE Exchange
    BY <1>8, ExchangeOnlySettles
<1> QED BY <1>1, <1>2, <1>3, <1>4, <1>5, <1>6, <1>7, <1>8 DEF Next, Process

\* A crash or an ambiguous end leaves at most the order being waited on.
LEMMA LoneStep ==
    ASSUME TypeOK, JournalInv, ~LocalFaults, Next
    PROVE  Lone'
<1> USE LegsAssumption, LotsAssumption DEF TypeWalk, TypeFlat, TypeFiles, TypeOK,
        JournalInv, WalkOK, FilesOK, Quiet, Executing, Idling, Placing, Waiting, Label,
        operator, walk, carry, flat, ledger, journal, files, exchange, Goto, Step, Leave,
        SetStatus, BeginLeg, BeginRecovery, Append, Fails, OneAtATime, Unresolved, Lone
<1>1. CASE Loop
    BY <1>1 DEF Loop, LoopScan, NoCandidate, LoopClear, ClearFails, ConsumeClear, Restart
<1>2. CASE Execute
    BY <1>2 DEF Execute, StartDeal, PreflightFails, PreflightRejects, Authorize, Skip,
                AttemptFails, Journal, FinishLeg, CreditSettles, CreditFails
<1>3. CASE Place
    <2>1. CASE Send BY <2>1 DEF Send
    <2>2. CASE ReadFill BY <2>2 DEF ReadFill
    <2>3. CASE ReadNew BY <2>3 DEF ReadNew
    <2>4. CASE ReadRejection BY <2>4 DEF ReadRejection
    <2>5. CASE Timeout BY <2>5 DEF Timeout
    <2>6. CASE GiveUp BY <2>6 DEF GiveUp
    <2>7. CASE IdentityMismatch BY <2>7 DEF IdentityMismatch
    <2>8. CASE LocalFault BY <2>8 DEF LocalFault
    <2>9. CASE Account BY <2>9 DEF Account
    <2>10. CASE AccountRecovery BY <2>10 DEF AccountRecovery
    <2> QED BY <1>3, <2>1, <2>2, <2>3, <2>4, <2>5, <2>6, <2>7, <2>8, <2>9, <2>10 DEF Place
<1>4. CASE Flatten
    BY <1>4 DEF Flatten, FetchTickers, TickersFail, RecoverNoEdge, RecoverDust,
                RecoverJournal, Flattened, NotFlattened
<1>5. CASE End
    BY <1>5 DEF End, HandleFailure, HandleAmbiguous, Archive, FinishFails
<1>6. CASE Crash
    BY <1>6 DEF Crash
<1>7. CASE Operator
    BY <1>7 DEF Operator, Pause, Resume, RequestClear
<1>8. CASE Exchange
    BY <1>8, ExchangeOnlySettles
<1> QED BY <1>1, <1>2, <1>3, <1>4, <1>5, <1>6, <1>7, <1>8 DEF Next, Process

\* An order is on the wire only after its record was saved.
LEMMA RecordedStep ==
    ASSUME TypeOK, OrdersInv, Next
    PROVE  Recorded'
<1> USE LegsAssumption, LotsAssumption DEF TypeWalk, TypeFlat, TypeFiles, TypeOK,
        OrdersInv, WalkOK, RecordsOK, Executing, Idling, Placing, Waiting, Label,
        operator, walk, carry, flat, ledger, journal, files, exchange, Goto, Step, Leave,
        SetStatus, BeginLeg, BeginRecovery, Append, Fails, Recorded
<1>1. CASE Loop
    BY <1>1 DEF Loop, LoopScan, NoCandidate, LoopClear, ClearFails, ConsumeClear, Restart
<1>2. CASE Execute
    <2>1. CASE Journal BY <2>1, JournaledOrder, AppendRecords
    <2>2. CASE ~Journal
        BY <1>2, <2>2 DEF Execute, StartDeal, PreflightFails, PreflightRejects, Authorize,
                Skip, AttemptFails, FinishLeg, CreditSettles, CreditFails
    <2> QED BY <2>1, <2>2
<1>3. CASE Place
    <2>1. CASE Send BY <2>1, SendTouches DEF Send, Submitted
    <2>2. CASE ReadFill BY <2>2 DEF ReadFill
    <2>3. CASE ReadNew BY <2>3 DEF ReadNew
    <2>4. CASE ReadRejection BY <2>4 DEF ReadRejection
    <2>5. CASE Timeout BY <2>5 DEF Timeout
    <2>6. CASE GiveUp BY <2>6 DEF GiveUp
    <2>7. CASE IdentityMismatch BY <2>7 DEF IdentityMismatch
    <2>8. CASE LocalFault BY <2>8 DEF LocalFault
    <2>9. CASE Account BY <2>9 DEF Account
    <2>10. CASE AccountRecovery BY <2>10 DEF AccountRecovery
    <2> QED BY <1>3, <2>1, <2>2, <2>3, <2>4, <2>5, <2>6, <2>7, <2>8, <2>9, <2>10 DEF Place
<1>4. CASE Flatten
    <2>1. CASE RecoverJournal BY <2>1, JournaledOrder, AppendRecords
    <2>2. CASE ~RecoverJournal
        BY <1>4, <2>2 DEF Flatten, FetchTickers, TickersFail, RecoverNoEdge, RecoverDust,
                Flattened, NotFlattened
    <2> QED BY <2>1, <2>2
<1>5. CASE End
    BY <1>5 DEF End, HandleFailure, HandleAmbiguous, Archive, FinishFails
<1>6. CASE Crash
    BY <1>6 DEF Crash
<1>7. CASE Operator
    BY <1>7 DEF Operator, Pause, Resume, RequestClear
<1>8. CASE Exchange
    BY <1>8, ExchangeOnlySettles
<1> QED BY <1>1, <1>2, <1>3, <1>4, <1>5, <1>6, <1>7, <1>8 DEF Next, Process

\* Legs and policies only advance, and a recovery visits each position once.
LEMMA FreshStep ==
    ASSUME TypeOK, OrdersInv, Next
    PROVE  Fresh'
<1> USE LegsAssumption, LotsAssumption DEF TypeWalk, TypeFlat, TypeFiles, TypeOK,
        OrdersInv, WalkOK, RecordsOK, Executing, Idling, Placing, Waiting, Label,
        operator, walk, carry, flat, ledger, journal, files, exchange, Goto, Step, Leave,
        SetStatus, BeginLeg, BeginRecovery, Append, Fails, ToCome, Fresh
<1>1. CASE Loop
    BY <1>1 DEF Loop, LoopScan, NoCandidate, LoopClear, ClearFails, ConsumeClear, Restart
<1>2. CASE Execute
    <2>1. CASE Skip BY <2>1, AheadShrinks DEF Skip
    <2>2. CASE FinishLeg BY <2>2, AheadShrinks DEF FinishLeg
    <2>3. CASE StartDeal BY <2>3 DEF StartDeal, Recorded
    <2>4. CASE Authorize BY <2>4 DEF Authorize
    <2>5. CASE Journal
        <3> HIDE DEF ToCome, Label
        <3> QED BY <2>5, ToComeJournal, JournaledOrder DEF Journal
    <2>6. CASE CreditSettles
        <3> HIDE DEF ToCome, Label
        <3> QED BY <2>6, ToComeCredit DEF CreditSettles
    <2>7. CASE ~(Skip \/ FinishLeg \/ StartDeal \/ Authorize \/ Journal \/ CreditSettles)
        BY <1>2, <2>7 DEF Execute, PreflightFails, PreflightRejects, AttemptFails,
                CreditFails
    <2> QED BY <2>1, <2>2, <2>3, <2>4, <2>5, <2>6, <2>7
<1>3. CASE Place
    <2>1. CASE Send
        <3> HIDE DEF ToCome, Label
        <3> QED BY <2>1, ToComeSend, SendTouches DEF Send
    <2>2. CASE ~Send
        BY <1>3, <2>2 DEF Place, ReadFill, ReadNew, ReadRejection, Timeout, GiveUp,
                IdentityMismatch, LocalFault, Account, AccountRecovery
    <2> QED BY <2>1, <2>2
<1>4. CASE Flatten
    <2>1. CASE RecoverJournal
        <3> HIDE DEF ToCome, Label
        <3> QED BY <2>1, ToComeRecover, JournaledOrder DEF RecoverJournal
    <2>2. CASE ~RecoverJournal
        BY <1>4, <2>2 DEF Flatten, FetchTickers, TickersFail, RecoverNoEdge, RecoverDust,
                Flattened, NotFlattened
    <2> QED BY <2>1, <2>2
<1>5. CASE End
    <2>1. CASE HandleFailure
        <3>1. MayRecover => ToCome' \subseteq ToCome
            BY <2>1 DEF HandleFailure, MayRecover, Positions, Labels
        <3> QED BY <2>1, <3>1 DEF HandleFailure
    <2>2. CASE ~HandleFailure
        BY <1>5, <2>2 DEF End, HandleAmbiguous, Archive, FinishFails
    <2> QED BY <2>1, <2>2
<1>6. CASE Crash
    BY <1>6 DEF Crash
<1>7. CASE Operator
    BY <1>7 DEF Operator, Pause, Resume, RequestClear
<1>8. CASE Exchange
    BY <1>8, ExchangeOnlySettles
<1> QED BY <1>1, <1>2, <1>3, <1>4, <1>5, <1>6, <1>7, <1>8 DEF Next, Process

\* A recorded order stays on record.
LEMMA SubmittedStep ==
    ASSUME TypeOK, OrdersInv, Next
    PROVE  Submitted'
<1> USE LegsAssumption, LotsAssumption DEF TypeWalk, TypeFlat, TypeFiles, TypeOK,
        OrdersInv, WalkOK, RecordsOK, Executing, Idling, Placing, Waiting, Label,
        operator, walk, carry, flat, ledger, journal, files, exchange, Goto, Step, Leave,
        SetStatus, BeginLeg, BeginRecovery, Append, Fails, Submitted
<1>1. CASE Loop
    BY <1>1 DEF Loop, LoopScan, NoCandidate, LoopClear, ClearFails, ConsumeClear, Restart
<1>2. CASE Execute
    <2>1. CASE Journal BY <2>1, JournaledOrder, AppendRecords
    <2>2. CASE ~Journal
        BY <1>2, <2>2 DEF Execute, StartDeal, PreflightFails, PreflightRejects, Authorize,
                Skip, AttemptFails, FinishLeg, CreditSettles, CreditFails
    <2> QED BY <2>1, <2>2
<1>3. CASE Place
    <2>1. CASE Send BY <2>1 DEF Send
    <2>2. CASE ReadFill BY <2>2 DEF ReadFill
    <2>3. CASE ReadNew BY <2>3 DEF ReadNew
    <2>4. CASE ReadRejection BY <2>4 DEF ReadRejection
    <2>5. CASE Timeout BY <2>5 DEF Timeout
    <2>6. CASE GiveUp BY <2>6 DEF GiveUp
    <2>7. CASE IdentityMismatch BY <2>7 DEF IdentityMismatch
    <2>8. CASE LocalFault BY <2>8 DEF LocalFault
    <2>9. CASE Account BY <2>9 DEF Account
    <2>10. CASE AccountRecovery BY <2>10 DEF AccountRecovery
    <2> QED BY <1>3, <2>1, <2>2, <2>3, <2>4, <2>5, <2>6, <2>7, <2>8, <2>9, <2>10 DEF Place
<1>4. CASE Flatten
    <2>1. CASE RecoverJournal BY <2>1, JournaledOrder, AppendRecords
    <2>2. CASE ~RecoverJournal
        BY <1>4, <2>2 DEF Flatten, FetchTickers, TickersFail, RecoverNoEdge, RecoverDust,
                Flattened, NotFlattened
    <2> QED BY <2>1, <2>2
<1>5. CASE End
    BY <1>5 DEF End, HandleFailure, HandleAmbiguous, Archive, FinishFails
<1>6. CASE Crash
    BY <1>6 DEF Crash
<1>7. CASE Operator
    BY <1>7 DEF Operator, Pause, Resume, RequestClear
<1>8. CASE Exchange
    BY <1>8, ExchangeOnlySettles
<1> QED BY <1>1, <1>2, <1>3, <1>4, <1>5, <1>6, <1>7, <1>8 DEF Next, Process

\* Only a deal without unresolved orders reaches finish.
LEMMA RetiredSettledStep ==
    ASSUME TypeOK, JournalInv, ~LocalFaults, Next
    PROVE  RetiredSettled'
<1> USE LegsAssumption, LotsAssumption DEF TypeWalk, TypeFlat, TypeFiles, TypeOK,
        JournalInv, WalkOK, FilesOK, Quiet, Executing, Idling, Placing, Waiting, Label,
        operator, walk, carry, flat, ledger, journal, files, exchange, Goto, Step, Leave,
        SetStatus, BeginLeg, BeginRecovery, Append, Fails, Retired, Unresolved,
        RetiredSettled
<1>1. CASE Loop
    BY <1>1 DEF Loop, LoopScan, NoCandidate, LoopClear, ClearFails, ConsumeClear, Restart
<1>2. CASE Execute
    BY <1>2 DEF Execute, StartDeal, PreflightFails, PreflightRejects, Authorize, Skip,
                AttemptFails, Journal, FinishLeg, CreditSettles, CreditFails
<1>3. CASE Place
    <2>1. CASE Send BY <2>1 DEF Send
    <2>2. CASE ReadFill BY <2>2 DEF ReadFill
    <2>3. CASE ReadNew BY <2>3 DEF ReadNew
    <2>4. CASE ReadRejection BY <2>4 DEF ReadRejection
    <2>5. CASE Timeout BY <2>5 DEF Timeout
    <2>6. CASE GiveUp BY <2>6 DEF GiveUp
    <2>7. CASE IdentityMismatch BY <2>7 DEF IdentityMismatch
    <2>8. CASE LocalFault BY <2>8 DEF LocalFault
    <2>9. CASE Account BY <2>9 DEF Account
    <2>10. CASE AccountRecovery BY <2>10 DEF AccountRecovery
    <2> QED BY <1>3, <2>1, <2>2, <2>3, <2>4, <2>5, <2>6, <2>7, <2>8, <2>9, <2>10 DEF Place
<1>4. CASE Flatten
    BY <1>4 DEF Flatten, FetchTickers, TickersFail, RecoverNoEdge, RecoverDust,
                RecoverJournal, Flattened, NotFlattened
<1>5. CASE End
    BY <1>5 DEF End, HandleFailure, HandleAmbiguous, Archive, FinishFails
<1>6. CASE Crash
    BY <1>6 DEF Crash
<1>7. CASE Operator
    BY <1>7 DEF Operator, Pause, Resume, RequestClear
<1>8. CASE Exchange
    BY <1>8, ExchangeOnlySettles
<1> QED BY <1>1, <1>2, <1>3, <1>4, <1>5, <1>6, <1>7, <1>8 DEF Next, Process

\* With automatic recovery off a flattening with a failed order is not retired.
LEMMA FlattenQuietStep ==
    ASSUME TypeOK, OrdersInv, FlattenQuiet, ~AutoRecover, Next
    PROVE  FlattenQuiet'
<1> USE LegsAssumption, LotsAssumption DEF TypeWalk, TypeFlat, TypeFiles, TypeOK,
        OrdersInv, WalkOK, RecordsOK, Executing, Idling, Placing, Waiting, Label,
        operator, walk, carry, flat, ledger, journal, files, exchange, Goto, Step, Leave,
        SetStatus, BeginLeg, BeginRecovery, Append, Fails, Unresolved, Recorded,
        LegQuiet, FlattenQuiet
<1>1. CASE Loop
    BY <1>1 DEF Loop, LoopScan, NoCandidate, LoopClear, ClearFails, ConsumeClear, Restart
<1>2. CASE Execute
    <2>1. CASE StartDeal BY <2>1 DEF StartDeal
    <2>2. CASE ~StartDeal
        BY <1>2, <2>2 DEF Execute, PreflightFails, PreflightRejects, Authorize, Skip,
                AttemptFails, Journal, FinishLeg, CreditSettles, CreditFails
    <2> QED BY <2>1, <2>2
<1>3. CASE Place
    <2>1. CASE Send BY <2>1 DEF Send
    <2>2. CASE ReadFill BY <2>2 DEF ReadFill
    <2>3. CASE ReadNew BY <2>3 DEF ReadNew
    <2>4. CASE ReadRejection BY <2>4 DEF ReadRejection
    <2>5. CASE Timeout BY <2>5 DEF Timeout
    <2>6. CASE GiveUp BY <2>6 DEF GiveUp
    <2>7. CASE IdentityMismatch BY <2>7 DEF IdentityMismatch
    <2>8. CASE LocalFault BY <2>8 DEF LocalFault
    <2>9. CASE Account BY <2>9 DEF Account
    <2>10. CASE AccountRecovery BY <2>10 DEF AccountRecovery
    <2> QED BY <1>3, <2>1, <2>2, <2>3, <2>4, <2>5, <2>6, <2>7, <2>8, <2>9, <2>10 DEF Place
<1>4. CASE Flatten
    BY <1>4 DEF Flatten, FetchTickers, TickersFail, RecoverNoEdge, RecoverDust,
                RecoverJournal, Flattened, NotFlattened
<1>5. CASE End
    BY <1>5 DEF End, HandleFailure, HandleAmbiguous, Archive, FinishFails, MayRecover
<1>6. CASE Crash
    BY <1>6 DEF Crash
<1>7. CASE Operator
    BY <1>7 DEF Operator, Pause, Resume, RequestClear
<1>8. CASE Exchange
    BY <1>8, ExchangeOnlySettles
<1> QED BY <1>1, <1>2, <1>3, <1>4, <1>5, <1>6, <1>7, <1>8 DEF Next, Process

\* The same with automatic recovery off.
LEMMA SettledStep ==
    ASSUME TypeOK, OrdersInv, SettledInv, ~AutoRecover, Next
    PROVE  RetiredSettled'
<1> USE LegsAssumption, LotsAssumption DEF TypeWalk, TypeFlat, TypeFiles, TypeOK,
        OrdersInv, WalkOK, RecordsOK, SettledInv, FlattenQuiet, Executing, Idling, Placing,
        Waiting, Label,
        operator, walk, carry, flat, ledger, journal, files, exchange, Goto, Step, Leave,
        SetStatus, BeginLeg, BeginRecovery, Append, Fails, Retired, Unresolved,
        RetiredSettled
<1>1. CASE Loop
    BY <1>1 DEF Loop, LoopScan, NoCandidate, LoopClear, ClearFails, ConsumeClear, Restart
<1>2. CASE Execute
    BY <1>2 DEF Execute, StartDeal, PreflightFails, PreflightRejects, Authorize, Skip,
                AttemptFails, Journal, FinishLeg, CreditSettles, CreditFails
<1>3. CASE Place
    <2>1. CASE Send BY <2>1 DEF Send
    <2>2. CASE ReadFill BY <2>2 DEF ReadFill
    <2>3. CASE ReadNew BY <2>3 DEF ReadNew
    <2>4. CASE ReadRejection BY <2>4 DEF ReadRejection
    <2>5. CASE Timeout BY <2>5 DEF Timeout
    <2>6. CASE GiveUp BY <2>6 DEF GiveUp
    <2>7. CASE IdentityMismatch BY <2>7 DEF IdentityMismatch
    <2>8. CASE LocalFault BY <2>8 DEF LocalFault
    <2>9. CASE Account BY <2>9 DEF Account
    <2>10. CASE AccountRecovery BY <2>10 DEF AccountRecovery
    <2> QED BY <1>3, <2>1, <2>2, <2>3, <2>4, <2>5, <2>6, <2>7, <2>8, <2>9, <2>10 DEF Place
<1>4. CASE Flatten
    BY <1>4 DEF Flatten, FetchTickers, TickersFail, RecoverNoEdge, RecoverDust,
                RecoverJournal, Flattened, NotFlattened
<1>5. CASE End
    BY <1>5 DEF End, HandleFailure, HandleAmbiguous, Archive, FinishFails
<1>6. CASE Crash
    BY <1>6 DEF Crash
<1>7. CASE Operator
    BY <1>7 DEF Operator, Pause, Resume, RequestClear
<1>8. CASE Exchange
    BY <1>8, ExchangeOnlySettles
<1> QED BY <1>1, <1>2, <1>3, <1>4, <1>5, <1>6, <1>7, <1>8 DEF Next, Process

-----------------------------------------------------------------------------
(* The theorems.                                                            *)

LEMMA JournalInit == Init => JournalInv
<1> SUFFICES ASSUME Init PROVE JournalInv
    OBVIOUS
<1>1. /\ pc = "idle" /\ phase = "legs"
      /\ \A d \in Deals : place[d] = "none" /\ status[d] = "NONE"
      /\ \A d \in Deals, l \in Labels : ex[d][l] = "none"
    BY DEF Init
<1> QED BY <1>1 DEF JournalInv, WalkOK, FilesOK, Quiet, Lone, OneAtATime, Recorded, Fresh,
            Submitted, RetiredSettled, Retired, Unresolved, Executing, Idling, Placing, Waiting

LEMMA OrdersInit == Init => OrdersInv
<1>1. Init => TypeOK
    BY TypeInit
<1> QED BY <1>1, JournalInit, JournalOrders

LEMMA OrdersStep == TypeOK /\ OrdersInv /\ [Next]_vars => OrdersInv'
<1>1. ASSUME TypeOK, OrdersInv, Next PROVE OrdersInv'
    BY <1>1, WalkOKStep, RecordsOKStep, RecordedStep, FreshStep, SubmittedStep, LegQuietStep
       DEF OrdersInv
<1>2. ASSUME OrdersInv, UNCHANGED vars PROVE OrdersInv'
    BY <1>2 DEF vars, operator, walk, carry, flat, ledger, journal, files, exchange,
        OrdersInv, WalkOK, RecordsOK, Recorded, Fresh, ToCome, Submitted, LegQuiet, Unresolved,
        Executing, Idling, Placing, Waiting, Label, DealGate
<1> QED BY <1>1, <1>2

LEMMA JournalStep == TypeOK /\ JournalInv /\ ~LocalFaults /\ [Next]_vars => JournalInv'
<1>1. ASSUME TypeOK, JournalInv, ~LocalFaults, Next PROVE JournalInv'
    BY <1>1, JournalOrders, WalkOKStep, FilesOKStep, QuietStep, LoneStep, RecordedStep,
       FreshStep, SubmittedStep, RetiredSettledStep DEF JournalInv
<1>2. ASSUME JournalInv, UNCHANGED vars PROVE JournalInv'
    BY <1>2 DEF vars, operator, walk, carry, flat, ledger, journal, files, exchange,
        JournalInv, WalkOK, FilesOK, Quiet, Lone, OneAtATime, Recorded, Fresh, ToCome,
        Submitted, RetiredSettled, Retired, Unresolved, Executing, Idling, Placing, Waiting,
        Label, DealGate
<1> QED BY <1>1, <1>2

\* The journal invariant: where the process stands, which record it has, and that the
\* orders ahead of it were never sent and those behind it are final.
THEOREM JournalHolds == ASSUME ~LocalFaults PROVE Spec => []JournalInv
<1>1. TypeOK /\ JournalInv /\ [Next]_vars => JournalInv'
    BY JournalStep
<1> QED BY <1>1, JournalInit, TypeCorrect, PTL DEF Spec

\* The part of it that local faults leave: which orders were sent and which may still be.
THEOREM OrdersHold == Spec => []OrdersInv
<1>1. TypeOK /\ OrdersInv /\ [Next]_vars => OrdersInv'
    BY OrdersStep
<1> QED BY <1>1, OrdersInit, TypeCorrect, PTL DEF Spec

\* Whatever the exchange knows of is in a durable record, whatever fails after it was sent.
THEOREM OrdersAreRecorded == Spec => []WriteAhead
<1>1. OrdersInv => WriteAhead
    BY DEF OrdersInv, Recorded, WriteAhead
<1> QED BY <1>1, OrdersHold, PTL

\* No order is sent twice, whatever fails after it was sent.
THEOREM OrdersAreSentOnce == Spec => NoResubmission
<1> DEFINE Once == \A d \in Deals, l \in Labels :
                     ex[d][l] # "none" /\ ex'[d][l] = "wire" => ex[d][l] = "wire"
<1>1. TypeOK /\ OrdersInv /\ [Next]_vars => Once
    <2> SUFFICES ASSUME TypeOK, OrdersInv, [Next]_vars PROVE Once
        OBVIOUS
    <2>1. CASE Send
        <3>1. deal \in Deals /\ Label \in Labels /\ ex[deal][Label] = "none"
            BY <2>1 DEF Send, OrdersInv, WalkOK, RecordsOK, Fresh, ToCome, Executing, Idling,
                        Placing
        <3> QED BY <2>1, <3>1, SendTouches DEF TypeOK
    <2>2. CASE Exchange
        BY <2>2, ExchangeSendsNothing DEF TypeOK
    <2>3. CASE UNCHANGED ex
        BY <2>3
    <2> QED BY <2>1, <2>2, <2>3, OnlySendTouches DEF Next, vars, exchange
<1> QED BY <1>1, TypeCorrect, OrdersHold, PTL DEF Spec, NoResubmission, Once

\* Of one deal at most one order is ever unresolved, through any crash.
THEOREM OneOrderInDoubt == ASSUME ~LocalFaults PROVE Spec => []OneAtATime
<1>1. JournalInv => OneAtATime
    BY DEF JournalInv, Lone
<1> QED BY <1>1, JournalHolds, PTL

\* A deal the service retired holds no order the exchange could still fill, unless a local
\* fault is followed by the failure handler's recovery.
THEOREM RetiredDealsAreSettled ==
    ASSUME ~LocalFaults \/ ~AutoRecover PROVE Spec => []RetiredSettled
<1>1. ASSUME ~LocalFaults PROVE Spec => []RetiredSettled
    <2>1. JournalInv => RetiredSettled
        BY DEF JournalInv
    <2>2. Spec => []JournalInv
        BY <1>1, JournalHolds
    <2> QED BY <2>1, <2>2, PTL
<1>2. ASSUME ~AutoRecover PROVE Spec => []RetiredSettled
    <2>1. Init => SettledInv
        BY DEF Init, SettledInv, FlattenQuiet, RetiredSettled, Retired, Executing, Idling
    <2>2. TypeOK /\ OrdersInv /\ SettledInv /\ [Next]_vars => SettledInv'
        <3>1. ASSUME TypeOK, OrdersInv, SettledInv, Next PROVE SettledInv'
            BY <1>2, <3>1, FlattenQuietStep, SettledStep DEF SettledInv
        <3>2. ASSUME SettledInv, UNCHANGED vars PROVE SettledInv'
            BY <3>2 DEF vars, walk, flat, files, exchange, SettledInv, FlattenQuiet,
                RetiredSettled, Retired, Unresolved, Executing, Label
        <3> QED BY <3>1, <3>2
    <2>3. SettledInv => RetiredSettled
        BY DEF SettledInv
    <2> QED BY <2>1, <2>2, <2>3, TypeCorrect, OrdersHold, PTL DEF Spec
<1> QED BY <1>1, <1>2

\* Only the operator's clear lets a deal begin over an unresolved order of another, under
\* the same condition.
THEOREM DoubtBlocksEntry ==
    ASSUME ~LocalFaults \/ ~AutoRecover PROVE Spec => []UnresolvedBlocksEntry
<1>1. OrdersInv /\ RetiredSettled => UnresolvedBlocksEntry
    BY DEF OrdersInv, RecordsOK, RetiredSettled, Retired, UnresolvedBlocksEntry
<1>2. Spec => []RetiredSettled
    BY RetiredDealsAreSettled
<1> QED BY <1>1, <1>2, OrdersHold, PTL

-----------------------------------------------------------------------------
(* The executor implements the order journal: every step it takes is a step *)
(* of OrderJournal under the mapping of ExecutorJournal, or changes nothing *)
(* there.  The mapped variables change where the entry of one deal or order *)
(* does.                                                                    *)

LEMMA BookBecomes ==
    ASSUME NEW d \in Deals, NEW s, \A e \in Deals : BookOf(e)' = IF e = d THEN s ELSE BookOf(e)
    PROVE  Book' = [Book EXCEPT ![d] = s]
BY DEF Book

LEMMA PhaseBecomes ==
    ASSUME NEW d \in Deals, NEW l \in Labels, NEW s,
           \A e \in Deals, m \in Labels :
               PhaseOf(e, m)' = IF e = d /\ m = l THEN s ELSE PhaseOf(e, m)
    PROVE  OrderPhase' = [OrderPhase EXCEPT ![d][l] = s]
BY DEF OrderPhase

LEMMA SameBook == (\A e \in Deals : BookOf(e)' = BookOf(e)) => UNCHANGED Book
BY DEF Book

LEMMA SamePhase ==
    (\A e \in Deals, m \in Labels : PhaseOf(e, m)' = PhaseOf(e, m)) => UNCHANGED OrderPhase
BY DEF OrderPhase

\* Steps other than these leave every order where it stands.
LEMMA PhaseKept ==
    ASSUME TypeOK, JournalInv, Process \/ Crash \/ Operator,
           ~Send, ~Journal, ~RecoverJournal
    PROVE  UNCHANGED OrderPhase
<1>1. UNCHANGED ex
    BY OnlySendTouches
<1>2. CASE ReadFill \/ ReadNew \/ IdentityMismatch \/ Account \/ AccountRecovery
    <2>1. deal \in Deals /\ Label \in Labels /\ orders[deal][Label] # "none"
        BY <1>2 DEF ReadFill, ReadNew, IdentityMismatch, Account, AccountRecovery, JournalInv,
                    WalkOK, FilesOK, Submitted, Executing, Idling, Placing, Waiting
    <2>2. PICK s \in {"CLOSED", "NEW", "BOOKED"} : orders' = [orders EXCEPT ![deal][Label] = s]
        BY <1>2 DEF ReadFill, ReadNew, IdentityMismatch, Account, AccountRecovery
    <2>3. ASSUME NEW e \in Deals, NEW m \in Labels PROVE PhaseOf(e, m)' = PhaseOf(e, m)
        BY <1>1, <2>1, <2>2 DEF PhaseOf, Unresolved, TypeOK, TypeJournal
    <2> QED BY <2>3, SamePhase
<1>3. CASE UNCHANGED orders
    <2>1. ASSUME NEW e \in Deals, NEW m \in Labels PROVE PhaseOf(e, m)' = PhaseOf(e, m)
        BY <1>1, <1>3 DEF PhaseOf, Unresolved
    <2> QED BY <2>1, SamePhase
<1>4. CASE ~(ReadFill \/ ReadNew \/ IdentityMismatch \/ Account \/ AccountRecovery)
    <2> USE <1>4 DEF journal, Goto, Step
    <2>1. CASE Loop
        BY <2>1, <1>3 DEF Loop, LoopScan, NoCandidate, LoopClear, ClearFails, ConsumeClear, Restart
    <2>2. CASE Execute
        BY <2>2, <1>3 DEF Execute, StartDeal, PreflightFails, PreflightRejects, Authorize,
            Skip, AttemptFails, FinishLeg, CreditSettles, CreditFails
    <2>3. CASE Place
        BY <2>3, <1>3 DEF Place, ReadRejection, Timeout, GiveUp, LocalFault
    <2>4. CASE Flatten
        BY <2>4, <1>3 DEF Flatten, FetchTickers, TickersFail, RecoverNoEdge, RecoverDust,
            Flattened, NotFlattened
    <2>5. CASE End
        BY <2>5, <1>3 DEF End, HandleFailure, HandleAmbiguous, Archive, FinishFails
    <2>6. CASE Crash BY <2>6, <1>3 DEF Crash
    <2>7. CASE Operator BY <2>7, <1>3 DEF Operator, Pause, Resume, RequestClear
    <2> QED BY <2>1, <2>2, <2>3, <2>4, <2>5, <2>6, <2>7 DEF Process
<1> QED BY <1>2, <1>4

\* Steps other than these leave every deal where it stands.
LEMMA BookKept ==
    ASSUME TypeOK, JournalInv, ~LocalFaults, Next, ~StartDeal, ~Archive, ~LoopClear
    PROVE  UNCHANGED Book
<1>1. /\ UNCHANGED place
      /\ \A d \in Deals : status'[d] # status[d] => place[d] = "active"
    <2> USE DEF TypeOK, TypeFiles, JournalInv, FilesOK, Executing, Idling, SetStatus, files,
                Goto, Step
    <2>1. CASE Loop
        BY <2>1 DEF Loop, LoopScan, NoCandidate, ClearFails, ConsumeClear, Restart
    <2>2. CASE Execute
        BY <2>2 DEF Execute, PreflightFails, PreflightRejects, Authorize, Skip, AttemptFails,
            Journal, FinishLeg, CreditSettles, CreditFails
    <2>3. CASE Place
        BY <2>3 DEF Place, Send, ReadFill, ReadNew, ReadRejection, Timeout, GiveUp,
            IdentityMismatch, LocalFault, Account, AccountRecovery
    <2>4. CASE Flatten
        BY <2>4 DEF Flatten, FetchTickers, TickersFail, RecoverNoEdge, RecoverDust,
            RecoverJournal, Flattened, NotFlattened
    <2>5. CASE End
        BY <2>5 DEF End, HandleFailure, HandleAmbiguous, FinishFails
    <2>6. CASE Crash BY <2>6 DEF Crash
    <2>7. CASE Operator BY <2>7 DEF Operator, Pause, Resume, RequestClear
    <2>8. CASE Exchange BY <2>8, ExchangeOnlySettles
    <2> QED BY <2>1, <2>2, <2>3, <2>4, <2>5, <2>6, <2>7, <2>8 DEF Next, Process
<1>2. ASSUME NEW e \in Deals PROVE BookOf(e)' = BookOf(e)
    BY <1>1 DEF BookOf
<1> QED BY <1>2, SameBook

-----------------------------------------------------------------------------
(* The other steps, each a step of the journal or a stutter.                *)

LEMMA StartOpens ==
    ASSUME TypeOK, JournalInv, StartDeal
    PROVE  \E d \in Deals : J!Open(d)
<1>1. PICK d \in Deals :
        /\ place[d] = "none" /\ place' = [place EXCEPT ![d] = "active"]
        /\ status' = [status EXCEPT ![d] = "IN_PROGRESS"]
    BY DEF StartDeal
<1>2. \A e \in Deals : place[e] # "active"
    BY DEF StartDeal, JournalInv, FilesOK, DealGate
<1>3. Book' = [Book EXCEPT ![d] = "active"]
    <2>1. ASSUME NEW e \in Deals PROVE BookOf(e)' = IF e = d THEN "active" ELSE BookOf(e)
        BY <1>1 DEF BookOf, TypeOK, TypeFiles
    <2> QED BY <2>1, BookBecomes
<1>4. Book[d] = "none" /\ \A e \in Deals : Book[e] # "active"
    BY <1>1, <1>2 DEF Book, BookOf
<1>5. UNCHANGED OrderPhase
    BY PhaseKept DEF StartDeal, Process, Execute, Send, Journal, RecoverJournal
<1> QED BY <1>3, <1>4, <1>5 DEF J!Open, J!Move

LEMMA ArchiveRetires ==
    ASSUME TypeOK, JournalInv, Archive
    PROVE  \E d \in Deals : J!Retire(d)
<1>1. /\ deal \in Deals /\ place[deal] = "active" /\ status[deal] # "OPERATOR_CLEARED"
      /\ \A l \in Labels : ~Unresolved(deal, l)
    BY DEF Archive, JournalInv, FilesOK, Quiet, Executing, Idling, Waiting
<1>2. place' = [place EXCEPT ![deal] = "archived"] /\ status' = status
    BY DEF Archive
<1>3. Book' = [Book EXCEPT ![deal] = "retired"]
    <2>1. ASSUME NEW e \in Deals PROVE BookOf(e)' = IF e = deal THEN "retired" ELSE BookOf(e)
        BY <1>1, <1>2 DEF BookOf, TypeOK, TypeFiles
    <2> QED BY <1>1, <2>1, BookBecomes
<1>4. Book[deal] = "active" /\ \A l \in Labels : OrderPhase[deal][l] # "live"
    BY <1>1 DEF Book, BookOf, OrderPhase, PhaseOf
<1>5. UNCHANGED OrderPhase
    BY PhaseKept DEF Archive, Process, End, Send, Journal, RecoverJournal
<1> QED BY <1>1, <1>3, <1>4, <1>5 DEF J!Retire, J!Move

LEMMA LoopClears ==
    ASSUME TypeOK, JournalInv, LoopClear
    PROVE  (\E d \in Deals : J!Clear(d)) \/ UNCHANGED <<Book, OrderPhase>>
<1>1. UNCHANGED OrderPhase
    BY PhaseKept DEF LoopClear, Process, Loop, Send, Journal, RecoverJournal
<1>2. \A e \in Deals :
        BookOf(e)' = IF place[e] = "active" THEN "cleared" ELSE BookOf(e)
    BY DEF LoopClear, BookOf, TypeOK, TypeFiles
<1>3. CASE \E d \in Deals : place[d] = "active"
    <2>1. PICK d \in Deals : place[d] = "active"
        BY <1>3
    <2>2. \A e \in Deals : place[e] = "active" => e = d
        BY <2>1 DEF JournalInv, FilesOK, Deals
    <2>3. Book' = [Book EXCEPT ![d] = "cleared"]
        BY <1>2, <2>1, <2>2, BookBecomes
    <2>4. Book[d] = "active"
        BY <2>1 DEF Book, BookOf
    <2> QED BY <1>1, <2>3, <2>4 DEF J!Clear, J!Move
<1>4. CASE \A d \in Deals : place[d] # "active"
    BY <1>1, <1>2, <1>4, SameBook
<1> QED BY <1>3, <1>4

LEMMA JournalIntends ==
    ASSUME TypeOK, JournalInv, ~LocalFaults, Journal \/ RecoverJournal
    PROVE  (\E d \in Deals, l \in Labels : J!Intend(d, l)) \/ UNCHANGED <<Book, OrderPhase>>
<1>1. UNCHANGED Book
    BY BookKept DEF Journal, RecoverJournal, StartDeal, Archive, LoopClear, Next, Process,
                    Execute, Flatten
<1>2. /\ deal \in Deals /\ place[deal] = "active" /\ Label' \in Labels /\ ex' = ex
      /\ \E q \in Nat \ {0} : Append(Label', q)
    BY JournalOrders, JournaledOrder
<1>3. PICK l \in Labels : l = Label' /\ orders' = [orders EXCEPT ![deal][l] = "SUBMITTING"]
    BY <1>2 DEF Append
<1>4. ex[deal][l] = "none"
    <2>1. l \in ToCome' /\ deal' = deal /\ Executing /\ Executing'
        BY <1>3, JournalOrders, JournaledOrder
           DEF ToCome, Executing, Idling, Journal, RecoverJournal
    <2> QED BY <2>1, JournalOrders, ToComeJournal, ToComeRecover DEF JournalInv, Fresh
<1>5. \A e \in Deals, m \in Labels :
        PhaseOf(e, m)' = IF e = deal /\ m = l THEN "intended" ELSE PhaseOf(e, m)
    BY <1>2, <1>3, <1>4 DEF PhaseOf, Unresolved, TypeOK, TypeJournal
<1>6. OrderPhase' = [OrderPhase EXCEPT ![deal][l] = "intended"]
    BY <1>2, <1>5, PhaseBecomes
<1>7. CASE orders[deal][l] = "none"
    <2>1. Book[deal] = "active" /\ OrderPhase[deal][l] = "absent"
        BY <1>2, <1>7 DEF Book, BookOf, OrderPhase, PhaseOf
    <2> QED BY <1>1, <1>2, <1>6, <2>1 DEF J!Intend, J!Become
<1>8. CASE orders[deal][l] # "none"
    <2>1. \A e \in Deals, m \in Labels : PhaseOf(e, m)' = PhaseOf(e, m)
        BY <1>4, <1>5, <1>8 DEF PhaseOf
    <2> QED BY <1>1, <2>1, SamePhase
<1> QED BY <1>7, <1>8

LEMMA SendSends ==
    ASSUME TypeOK, JournalInv, ~LocalFaults, Send
    PROVE  \E d \in Deals, l \in Labels : J!Send(d, l)
<1>1. UNCHANGED Book
    BY BookKept DEF Send, StartDeal, Archive, LoopClear, Next, Process, Place
<1>2. /\ deal \in Deals /\ place[deal] = "active" /\ Label \in Labels
      /\ orders[deal][Label] # "none" /\ UNCHANGED orders
      /\ \A m \in Labels : ~Unresolved(deal, m)
    BY DEF Send, journal, JournalInv, WalkOK, FilesOK, Quiet, Submitted, Executing, Idling,
           Placing, Waiting
<1>3. PICK l \in Labels : l = Label
    BY <1>2
<1>4. ex[deal][l] = "none"
    BY <1>3 DEF Send, JournalInv, Fresh, ToCome, Executing, Idling
<1>5. \A e \in Deals, m \in Labels :
        PhaseOf(e, m)' = IF e = deal /\ m = l THEN "live" ELSE PhaseOf(e, m)
    BY <1>2, <1>3, SendTouches DEF PhaseOf, Unresolved, TypeOK
<1>6. OrderPhase' = [OrderPhase EXCEPT ![deal][l] = "live"]
    BY <1>2, <1>5, PhaseBecomes
<1>7. Book[deal] = "active" /\ OrderPhase[deal][l] = "intended"
      /\ \A m \in Labels : OrderPhase[deal][m] # "live"
    BY <1>2, <1>3, <1>4 DEF Book, BookOf, OrderPhase, PhaseOf
<1> QED BY <1>1, <1>2, <1>6, <1>7 DEF J!Send, J!Become

LEMMA ExchangeSettles ==
    ASSUME TypeOK, JournalInv, ~LocalFaults, Exchange
    PROVE  (\E d \in Deals, l \in Labels : J!Settle(d, l)) \/ UNCHANGED <<Book, OrderPhase>>
<1>1. UNCHANGED Book /\ UNCHANGED orders
    BY ExchangeOnlySettles DEF TypeOK, Book, BookOf, files, journal
<1>2. PICK d \in Deals, l \in Labels : Accept(d, l) \/ Match(d, l)
    BY DEF Exchange
<1>3. PICK s \in {"open", "refused", "lost", "done"} :
        ex' = [ex EXCEPT ![d][l] = s] /\ ex[d][l] \in {"wire", "open"}
    BY <1>2 DEF Accept, Match
<1>4. orders[d][l] # "none"
    BY <1>3 DEF JournalInv, Recorded
<1>5. PhaseOf(d, l) = "live"
    BY <1>3, <1>4 DEF PhaseOf, Unresolved
<1>6. \A e \in Deals, m \in Labels :
        PhaseOf(e, m)' = IF e = d /\ m = l THEN IF s = "open" THEN "live" ELSE "settled"
                         ELSE PhaseOf(e, m)
    BY <1>1, <1>3, <1>4 DEF PhaseOf, Unresolved, TypeOK, TypeExchange
<1>7. CASE s = "open"
    BY <1>1, <1>5, <1>6, <1>7, SamePhase
<1>8. CASE s # "open"
    <2>1. OrderPhase' = [OrderPhase EXCEPT ![d][l] = "settled"]
        BY <1>6, <1>8, PhaseBecomes
    <2>2. OrderPhase[d][l] = "live"
        BY <1>5 DEF OrderPhase
    <2> QED BY <1>1, <2>1, <2>2 DEF J!Settle, J!Become
<1> QED BY <1>7, <1>8

-----------------------------------------------------------------------------
\* Executing deals keeps the order journal's promise: the executor's specification
\* implies OrderJournal's, under the refinement mapping.
THEOREM ExecutorKeepsJournal == ASSUME ~LocalFaults PROVE Spec => KeepsJournal
<1>1. Init => J!Init
    <2> SUFFICES ASSUME Init PROVE J!Init
        OBVIOUS
    <2> QED BY DEF Init, J!Init, Book, BookOf, OrderPhase, PhaseOf
<1>2. ASSUME TypeOK, JournalInv, [Next]_vars PROVE [J!Next]_(J!vars)
    <2> USE <1>2 DEF J!Next, J!vars
    <2>1. CASE StartDeal BY <2>1, StartOpens
    <2>2. CASE Archive BY <2>2, ArchiveRetires
    <2>3. CASE LoopClear BY <2>3, LoopClears
    <2>4. CASE Journal \/ RecoverJournal BY <2>4, JournalIntends
    <2>5. CASE Send BY <2>5, SendSends
    <2>6. CASE Exchange BY <2>6, ExchangeSettles
    <2>7. CASE Next /\ ~(StartDeal \/ Archive \/ LoopClear \/ Journal \/ RecoverJournal
                         \/ Send \/ Exchange)
        BY <2>7, BookKept, PhaseKept DEF Next
    <2>8. CASE UNCHANGED vars
        BY <2>8 DEF vars, files, journal, exchange, Book, BookOf, OrderPhase, PhaseOf, Unresolved
    <2> QED BY <2>1, <2>2, <2>3, <2>4, <2>5, <2>6, <2>7, <2>8
<1> QED BY <1>1, <1>2, TypeCorrect, JournalHolds, PTL DEF Spec, KeepsJournal, J!Spec
=============================================================================
