---------------------------- MODULE ExecutorTypes ----------------------------
(* Type correctness and the pause, for every number of legs, deals and       *)
(* amounts.  One lemma per group of variables; each goes through the groups  *)
(* of actions and singles out those that compute a new value.                *)
EXTENDS Executor, TLAPS

LEMMA NextPolicyType == \A p \in Policies : NextPolicy(p) \in Policies \cup {"NONE"}
BY DEF NextPolicy, Policies

LEMMA FillsType == ASSUME NEW q \in Nat PROVE Fills(q) \subseteq [spent : Nat, out : Nat]
BY BoundsAssumption, SMTT(30) DEF Fills

LEMMA RemainingType == TypeCarry => Remaining \in Nat
BY DEF TypeCarry, Remaining

\* What a fill books keeps every balance a natural number: the source is clamped.
LEMMA BookedType ==
    ASSUME TypeLedger, TypeFill, NEW l
    PROVE  Booked(l) \in [Deals -> [Assets -> Nat]]
<1>1. inv \in [Deals -> [Assets -> Nat]] /\ fill.spent \in Nat /\ fill.out \in Nat
    BY DEF TypeLedger, TypeFill
<1> DEFINE row == [a \in Assets |-> CASE a = Source(l) -> Drawn(inv[deal][Source(l)])
                                     [] a = Target(l) -> inv[deal][Target(l)] + fill.out
                                     [] OTHER -> inv[deal][a]]
<1>2. deal \in Deals => row \in [Assets -> Nat]
    BY <1>1 DEF Drawn
<1>3. Booked(l) = [inv EXCEPT ![deal] = row]
    BY DEF Booked, Transfer, SourceOf, TargetOf
<1> HIDE DEF row
<1> QED BY <1>1, <1>2, <1>3

LEMMA AppendType ==
    ASSUME TypeJournal, NEW l, NEW q \in Nat, Append(l, q)
    PROVE  TypeJournal'
<1>1. orders' \in [Deals -> [Labels -> {"none", "SUBMITTING", "NEW", "CLOSED", "BOOKED"}]]
    BY DEF TypeJournal, Append
<1>2. input' \in [Deals -> [Labels -> Nat]]
    BY DEF TypeJournal, Append
<1> QED BY <1>1, <1>2 DEF TypeJournal

-----------------------------------------------------------------------------
LEMMA TypeOperatorStep == TypeOK /\ Next => TypeOperator'
<1> SUFFICES ASSUME TypeOK, Next PROVE TypeOperator'
    OBVIOUS
<1> USE DEF TypeOK, TypeOperator, operator, Goto, Step
<1>1. CASE Loop
    BY <1>1 DEF Loop, LoopScan, NoCandidate, LoopClear, ClearFails, ConsumeClear, Restart
<1>2. CASE Execute
    BY <1>2 DEF Execute, StartDeal, PreflightFails, PreflightRejects, Authorize, Skip,
                AttemptFails, Journal, FinishLeg, CreditSettles, CreditFails
<1>3. CASE Place
    BY <1>3 DEF Place, Send, ReadFill, ReadNew, ReadRejection, Timeout, GiveUp,
                IdentityMismatch, LocalFault, Account, AccountRecovery
<1>4. CASE Flatten
    BY <1>4 DEF Flatten, FetchTickers, TickersFail, RecoverNoEdge, RecoverDust,
                RecoverJournal, Flattened, NotFlattened
<1>5. CASE End BY <1>5 DEF End, HandleFailure, HandleAmbiguous, Archive, FinishFails
<1>6. CASE Crash BY <1>6 DEF Crash
<1>7. CASE Operator
    <2>1. CASE Pause BY <2>1 DEF Pause
    <2>2. CASE Resume BY <2>2 DEF Resume
    <2>3. CASE RequestClear BY <2>3 DEF RequestClear
    <2> QED BY <1>7, <2>1, <2>2, <2>3 DEF Operator
<1>8. CASE Exchange BY <1>8 DEF Exchange, Accept, Match
<1> QED BY <1>1, <1>2, <1>3, <1>4, <1>5, <1>6, <1>7, <1>8 DEF Next, Process

LEMMA TypeWalkStep == TypeOK /\ Next => TypeWalk'
<1> SUFFICES ASSUME TypeOK, Next PROVE TypeWalk'
    OBVIOUS
<1> USE LegsAssumption DEF TypeOK, TypeWalk, walk, Goto, Step, PCs, Legs, Policies
<1>1. CASE Loop
    BY <1>1 DEF Loop, LoopScan, NoCandidate, LoopClear, ClearFails, ConsumeClear, Restart,
                Leave
<1>2. CASE Execute
    BY <1>2, NextPolicyType
       DEF Execute, StartDeal, PreflightFails, PreflightRejects, Authorize, Skip, LegOver,
           AttemptFails, Journal, FinishLeg, CreditSettles, CreditFails, BeginLeg, BeginRecovery
<1>3. CASE Place
    <2>1. CASE Account
        <3>1. pc' \in PCs /\ UNCHANGED <<phase, deal, leg>> BY <2>1 DEF Account
        <3>2. policy' = policy \/ policy' = NextPolicy(policy) BY <2>1 DEF Account
        <3>3. NextPolicy(policy) \in Policies \cup {"NONE"} BY DEF NextPolicy
        <3> QED BY <3>1, <3>2, <3>3
    <2>2. CASE Send \/ ReadFill \/ ReadNew \/ ReadRejection \/ Timeout
        BY <2>2 DEF Send, ReadFill, ReadNew, ReadRejection, Timeout, Fails
    <2>3. CASE GiveUp \/ IdentityMismatch \/ LocalFault \/ AccountRecovery
        BY <2>3 DEF GiveUp, IdentityMismatch, LocalFault, AccountRecovery, Fails
    <2> QED BY <1>3, <2>1, <2>2, <2>3 DEF Place
<1>4. CASE Flatten
    <2>1. CASE RecoverJournal BY <2>1 DEF RecoverJournal, Mids
    <2>2. CASE FetchTickers \/ TickersFail BY <2>2 DEF FetchTickers, TickersFail, Leave
    <2>3. CASE RecoverNoEdge \/ RecoverDust BY <2>3 DEF RecoverNoEdge, RecoverDust
    <2>4. CASE Flattened \/ NotFlattened BY <2>4 DEF Flattened, NotFlattened, Leave
    <2> QED BY <1>4, <2>1, <2>2, <2>3, <2>4 DEF Flatten
<1>5. CASE End
    BY <1>5 DEF End, HandleFailure, HandleAmbiguous, Archive, FinishFails, Leave, BeginRecovery
<1>6. CASE Crash BY <1>6 DEF Crash, Leave
<1>7. CASE Operator BY <1>7 DEF Operator, Pause, Resume, RequestClear
<1>8. CASE Exchange BY <1>8 DEF Exchange, Accept, Match
<1> QED BY <1>1, <1>2, <1>3, <1>4, <1>5, <1>6, <1>7, <1>8 DEF Next, Process

LEMMA TypeCarryStep == TypeOK /\ Next => TypeCarry'
<1> SUFFICES ASSUME TypeOK, Next PROVE TypeCarry'
    OBVIOUS
<1> USE DEF TypeOK, TypeCarry, carry, Goto, Step
<1>1. CASE Loop
    BY <1>1 DEF Loop, LoopScan, NoCandidate, LoopClear, ClearFails, ConsumeClear, Restart,
                Leave
<1>2. CASE Execute
    BY <1>2 DEF Execute, StartDeal, PreflightFails, PreflightRejects, Authorize, Skip,
                AttemptFails, Journal, FinishLeg, CreditSettles, CreditFails, BeginLeg, BeginRecovery
<1>3. CASE Place
    <2>1. CASE Account BY <2>1 DEF Account, TypeFill
    <2>2. CASE Place /\ ~Account
        BY <2>2 DEF Place, Send, ReadFill, ReadNew, ReadRejection, Timeout, GiveUp,
                    IdentityMismatch, LocalFault, AccountRecovery
    <2> QED BY <1>3, <2>1, <2>2
<1>4. CASE Flatten
    BY <1>4 DEF Flatten, FetchTickers, TickersFail, RecoverNoEdge, RecoverDust,
                RecoverJournal, Flattened, NotFlattened, Leave
<1>5. CASE End
    BY <1>5 DEF End, HandleFailure, HandleAmbiguous, Archive, FinishFails, Leave, BeginRecovery
<1>6. CASE Crash BY <1>6 DEF Crash, Leave
<1>7. CASE Operator BY <1>7 DEF Operator, Pause, Resume, RequestClear
<1>8. CASE Exchange BY <1>8 DEF Exchange, Accept, Match
<1> QED BY <1>1, <1>2, <1>3, <1>4, <1>5, <1>6, <1>7, <1>8 DEF Next, Process

LEMMA TypeFlatStep == TypeOK /\ Next => TypeFlat'
<1> SUFFICES ASSUME TypeOK, Next PROVE TypeFlat'
    OBVIOUS
<1> USE DEF TypeOK, TypeFlat, flat, Goto, Step
<1>1. CASE Loop
    BY <1>1 DEF Loop, LoopScan, NoCandidate, LoopClear, ClearFails, ConsumeClear, Restart,
                Leave
<1>2. CASE Execute
    BY <1>2 DEF Execute, StartDeal, PreflightFails, PreflightRejects, Authorize, Skip,
                AttemptFails, Journal, FinishLeg, CreditSettles, CreditFails, BeginLeg,
                BeginRecovery, Positions
<1>3. CASE Place
    BY <1>3 DEF Place, Send, ReadFill, ReadNew, ReadRejection, Timeout, GiveUp, Fails,
                IdentityMismatch, LocalFault, Account, AccountRecovery
<1>4. CASE Flatten
    BY <1>4 DEF Flatten, FetchTickers, TickersFail, RecoverNoEdge, RecoverDust, walk,
                RecoverJournal, Flattened, NotFlattened, Leave
<1>5. CASE End
    BY <1>5 DEF End, HandleFailure, HandleAmbiguous, Archive, FinishFails, Leave,
                BeginRecovery, Positions
<1>6. CASE Crash BY <1>6 DEF Crash, Leave
<1>7. CASE Operator BY <1>7 DEF Operator, Pause, Resume, RequestClear
<1>8. CASE Exchange BY <1>8 DEF Exchange, Accept, Match
<1> QED BY <1>1, <1>2, <1>3, <1>4, <1>5, <1>6, <1>7, <1>8 DEF Next, Process

LEMMA TypeFilesStep == TypeOK /\ Next => TypeFiles'
<1> SUFFICES ASSUME TypeOK, Next PROVE TypeFiles'
    OBVIOUS
<1> USE DEF TypeOK, TypeFiles, files, Goto, Step, SetStatus, Statuses
<1>1. CASE Loop
    BY <1>1 DEF Loop, LoopScan, NoCandidate, LoopClear, ClearFails, ConsumeClear, Restart
<1>2. CASE Execute
    BY <1>2 DEF Execute, StartDeal, PreflightFails, PreflightRejects, Authorize, Skip,
                AttemptFails, Journal, FinishLeg, CreditSettles, CreditFails
<1>3. CASE Place
    BY <1>3 DEF Place, Send, ReadFill, ReadNew, ReadRejection, Timeout, GiveUp,
                IdentityMismatch, LocalFault, Account, AccountRecovery
<1>4. CASE Flatten
    BY <1>4 DEF Flatten, FetchTickers, TickersFail, RecoverNoEdge, RecoverDust,
                RecoverJournal, Flattened, NotFlattened
<1>5. CASE End BY <1>5 DEF End, HandleFailure, HandleAmbiguous, Archive, FinishFails
<1>6. CASE Crash BY <1>6 DEF Crash
<1>7. CASE Operator BY <1>7 DEF Operator, Pause, Resume, RequestClear
<1>8. CASE Exchange BY <1>8 DEF Exchange, Accept, Match
<1> QED BY <1>1, <1>2, <1>3, <1>4, <1>5, <1>6, <1>7, <1>8 DEF Next, Process

LEMMA TypeJournalStep == TypeOK /\ Next => TypeJournal'
<1> SUFFICES ASSUME TypeOK, Next PROVE TypeJournal'
    OBVIOUS
<1> USE DEF TypeOK, journal, Goto, Step
<1>1. CASE Loop
    BY <1>1 DEF Loop, LoopScan, NoCandidate, LoopClear, ClearFails, ConsumeClear, Restart, TypeJournal
<1>2. CASE Execute
    <2>1. CASE Journal BY <2>1, AppendType, RemainingType DEF Journal
    <2>2. CASE Execute /\ ~Journal
        BY <2>2 DEF Execute, StartDeal, PreflightFails, PreflightRejects, Authorize, Skip,
                    AttemptFails, FinishLeg, CreditSettles, CreditFails, TypeJournal
    <2> QED BY <1>2, <2>1, <2>2
<1>3. CASE Place
    <2>1. CASE ReadFill \/ ReadNew \/ IdentityMismatch
        BY <2>1 DEF ReadFill, ReadNew, IdentityMismatch, TypeJournal
    <2>2. CASE Account BY <2>2 DEF Account, TypeJournal
    <2>3. CASE AccountRecovery BY <2>3 DEF AccountRecovery, TypeJournal
    <2>4. CASE Send \/ ReadRejection \/ Timeout \/ GiveUp \/ LocalFault
        BY <2>4 DEF Send, ReadRejection, Timeout, GiveUp, LocalFault, TypeJournal
    <2> QED BY <1>3, <2>1, <2>2, <2>3, <2>4 DEF Place
<1>4. CASE Flatten
    <2>1. CASE RecoverJournal
        <3>1. PICK a \in Mids : Append(<<a, "RECOVERY">>, inv[deal][a]) /\ Executable("MARKET", inv[deal][a])
            BY <2>1 DEF RecoverJournal
        <3>2. inv[deal][a] \in Nat BY <3>1, LotsAssumption DEF Executable
        <3> QED BY <3>1, <3>2, AppendType
    <2>2. CASE Flatten /\ ~RecoverJournal
        BY <2>2 DEF Flatten, FetchTickers, TickersFail, RecoverNoEdge, RecoverDust,
                    Flattened, NotFlattened, TypeJournal
    <2> QED BY <1>4, <2>1, <2>2
<1>5. CASE End BY <1>5 DEF End, HandleFailure, HandleAmbiguous, Archive, FinishFails, TypeJournal
<1>6. CASE Crash BY <1>6 DEF Crash, TypeJournal
<1>7. CASE Operator BY <1>7 DEF Operator, Pause, Resume, RequestClear, TypeJournal
<1>8. CASE Exchange BY <1>8 DEF Exchange, Accept, Match, TypeJournal
<1> QED BY <1>1, <1>2, <1>3, <1>4, <1>5, <1>6, <1>7, <1>8 DEF Next, Process

LEMMA TypeLedgerStep == TypeOK /\ Next => TypeLedger'
<1> SUFFICES ASSUME TypeOK, Next PROVE TypeLedger'
    OBVIOUS
<1> USE DEF TypeOK, ledger, Goto, Step
<1>1. CASE Loop
    BY <1>1 DEF Loop, LoopScan, NoCandidate, LoopClear, ClearFails, ConsumeClear, Restart, TypeLedger
<1>2. CASE Execute
    <2>1. CASE Authorize
        <3>1. PICK q \in 1..MaxAmount : authorized' = [authorized EXCEPT ![deal] = q]
            BY <2>1 DEF Authorize
        <3>2. q \in Nat BY BoundsAssumption
        <3>3. authorized' \in [Deals -> Nat] BY <3>1, <3>2 DEF TypeLedger
        <3> QED BY <2>1, <3>3 DEF Authorize, TypeLedger
    <2>2. CASE Execute /\ ~Authorize
        BY <2>2 DEF Execute, StartDeal, PreflightFails, PreflightRejects, Skip, Journal,
                    AttemptFails, FinishLeg, CreditSettles, CreditFails, TypeLedger
    <2> QED BY <1>2, <2>1, <2>2
<1>3. CASE Place
    <2>1. CASE Account
        <3>1. inv' \in [Deals -> [Assets -> Nat]] BY <2>1, BookedType DEF Account
        <3>2. startSpent \in [Deals -> Nat] /\ fill.spent \in Nat BY DEF TypeLedger, TypeFill
        <3> DEFINE total == startSpent[deal] + fill.spent
        <3>3. startSpent' \in [Deals -> Nat]
            <4>1. startSpent' = startSpent \/ startSpent' = [startSpent EXCEPT ![deal] = total]
                BY <2>1 DEF Account
            <4>2. deal \in Deals => total \in Nat BY <3>2
            <4> HIDE DEF total
            <4> QED BY <3>2, <4>1, <4>2
        <3> QED BY <2>1, <3>1, <3>3 DEF Account, TypeLedger
    <2>2. CASE AccountRecovery
        <3>1. inv' \in [Deals -> [Assets -> Nat]] BY <2>2, BookedType DEF AccountRecovery
        <3> QED BY <2>2, <3>1 DEF AccountRecovery, TypeLedger
    <2>3. CASE Place /\ ~Account /\ ~AccountRecovery
        BY <2>3 DEF Place, Send, ReadFill, ReadNew, ReadRejection, Timeout, GiveUp,
                    IdentityMismatch, LocalFault, TypeLedger
    <2> QED BY <1>3, <2>1, <2>2, <2>3
<1>4. CASE Flatten
    BY <1>4 DEF Flatten, FetchTickers, TickersFail, RecoverNoEdge, RecoverDust,
                RecoverJournal, Flattened, NotFlattened, TypeLedger
<1>5. CASE End BY <1>5 DEF End, HandleFailure, HandleAmbiguous, Archive, FinishFails, TypeLedger
<1>6. CASE Crash BY <1>6 DEF Crash, TypeLedger
<1>7. CASE Operator BY <1>7 DEF Operator, Pause, Resume, RequestClear, TypeLedger
<1>8. CASE Exchange BY <1>8 DEF Exchange, Accept, Match, TypeLedger
<1> QED BY <1>1, <1>2, <1>3, <1>4, <1>5, <1>6, <1>7, <1>8 DEF Next, Process

LEMMA TypeFillStep == TypeOK /\ Next => TypeFill'
<1> SUFFICES ASSUME TypeOK, Next PROVE TypeFill'
    OBVIOUS
<1> USE DEF TypeOK, TypeFill, exchange, NoFill, Goto, Step
<1>1. CASE Loop
    BY <1>1 DEF Loop, LoopScan, NoCandidate, LoopClear, ClearFails, ConsumeClear, Restart,
                Leave
<1>2. CASE Execute
    BY <1>2 DEF Execute, StartDeal, PreflightFails, PreflightRejects, Authorize, Skip,
                AttemptFails, Journal, FinishLeg, CreditSettles, CreditFails
<1>3. CASE Place
    BY <1>3 DEF Place, Send, ReadFill, ReadNew, ReadRejection, Timeout, GiveUp,
                IdentityMismatch, LocalFault, Account, AccountRecovery
<1>4. CASE Flatten
    BY <1>4 DEF Flatten, FetchTickers, TickersFail, RecoverNoEdge, RecoverDust,
                RecoverJournal, Flattened, NotFlattened, Leave
<1>5. CASE End BY <1>5 DEF End, HandleFailure, HandleAmbiguous, Archive, FinishFails, Leave
<1>6. CASE Crash BY <1>6 DEF Crash, Leave
<1>7. CASE Operator BY <1>7 DEF Operator, Pause, Resume, RequestClear
<1>8. CASE Exchange
    <2>1. PICK d \in Deals, l \in Labels : Accept(d, l) \/ Match(d, l) BY <1>8 DEF Exchange
    <2>2. CASE Accept(d, l) BY <2>2 DEF Accept
    <2>3. CASE Match(d, l)
        <3>1. Fills(input[d][l]) \subseteq [spent : Nat, out : Nat]
            BY <2>1, FillsType DEF TypeJournal
        <3> QED BY <2>3, <3>1 DEF Match
    <2> QED BY <2>1, <2>2, <2>3
<1> QED BY <1>1, <1>2, <1>3, <1>4, <1>5, <1>6, <1>7, <1>8 DEF Next, Process

LEMMA TypeExchangeStep == TypeOK /\ Next => TypeExchange'
<1> SUFFICES ASSUME TypeOK, Next PROVE TypeExchange'
    OBVIOUS
<1> USE DEF TypeOK, TypeExchange, exchange, Goto, Step
<1>1. CASE Loop
    BY <1>1 DEF Loop, LoopScan, NoCandidate, LoopClear, ClearFails, ConsumeClear, Restart
<1>2. CASE Execute
    BY <1>2 DEF Execute, StartDeal, PreflightFails, PreflightRejects, Authorize, Skip,
                AttemptFails, Journal, FinishLeg, CreditSettles, CreditFails
<1>3. CASE Place
    <2>1. CASE Send BY <2>1 DEF Send
    <2>2. CASE Place /\ ~Send
        BY <2>2 DEF Place, ReadFill, ReadNew, ReadRejection, Timeout, GiveUp,
                    IdentityMismatch, LocalFault, Account, AccountRecovery
    <2> QED BY <1>3, <2>1, <2>2
<1>4. CASE Flatten
    BY <1>4 DEF Flatten, FetchTickers, TickersFail, RecoverNoEdge, RecoverDust,
                RecoverJournal, Flattened, NotFlattened
<1>5. CASE End BY <1>5 DEF End, HandleFailure, HandleAmbiguous, Archive, FinishFails
<1>6. CASE Crash BY <1>6 DEF Crash
<1>7. CASE Operator BY <1>7 DEF Operator, Pause, Resume, RequestClear
<1>8. CASE Exchange
    <2>1. PICK d \in Deals, l \in Labels : Accept(d, l) \/ Match(d, l) BY <1>8 DEF Exchange
    <2>2. CASE Accept(d, l) BY <2>2 DEF Accept
    <2>3. CASE Match(d, l)
        <3>1. PICK f \in Fills(input[d][l]) :
                acct' = Transfer(acct, d, l, acct[d][Source(l)] - f.spent, acct[d][Target(l)] + f.out)
            BY <2>3 DEF Match
        <3>2. f.spent \in Nat /\ f.out \in Nat
            <4>1. input[d][l] \in Nat BY <2>1 DEF TypeJournal
            <4>2. f \in [spent : Nat, out : Nat] BY <4>1, FillsType
            <4> QED BY <4>2
        <3> DEFINE row == [a \in Assets |-> CASE a = Source(l) -> acct[d][Source(l)] - f.spent
                                             [] a = Target(l) -> acct[d][Target(l)] + f.out
                                             [] OTHER -> acct[d][a]]
        <3>3. row \in [Assets -> Int] BY <2>1, <3>2
        <3>4. acct' = [acct EXCEPT ![d] = row] BY <3>1 DEF Transfer
        <3>5. acct' \in [Deals -> [Assets -> Int]]
            <4> HIDE DEF row
            <4> QED BY <3>3, <3>4
        <3>6. ex' \in [Deals -> [Labels -> {"none", "wire", "open", "done", "refused", "lost"}]]
            BY <2>3 DEF Match
        <3> QED BY <3>5, <3>6
    <2> QED BY <2>1, <2>2, <2>3
<1> QED BY <1>1, <1>2, <1>3, <1>4, <1>5, <1>6, <1>7, <1>8 DEF Next, Process

-----------------------------------------------------------------------------
LEMMA TypeStep == TypeOK /\ [Next]_vars => TypeOK'
<1>1. CASE Next
    BY <1>1, TypeOperatorStep, TypeWalkStep, TypeCarryStep, TypeFlatStep, TypeFilesStep,
       TypeJournalStep, TypeLedgerStep, TypeFillStep, TypeExchangeStep DEF TypeOK
<1>2. CASE UNCHANGED vars
    <2> USE <1>2 DEF vars, TypeOK
    <2>1. TypeOperator => TypeOperator' BY DEF TypeOperator, operator
    <2>2. TypeWalk => TypeWalk' BY DEF TypeWalk, walk
    <2>3. TypeCarry => TypeCarry' BY DEF TypeCarry, carry
    <2>4. TypeFlat => TypeFlat' BY DEF TypeFlat, flat
    <2>5. TypeFiles => TypeFiles' BY DEF TypeFiles, files
    <2>6. TypeJournal => TypeJournal' BY DEF TypeJournal, journal
    <2>7. TypeLedger => TypeLedger' BY DEF TypeLedger, ledger
    <2>8. TypeFill => TypeFill' BY DEF TypeFill, exchange
    <2>9. TypeExchange => TypeExchange' BY DEF TypeExchange, exchange
    <2> QED BY <2>1, <2>2, <2>3, <2>4, <2>5, <2>6, <2>7, <2>8, <2>9
<1> QED BY <1>1, <1>2

LEMMA TypeInit == Init => TypeOK
<1> SUFFICES ASSUME Init PROVE TypeOK
    OBVIOUS
<1> USE LegsAssumption DEF Init
<1>1. TypeOperator BY DEF TypeOperator
<1>2. TypeWalk BY DEF TypeWalk, PCs, Legs, Policies
<1>3. TypeCarry /\ TypeFlat BY DEF TypeCarry, TypeFlat
<1>4. TypeFiles BY DEF TypeFiles, Statuses
<1>5. TypeJournal BY DEF TypeJournal
<1>6. TypeLedger BY DEF TypeLedger
<1>7. TypeFill BY DEF TypeFill, NoFill
<1>8. TypeExchange BY DEF TypeExchange
<1> QED BY <1>1, <1>2, <1>3, <1>4, <1>5, <1>6, <1>7, <1>8 DEF TypeOK

\* Every variable keeps to its type, whatever the length of the route and the amounts;
\* in particular no balance of the durable inventory is ever negative.
THEOREM TypeCorrect == Spec => []TypeOK
BY TypeInit, TypeStep, PTL DEF Spec

-----------------------------------------------------------------------------
(* The pause: after the operator pauses the service at most one entry order  *)
(* still leaves.                                                             *)

\* Entry orders are counted only while paused, and one is journaled only while not:
\* whenever one is about to be sent, none was counted.  Recovery orders are not entries.
PauseInv ==
    /\ PauseRespected
    /\ control = "running" => lateEntries = 0
    /\ pc = "send" /\ AtEntry => lateEntries = 0
    /\ pc \in {"tickers", "recover"} => phase # "legs"

LEMMA PauseStep == TypeOperator /\ PauseInv /\ [Next]_vars => PauseInv'
<1> SUFFICES ASSUME TypeOperator, PauseInv, [Next]_vars PROVE PauseInv'
    OBVIOUS
<1> USE DEF TypeOperator, PauseInv, PauseRespected, AtEntry, operator, walk, carry, Goto, Step
<1>1. CASE Loop
    BY <1>1 DEF Loop, LoopScan, NoCandidate, LoopClear, ClearFails, ConsumeClear, Restart,
                Leave
<1>2. CASE Execute
    BY <1>2 DEF Execute, StartDeal, PreflightFails, PreflightRejects, Authorize, Skip,
                AttemptFails, Journal, EntryAllowed, FinishLeg, CreditSettles, CreditFails,
                BeginLeg, BeginRecovery
<1>3. CASE Place
    BY <1>3 DEF Place, Send, ReadFill, ReadNew, ReadRejection, Timeout, GiveUp, Fails,
                IdentityMismatch, LocalFault, Account, AccountRecovery
<1>4. CASE Flatten
    <2>1. CASE RecoverJournal
        BY <2>1 DEF RecoverJournal
    <2>2. CASE Flatten /\ ~RecoverJournal
        BY <2>2 DEF Flatten, FetchTickers, TickersFail, RecoverNoEdge, RecoverDust,
                    Flattened, NotFlattened, Leave
    <2> QED BY <1>4, <2>1, <2>2
<1>5. CASE End
    BY <1>5 DEF End, HandleFailure, HandleAmbiguous, Archive, FinishFails, Leave, BeginRecovery
<1>6. CASE Crash BY <1>6 DEF Crash, Leave
<1>7. CASE Operator BY <1>7 DEF Operator, Pause, Resume, RequestClear
<1>8. CASE Exchange BY <1>8 DEF Exchange, Accept, Match
<1>9. CASE UNCHANGED vars BY <1>9 DEF vars
<1> QED BY <1>1, <1>2, <1>3, <1>4, <1>5, <1>6, <1>7, <1>8, <1>9 DEF Next, Process

\* After an operator pause at most one entry order still leaves, whatever policies,
\* crashes and restarts follow.
THEOREM PauseHolds == Spec => []PauseRespected
<1>1. Init => PauseInv
    BY DEF Init, PauseInv, PauseRespected
<1>2. TypeOK => TypeOperator
    BY DEF TypeOK
<1>3. PauseInv => PauseRespected
    BY DEF PauseInv
<1> QED BY <1>1, <1>2, <1>3, TypeCorrect, PauseStep, PTL DEF Spec
=============================================================================
