--------------------------- MODULE RebalanceProofs ---------------------------
(* Allocation maintenance, for every number of runs, holdings and hops: what *)
(* its records say of their orders is what became of them, a skipped order   *)
(* stops nothing, a pause lets one more order leave at most, and every step  *)
(* is one the order journal allows.                                          *)
EXTENDS Rebalance, TLAPS

Planning == {"convert", "hop", "recheck", "next", "wrap"}
Placing  == {"send", "await", "resolve"}
Booking  == {"account", "credit"}
Ending   == {"raise", "ambiguous", "retire"}
Walking  == Planning \cup Placing \cup Booking \cup Ending
Resting  == {"idle", "clearing", "dead"}

Types ==
    /\ control \in {"running", "paused"} /\ late \in Nat
    /\ pc \in Walking \cup Resting /\ left \in Nat /\ hops \in Nat
    /\ place \in [Runs -> {"none", "active", "archived"}]
    /\ status \in [Runs -> {"NONE", "INTENT", "PARTIAL", "COMPLETE", "RECOVERY_REQUIRED",
                            "OPERATOR_CLEARED"}]
    /\ orders \in [Runs -> [Orders -> {"none", "SUBMITTING", "CLOSED", "REJECTED"}]]
    /\ count \in [Runs -> Nat] /\ failures \in [Runs -> BOOLEAN]
    /\ ex \in [Runs -> [Orders -> {"none", "wire", "done", "refused", "lost"}]]
    /\ heard \in [Runs -> Nat]

\* A run under way has the one active record, and no outcome yet.
Placed ==
    /\ pc \in Walking => run \in Runs /\ place[run] = "active"
    /\ pc \in Walking \ {"retire"} => status[run] = "INTENT"
    /\ \A r \in Runs : place[r] = "none" => count[r] = 0 /\ status[r] = "NONE"

\* The orders that the conversions still to come, and the current one, can need.
Ahead ==
    left * MaxHops + (IF pc = "convert" THEN MaxHops
                      ELSE IF pc = "hop" THEN hops
                      ELSE IF pc \in Placing \cup Booking THEN hops - 1 ELSE 0)

\* No run needs more orders than the model numbers.
Fits ==
    /\ pc \in {"hop"} \cup Placing \cup Booking => hops \in 1..MaxHops
    /\ pc \in Walking => count[run] + Ahead <= MaxOrders
    /\ \A r \in Runs : count[r] <= MaxOrders

\* Only the newest order of a record can be in doubt; one called rejected was.
Truthful == \A r \in Runs, k \in Orders :
    /\ k > count[r] => orders[r][k] = "none"
    /\ k < count[r] => orders[r][k] # "SUBMITTING"
    /\ orders[r][k] = "REJECTED" => ex[r][k] = "refused"
    /\ place[r] = "archived" /\ status[r] # "OPERATOR_CLEARED" => orders[r][k] # "SUBMITTING"

\* What the place of the process says of the newest order.
Newest ==
    /\ pc \in Placing => Last > 0 /\ orders[run][Last] = "SUBMITTING"
    /\ pc \in Booking => Last > 0 /\ orders[run][Last] = "CLOSED"
    /\ pc = "ambiguous" => Last > 0 /\ orders[run][Last] \in {"SUBMITTING", "CLOSED"}
    /\ pc \in Planning \cup {"retire"} => Last = 0 \/ orders[run][Last] # "SUBMITTING"
    /\ pc = "raise" /\ exc # "other" /\ Last > 0 /\ orders[run][Last] = "SUBMITTING"
           => ex[run][Last] = "refused"

\* A refused order is noted, or ended its run.
Noted == \A r \in Runs, k \in Orders :
    /\ orders[r][k] = "REJECTED" => failures[r] \/ status[r] # "INTENT"
    /\ status[r] = "COMPLETE" => orders[r][k] \in {"none", "CLOSED"}

\* A refusal that was noted is of the newest order only while that one is rejected.
Heard == \A r \in Runs :
    /\ heard[r] <= count[r]
    /\ heard[r] = count[r] => count[r] = 0 \/ orders[r][count[r]] = "REJECTED"
    /\ status[r] = "RECOVERY_REQUIRED" => count[r] > 0 /\ heard[r] < count[r]

\* An order leaves late only once, after which none is journaled before a resume.
Late ==
    /\ late <= 1 /\ (control = "running" => late = 0)
    /\ pc = "send" => late = 0

RebalanceInv == Types /\ Placed /\ Fits /\ Truthful /\ Newest /\ Noted /\ Heard /\ Late

\* The steps that move the process and change nothing else.
Moves ==
    \/ RequestFails \/ SkipConversion \/ BeginConversion \/ ReserveRestored \/ NextHolding
    \/ PlanDone \/ BlockFails \/ ReadRejection \/ Timeout \/ GiveUp \/ FillUnusable \/ Book
    \/ CreditSettles \/ CreditMissing \/ Restart \/ Crash

\* The steps that change something of the newest order of the run.
Marks ==
    \/ Journal \/ Send \/ ReadFill \/ ReadRestricted \/ IdentityMismatch \/ LocalFault
    \/ HandleFailure

\* The steps that change what the records say of their runs, and of no order.
Files ==
    \/ StartRun \/ WrapUp \/ Restricted \/ HandleAmbiguous \/ HandleDoubt \/ Finish \/ LoopClear

LEMMA Steps == Next <=> Moves \/ Marks \/ Files \/ ConsumeClear \/ Operator \/ Exchange
BY DEF Next, Process, Plan, Convert, End, Moves, Marks, Files

LEMMA MovesKeep == Moves => UNCHANGED <<operator, files, ex, history>>
BY DEF Moves, RequestFails, SkipConversion, BeginConversion, ReserveRestored, NextHolding,
       PlanDone, BlockFails, ReadRejection, Timeout, GiveUp, FillUnusable, Book,
       CreditSettles, CreditMissing, Restart, Crash, Step

-----------------------------------------------------------------------------
LEMMA RebalanceInit == Init => RebalanceInv
<1> SUFFICES ASSUME Init PROVE RebalanceInv
    OBVIOUS
<1> USE BoundsAssumption DEF Init, Walking, Resting, Planning, Placing, Booking, Ending
<1>1. orders \in [Runs -> [Orders -> {"none", "SUBMITTING", "CLOSED", "REJECTED"}]]
    OBVIOUS
<1>2. ex \in [Runs -> [Orders -> {"none", "wire", "done", "refused", "lost"}]]
    OBVIOUS
<1>3. Types BY <1>1, <1>2 DEF Types
<1>4. Placed /\ Truthful /\ Newest /\ Noted /\ Heard /\ Late
    BY DEF Placed, Truthful, Newest, Noted, Heard, Late, Runs, Orders
<1>5. MaxOrders \in Nat BY DEF MaxOrders
<1>6. Fits BY <1>5 DEF Fits, Runs
<1> QED BY <1>3, <1>4, <1>6 DEF RebalanceInv

LEMMA TypesStep == Types /\ Placed /\ [Next]_vars => Types'
<1> SUFFICES ASSUME Types, Placed, [Next]_vars PROVE Types'
    OBVIOUS
<1> USE DEF Types, Walking, Resting, Planning, Placing, Booking, Ending
<1>1. CASE Moves
    <2>1. pc' \in Walking \cup Resting
        BY <1>1 DEF Moves, RequestFails, SkipConversion, BeginConversion, ReserveRestored, NextHolding,
                    PlanDone, BlockFails, ReadRejection, Timeout, GiveUp, FillUnusable, Book,
                    CreditSettles, CreditMissing, Restart, Crash, Step, Goto, Raise, EndConversion,
                    Settled, Leave, Waiting
    <2>2. left' \in Nat /\ hops' \in Nat
        BY <1>1, BoundsAssumption
           DEF Moves, RequestFails, SkipConversion, BeginConversion, ReserveRestored, NextHolding,
               PlanDone, BlockFails, ReadRejection, Timeout, GiveUp, FillUnusable, Book,
               CreditSettles, CreditMissing, Restart, Crash, Step, Goto, Raise, EndConversion,
               Settled, Leave, Waiting
    <2> QED BY <1>1, <2>1, <2>2, MovesKeep DEF operator, files, history
<1>2. CASE Marks
    <2>1. run \in Runs
        BY <1>2 DEF Marks, Journal, Send, ReadFill, ReadRestricted, IdentityMismatch, LocalFault,
                    HandleFailure, Placed, Waiting
    <2>2. /\ UNCHANGED <<place, left>> /\ control' = control
        BY <1>2 DEF Marks, Journal, Send, ReadFill, ReadRestricted, IdentityMismatch, LocalFault,
                    HandleFailure, Goto, Raise, EndConversion, operator, files
    <2>3. orders' \in [Runs -> [Orders -> {"none", "SUBMITTING", "CLOSED", "REJECTED"}]]
        <3>1. UNCHANGED orders \/ Mark(Last + 1, "SUBMITTING")
                 \/ Mark(Last, "CLOSED") \/ Mark(Last, "REJECTED")
            BY <1>2 DEF Marks, Journal, Send, ReadFill, ReadRestricted, RestrictedNoted,
                        IdentityMismatch, LocalFault, HandleFailure, files
        <3>2. ASSUME NEW k, NEW s \in {"SUBMITTING", "CLOSED", "REJECTED"}, Mark(k, s)
              PROVE  orders' \in [Runs -> [Orders -> {"none", "SUBMITTING", "CLOSED", "REJECTED"}]]
            BY <2>1, <3>2 DEF Mark
        <3>3. CASE Mark(Last + 1, "SUBMITTING") BY ONLY <3>2, <3>3 DEF Mark
        <3>4. CASE Mark(Last, "CLOSED") BY ONLY <3>2, <3>4 DEF Mark
        <3>5. CASE Mark(Last, "REJECTED") BY ONLY <3>2, <3>5 DEF Mark
        <3> QED BY <3>1, <3>3, <3>4, <3>5
    <2>4. ex' \in [Runs -> [Orders -> {"none", "wire", "done", "refused", "lost"}]]
        <3>1. UNCHANGED ex \/ \E k \in Nat : ex' = [ex EXCEPT ![run][k] = "wire"]
            BY <1>2, <2>1 DEF Marks, Journal, Send, ReadFill, ReadRestricted, IdentityMismatch,
                              LocalFault, HandleFailure, Last
        <3>2. ASSUME NEW k \in Nat, ex' = [ex EXCEPT ![run][k] = "wire"]
              PROVE  ex' \in [Runs -> [Orders -> {"none", "wire", "done", "refused", "lost"}]]
            BY <2>1, <3>2
        <3> QED BY <3>1, <3>2
    <2>5. CASE Journal
        <3>1. count' \in [Runs -> Nat] BY <2>1, <2>5 DEF Journal
        <3> QED BY <2>2, <2>3, <2>4, <2>5, <3>1 DEF Journal, Goto, Raise, history
    <2>9. CASE Send
        <3>1. late' \in Nat BY <2>9 DEF Send
        <3> QED BY <2>2, <2>3, <2>4, <2>9, <3>1 DEF Send, Goto, files
    <2>6. CASE ReadFill \/ IdentityMismatch \/ LocalFault
        BY <2>1, <2>2, <2>3, <2>4, <2>6
           DEF ReadFill, IdentityMismatch, LocalFault, Goto, Raise, history
    <2>7. CASE ReadRestricted
        BY <2>1, <2>2, <2>3, <2>4, <2>7
           DEF ReadRestricted, RestrictedNoted, Raise, EndConversion, Last
    <2>8. CASE HandleFailure
        BY <2>1, <2>2, <2>3, <2>4, <2>8 DEF HandleFailure, SetStatus, Goto, history
    <2> QED BY <1>2, <2>5, <2>6, <2>7, <2>8, <2>9 DEF Marks
<1>3. CASE Files
    <2>1. CASE StartRun
        BY <2>1, BoundsAssumption DEF StartRun, operator, history
    <2>2. CASE WrapUp
        BY <2>2 DEF WrapUp, SetStatus, Goto, operator, history
    <2>3. CASE Restricted
        BY <2>3 DEF Restricted, EndConversion, operator, history
    <2>5. CASE HandleAmbiguous \/ HandleDoubt
        <3>1. status' = status \/ status' = [status EXCEPT ![run] = "RECOVERY_REQUIRED"]
            BY <2>5 DEF HandleAmbiguous, HandleDoubt, SetStatus
        <3> QED BY <2>5, <3>1 DEF HandleAmbiguous, HandleDoubt, Leave, operator, history
    <2>6. CASE Finish BY <2>6 DEF Finish, Leave, operator, history
    <2>4. CASE LoopClear
        BY <2>4 DEF LoopClear, Goto, operator, history
    <2> QED BY <1>3, <2>1, <2>2, <2>3, <2>4, <2>5, <2>6 DEF Files
<1>4. CASE ConsumeClear \/ Operator
    BY <1>4 DEF ConsumeClear, Operator, Pause, Resume, RequestClear, Goto, files, history, walk
<1>5. CASE Exchange
    BY <1>5 DEF Exchange, Accept, operator, walk, files, history
<1>6. CASE UNCHANGED vars BY <1>6 DEF vars, operator, walk, files, history
<1> QED BY <1>1, <1>2, <1>3, <1>4, <1>5, <1>6, Steps

LEMMA PlacedStep == Types /\ Placed /\ [Next]_vars => Placed'
<1> SUFFICES ASSUME Types, Placed, [Next]_vars PROVE Placed'
    OBVIOUS
<1> USE DEF Types, Placed, Walking, Resting, Planning, Placing, Booking, Ending
<1>1. CASE Moves
    <2>1. pc' \in Walking => pc \in Walking \ {"retire"} /\ pc' # "retire" /\ run' = run
        BY <1>1 DEF Moves, RequestFails, SkipConversion, BeginConversion, ReserveRestored, NextHolding,
                    PlanDone, BlockFails, ReadRejection, Timeout, GiveUp, FillUnusable, Book,
                    CreditSettles, CreditMissing, Restart, Crash, Step, Goto, Raise, EndConversion,
                    Settled, Leave, Waiting
    <2> QED BY <1>1, <2>1, MovesKeep DEF files
<1>2. CASE Marks
    BY <1>2 DEF Marks, Journal, Send, ReadFill, ReadRestricted, RestrictedNoted, IdentityMismatch,
            LocalFault, HandleFailure, Mark, SetStatus, Goto, Raise, EndConversion, Waiting, files
<1>3. CASE StartRun
    BY <1>3 DEF StartRun
<1>4. CASE WrapUp \/ Restricted
    BY <1>4 DEF WrapUp, Restricted, SetStatus, Goto, EndConversion
<1>5. CASE HandleAmbiguous \/ HandleDoubt \/ Finish
    BY <1>5 DEF HandleAmbiguous, HandleDoubt, Finish, SetStatus, Leave
<1>6. CASE LoopClear BY <1>6 DEF LoopClear, Goto
<1>7. CASE ConsumeClear \/ Operator \/ Exchange \/ UNCHANGED vars
    BY <1>7 DEF ConsumeClear, Operator, Pause, Resume, RequestClear, Exchange, Accept, Goto,
                files, walk, vars
<1> QED BY <1>1, <1>2, <1>3, <1>4, <1>5, <1>6, <1>7, Steps DEF Files

LEMMA Room ==
    /\ \A n \in Nat : n * MaxHops \in Nat /\ (n + 1) * MaxHops = n * MaxHops + MaxHops
    /\ \A n \in 0..MaxConversions : n * MaxHops <= MaxConversions * MaxHops
    /\ MaxOrders \in Nat /\ MaxOrders = MaxConversions * MaxHops + MaxHops
<1>1. MaxHops \in Nat /\ MaxConversions \in Nat BY BoundsAssumption
<1>2. \A n \in Nat : n * MaxHops \in Nat /\ (n + 1) * MaxHops = n * MaxHops + MaxHops
    BY <1>1
<1>3. \A n \in 0..MaxConversions : n * MaxHops <= MaxConversions * MaxHops
    BY <1>1
<1> QED BY <1>1, <1>2, <1>3 DEF MaxOrders

\* What a place of the process can still need for its conversion.
Need(p, h) == IF p = "convert" THEN MaxHops ELSE IF p = "hop" THEN h
              ELSE IF p \in Placing \cup Booking THEN h - 1 ELSE 0

LEMMA NeedNat ==
    ASSUME NEW p, NEW h \in Nat, p \in {"hop"} \cup Placing \cup Booking => h \in 1..MaxHops
    PROVE  Need(p, h) \in Nat
<1>1. MaxHops \in Nat BY BoundsAssumption
<1>2. p \in {"hop"} \cup Placing \cup Booking => h - 1 \in Nat BY <1>1
<1> QED BY <1>1, <1>2 DEF Need

LEMMA Needed ==
    ASSUME Types, Fits
    PROVE  /\ Ahead = left * MaxHops + Need(pc, hops)
           /\ left * MaxHops \in Nat /\ Need(pc, hops) \in Nat
<1>1. Ahead = left * MaxHops + Need(pc, hops) BY DEF Ahead, Need
<1>2. left * MaxHops \in Nat BY Room DEF Types
<1>3. Need(pc, hops) \in Nat BY NeedNat DEF Types, Fits
<1> QED BY <1>1, <1>2, <1>3

\* Enough for a step that begins no run, no holding and journals no order.
LEMMA FitsKept ==
    ASSUME Types, Placed, Fits, UNCHANGED <<run, count, left>>,
           pc' \in Walking => pc \in Walking, hops' \in Nat,
           pc' \in {"hop"} \cup Placing \cup Booking => hops' \in 1..MaxHops,
           pc' \in Walking => Need(pc', hops') <= Need(pc, hops)
    PROVE  Fits'
<1>1. CASE pc' \in Walking
    <2>1. run \in Runs /\ count[run] \in Nat /\ count[run] + Ahead <= MaxOrders /\ MaxOrders \in Nat
        BY <1>1, Room DEF Fits, Placed, Types
    <2>2. Ahead' = left' * MaxHops + Need(pc', hops') BY DEF Ahead, Need
    <2>3. left' * MaxHops = left * MaxHops
        OBVIOUS
    <2>4. Need(pc', hops') \in Nat BY NeedNat
    <2>5. Need(pc', hops') <= Need(pc, hops)
        BY <1>1
    <2>6. count[run] + Ahead' <= MaxOrders
        BY <2>1, <2>2, <2>3, <2>4, <2>5, Needed
    <2> QED BY <2>6 DEF Fits
<1>2. CASE pc' \notin Walking
    BY <1>2 DEF Fits, Walking, Placing, Booking, Planning
<1> QED BY <1>1, <1>2

LEMMA FitsStep == Types /\ Placed /\ Fits /\ [Next]_vars => Fits'
<1> SUFFICES ASSUME Types, Placed, Fits, [Next]_vars PROVE Fits'
    OBVIOUS
<1>1. Types' BY TypesStep
<1>2. left' \in Nat /\ hops' \in Nat /\ left \in Nat /\ hops \in Nat
    BY <1>1 DEF Types
<1>3. MaxHops \in Nat \ {0} /\ left * MaxHops \in Nat
    BY <1>2, BoundsAssumption, Room
<1> USE DEF Walking, Resting, Planning, Placing, Booking, Ending, Need
<1>4. CASE Moves
    <2>1. UNCHANGED count BY <1>4, MovesKeep DEF files
    <2>2. CASE NextHolding
        <3>1. /\ UNCHANGED run /\ pc = "next" /\ left > 0 /\ left' = left - 1
              /\ pc' \in {"convert", "next"}
            BY <2>2 DEF NextHolding
        <3>2. left * MaxHops = left' * MaxHops + MaxHops /\ left' * MaxHops \in Nat
            BY <1>2, <3>1, Room
        <3>3. run \in Runs /\ count[run] \in Nat /\ count[run] + left * MaxHops <= MaxOrders
            BY <1>2, <3>1, Needed DEF Fits, Placed, Types
        <3>4. Ahead' = left' * MaxHops + IF pc' = "convert" THEN MaxHops ELSE 0
            BY <3>1 DEF Ahead
        <3>5. count[run] + Ahead' <= MaxOrders
            BY <1>3, <3>1, <3>2, <3>3, <3>4, Room
        <3> QED BY <2>1, <3>1, <3>5 DEF Fits
    <2>3. CASE ~NextHolding /\ pc' \notin Walking
        BY <2>1, <2>3 DEF Fits
    <2>4. CASE ~NextHolding /\ pc' \in Walking
        <3>1. UNCHANGED <<run, left>> /\ pc \in Walking
            BY <1>4, <2>4 DEF Moves, RequestFails, SkipConversion, BeginConversion, ReserveRestored, NextHolding,
                            PlanDone, BlockFails, ReadRejection, Timeout, GiveUp, FillUnusable, Book,
                            CreditSettles, CreditMissing, Restart, Crash, Step, Goto, Raise, EndConversion,
                            Settled, Leave, Waiting
        <3>2. pc' \in {"hop"} \cup Placing \cup Booking => hops' \in 1..MaxHops
            BY <1>4, <2>4, BoundsAssumption
               DEF Fits, Types, Moves, RequestFails, SkipConversion, BeginConversion, ReserveRestored, NextHolding,
                   PlanDone, BlockFails, ReadRejection, Timeout, GiveUp, FillUnusable, Book,
                   CreditSettles, CreditMissing, Restart, Crash, Step, Goto, Raise, EndConversion,
                   Settled, Leave, Waiting
        <3>3. Need(pc', hops') <= Need(pc, hops)
            BY <1>4, <2>4, BoundsAssumption
               DEF Fits, Types, Moves, RequestFails, SkipConversion, BeginConversion, ReserveRestored, NextHolding,
                   PlanDone, BlockFails, ReadRejection, Timeout, GiveUp, FillUnusable, Book,
                   CreditSettles, CreditMissing, Restart, Crash, Step, Goto, Raise, EndConversion,
                   Settled, Leave, Waiting
        <3> QED BY <1>2, <2>1, <3>1, <3>2, <3>3, FitsKept
    <2> QED BY <2>2, <2>3, <2>4
<1>5. CASE Journal
    <2>1. run \in Runs /\ pc = "hop" /\ hops \in 1..MaxHops /\ count[run] \in Nat
        BY <1>5 DEF Journal, Placed, Fits, Types
    <2>2. UNCHANGED <<run, left, hops>> /\ count' = [count EXCEPT ![run] = @ + 1]
          /\ pc' \in {"send", "raise"}
        BY <1>5 DEF Journal, Goto, Raise
    <2>3. count[run] + left * MaxHops + hops <= MaxOrders /\ MaxOrders \in Nat
        BY <1>2, <1>3, <2>1, Needed, Room DEF Fits
    <2>4. Ahead' = left * MaxHops + (IF pc' = "send" THEN hops - 1 ELSE 0)
        BY <2>2 DEF Ahead
    <2>5. count'[run] = count[run] + 1 /\ \A r \in Runs : r # run => count'[r] = count[r]
        BY <2>1, <2>2 DEF Types
    <2>6. count'[run] + Ahead' <= MaxOrders /\ count'[run] <= MaxOrders
        BY <1>2, <1>3, <2>1, <2>2, <2>3, <2>4, <2>5
    <2> QED BY <2>1, <2>2, <2>5, <2>6 DEF Fits
<1>6. CASE Marks /\ ~Journal
    <2>1. UNCHANGED <<run, count, left>> /\ (pc' \in Walking => pc \in Walking)
        BY <1>6 DEF Marks, Send, ReadFill, ReadRestricted, IdentityMismatch, LocalFault,
                    HandleFailure, Goto, Raise, EndConversion, files, Waiting
    <2>2. pc' \in {"hop"} \cup Placing \cup Booking =>
              hops' = hops /\ pc \in Placing
        BY <1>6 DEF Marks, Send, ReadFill, ReadRestricted, IdentityMismatch, LocalFault,
                    HandleFailure, Goto, Raise, EndConversion, files, Waiting
    <2>3. pc' \notin {"convert", "hop"}
        BY <1>6 DEF Marks, Send, ReadFill, ReadRestricted, IdentityMismatch, LocalFault,
                    HandleFailure, Goto, Raise, EndConversion
    <2>4. Need(pc', hops') <= Need(pc, hops)
        <3>1. Need(pc, hops) \in Nat BY Needed
        <3> QED BY <1>2, <2>2, <2>3, <3>1
    <2>5. pc' \in {"hop"} \cup Placing \cup Booking => hops' \in 1..MaxHops
        BY <2>2 DEF Fits
    <2> QED BY <1>2, <2>1, <2>4, <2>5, FitsKept
<1>7. CASE StartRun
    <2>1. /\ run' \in Runs /\ place[run'] = "none" /\ left' \in 0..MaxConversions
          /\ pc' \in {"convert", "next"} /\ UNCHANGED count
        BY <1>7 DEF StartRun
    <2>2. count[run'] = 0 BY <2>1 DEF Placed
    <2>3. left' * MaxHops <= MaxConversions * MaxHops /\ left' * MaxHops \in Nat
        BY <1>2, <2>1, Room
    <2>4. MaxConversions * MaxHops \in Nat
        BY BoundsAssumption, Room
    <2>5. Ahead' <= MaxOrders /\ Ahead' \in Nat
        BY <1>3, <2>1, <2>3, <2>4, Room DEF Ahead
    <2> QED BY <2>1, <2>2, <2>5 DEF Fits
<1>8. CASE Files /\ ~StartRun
    <2>1. UNCHANGED count /\ pc' \in {"idle", "clearing", "retire", "recheck", "next"}
        BY <1>8 DEF Files, WrapUp, Restricted, HandleAmbiguous, HandleDoubt, Finish, LoopClear,
                    Goto, Leave, EndConversion
    <2>2. CASE pc' \in Walking
        <3>1. UNCHANGED <<run, left>> /\ pc \in Walking
            BY <1>8, <2>2 DEF Files, WrapUp, Restricted, HandleAmbiguous, HandleDoubt, Finish,
                              LoopClear, Goto, Leave, EndConversion
        <3>2. Need(pc', hops') = 0 BY <2>1
        <3>3. Need(pc', hops') <= Need(pc, hops) BY <3>2, Needed
        <3> QED BY <1>2, <2>1, <3>1, <3>3, FitsKept
    <2>3. CASE pc' \notin Walking BY <2>1, <2>3 DEF Fits
    <2> QED BY <2>2, <2>3
<1>9. CASE ConsumeClear BY <1>9 DEF ConsumeClear, Goto, files, Fits
<1>10. CASE Operator \/ Exchange \/ UNCHANGED vars
    <2>1. UNCHANGED <<run, count, left, pc, hops>>
        BY <1>10 DEF Operator, Pause, Resume, RequestClear, Exchange, Accept, files, walk, vars
    <2>2. Need(pc, hops) <= Need(pc, hops) BY Needed
    <2>3. pc \in {"hop"} \cup Placing \cup Booking => hops \in 1..MaxHops BY DEF Fits
    <2> QED BY <1>2, <2>1, <2>2, <2>3, FitsKept
<1> QED BY <1>4, <1>5, <1>6, <1>7, <1>8, <1>9, <1>10, Steps DEF Marks, Files

\* The steps that mark an order leave every other run as it is.
LEMMA MarksRun ==
    ASSUME Types, Placed, Marks
    PROVE  /\ run \in Runs /\ pc \in Walking /\ place' = place
           /\ \A r \in Runs : r # run => /\ orders'[r] = orders[r] /\ count'[r] = count[r]
                                         /\ ex'[r] = ex[r] /\ status'[r] = status[r]
                                         /\ failures'[r] = failures[r] /\ heard'[r] = heard[r]
<1>1. pc \in Walking
    BY DEF Marks, Journal, Send, ReadFill, ReadRestricted, IdentityMismatch, LocalFault,
           HandleFailure, Walking, Planning, Placing, Ending, Waiting
<1>2. run \in Runs BY <1>1 DEF Placed
<1> USE <1>1, <1>2 DEF Types
<1>3. CASE Journal BY <1>3 DEF Journal, Mark, history
<1>4. CASE Send BY <1>4 DEF Send, files
<1>5. CASE ReadFill \/ IdentityMismatch \/ LocalFault
    BY <1>5 DEF ReadFill, IdentityMismatch, LocalFault, Mark, history
<1>6. CASE ReadRestricted BY <1>6 DEF ReadRestricted, RestrictedNoted, Mark
<1>7. CASE HandleFailure
    <2>1. UNCHANGED orders \/ Mark(Last, "REJECTED") BY <1>7 DEF HandleFailure
    <2>2. \A r \in Runs : r # run => orders'[r] = orders[r] BY <2>1 DEF Mark
    <2> QED BY <1>7, <2>2 DEF HandleFailure, SetStatus, history
<1> QED BY <1>3, <1>4, <1>5, <1>6, <1>7 DEF Marks

\* An order called rejected was refused, and a record the service retires has none in doubt.
LEMMA TruthfulStep == RebalanceInv /\ [Next]_vars => Truthful'
<1> SUFFICES ASSUME RebalanceInv, [Next]_vars PROVE Truthful'
    OBVIOUS
<1> USE DEF RebalanceInv, Truthful
<1>1. pc \in Walking => run \in Runs /\ place[run] = "active" BY DEF Placed
<1>2. CASE Moves \/ ConsumeClear \/ Operator \/ UNCHANGED vars
    BY <1>2, MovesKeep
       DEF ConsumeClear, Operator, Pause, Resume, RequestClear, files, vars
<1>3. CASE Files
    <2>1. UNCHANGED <<orders, count, ex>>
        BY <1>3 DEF Files, StartRun, WrapUp, Restricted, HandleAmbiguous, HandleDoubt, Finish,
                    LoopClear
    <2>2. ASSUME NEW r \in Runs, NEW k \in Orders, place'[r] = "archived",
                 status'[r] # "OPERATOR_CLEARED"
          PROVE  orders[r][k] # "SUBMITTING"
        <3>1. CASE StartRun BY <2>2, <3>1 DEF StartRun, Types, Placed
        <3>2. CASE WrapUp \/ Restricted
            BY <1>1, <2>2, <3>2 DEF WrapUp, Restricted, SetStatus, Types, Walking, Planning
        <3>3. CASE HandleAmbiguous \/ HandleDoubt
            <4>1. run \in Runs /\ place[run] = "active" /\ UNCHANGED place
                BY <1>1, <3>3 DEF HandleAmbiguous, HandleDoubt, Walking, Ending
            <4>2. r # run => status'[r] = status[r]
                BY <3>3 DEF HandleAmbiguous, HandleDoubt, SetStatus, Types
            <4> QED BY <2>2, <4>1, <4>2
        <3>4. CASE Finish
            <4>1. run \in Runs /\ pc = "retire" /\ UNCHANGED status
                BY <1>1, <3>4 DEF Finish, Walking, Ending
            <4>2. r # run => place'[r] = place[r] BY <3>4 DEF Finish, Types
            <4>3. CASE r # run BY <2>2, <4>1, <4>2, <4>3
            <4>4. CASE r = run
                <5>1. Last = 0 \/ orders[run][Last] # "SUBMITTING" BY <4>1 DEF Newest
                <5>2. k > count[r] \/ k < count[r] \/ k = count[r]
                    BY DEF Types, Orders
                <5> QED BY <4>4, <5>1, <5>2 DEF Last, Orders
            <4> QED BY <4>3, <4>4
        <3>5. CASE LoopClear BY <2>2, <3>5 DEF LoopClear, Types
        <3> QED BY <1>3, <3>1, <3>2, <3>3, <3>4, <3>5 DEF Files
    <2> QED BY <2>1, <2>2
<1>4. CASE Marks
    <2>1. run \in Runs /\ place[run] = "active" /\ place' = place BY <1>4, MarksRun DEF Placed
    <2>2. \A r \in Runs : r # run => orders'[r] = orders[r] /\ count'[r] = count[r]
                                     /\ ex'[r] = ex[r] /\ status'[r] = status[r]
        BY <1>4, MarksRun
    <2>3. Last \in Nat /\ Last <= MaxOrders /\ MaxOrders \in Nat
        BY <2>1, Room DEF Types, Fits, Last
    <2>4. CASE Journal
        <3>1. /\ Last = 0 \/ orders[run][Last] # "SUBMITTING"
              /\ count'[run] = Last + 1 /\ UNCHANGED ex
            BY <2>1, <2>4 DEF Journal, Newest, Planning, Types, Last
        <3>2. \A k \in Orders : orders'[run][k] = IF k = Last + 1 THEN "SUBMITTING" ELSE orders[run][k]
            BY <2>1, <2>4 DEF Journal, Mark, Types
        <3>3. ASSUME NEW k \in Orders
              PROVE  /\ k > Last + 1 => orders'[run][k] = "none"
                     /\ k < Last + 1 => orders'[run][k] # "SUBMITTING"
                     /\ orders'[run][k] = "REJECTED" => ex[run][k] = "refused"
            <4>1. k \in Nat \ {0} BY DEF Orders
            <4>2. CASE k > Last + 1 BY <2>1, <2>3, <3>2, <4>1, <4>2 DEF Last
            <4>3. CASE k = Last + 1 BY <2>3, <3>2, <4>1, <4>3
            <4>4. CASE k < Last + 1
                <5>1. k < Last \/ k = Last BY <2>3, <4>1, <4>4
                <5> QED BY <2>1, <2>3, <3>1, <3>2, <4>1, <4>4, <5>1 DEF Last
            <4> QED BY <2>3, <4>1, <4>2, <4>3, <4>4
        <3>4. ASSUME NEW r \in Runs, NEW k \in Orders
              PROVE  /\ k > count'[r] => orders'[r][k] = "none"
                     /\ k < count'[r] => orders'[r][k] # "SUBMITTING"
                     /\ orders'[r][k] = "REJECTED" => ex'[r][k] = "refused"
                     /\ place'[r] = "archived" /\ status'[r] # "OPERATOR_CLEARED"
                            => orders'[r][k] # "SUBMITTING"
            <4>1. CASE r = run BY <2>1, <3>1, <3>3, <4>1
            <4>2. CASE r # run BY <2>1, <2>2, <4>2
            <4> QED BY <4>1, <4>2
        <3> QED BY <3>4
    <2>5. CASE Marks /\ ~Journal
        <3>1. count' = count
            BY <2>5 DEF Marks, Send, ReadFill, ReadRestricted, IdentityMismatch, LocalFault,
                        HandleFailure, files
        <3>2. Last > 0 \/ (UNCHANGED <<orders, ex>>)
            BY <2>5 DEF Marks, Send, ReadFill, ReadRestricted, IdentityMismatch, LocalFault,
                        HandleFailure, Newest, Placing, Waiting
        <3>3. \A k \in Orders : k # Last => orders'[run][k] = orders[run][k] /\ ex'[run][k] = ex[run][k]
            BY <2>1, <2>5 DEF Marks, Send, ReadFill, ReadRestricted, RestrictedNoted,
                        IdentityMismatch, LocalFault, HandleFailure, Mark, Types, files
        <3>4. Last > 0 /\ orders'[run][Last] = "REJECTED" => ex'[run][Last] = "refused"
            <4>1. CASE Send
                BY <2>1, <2>3, <4>1 DEF Send, Newest, Placing, files, Types, Orders
            <4>2. CASE ReadFill \/ IdentityMismatch \/ LocalFault
                BY <2>1, <2>3, <4>2 DEF ReadFill, IdentityMismatch, LocalFault, Mark, Types, Orders,
                        Newest, Placing, Waiting
            <4>3. CASE ReadRestricted
                BY <2>1, <2>3, <4>3 DEF ReadRestricted, RestrictedNoted, Mark, Types, Orders
            <4>4. CASE HandleFailure
                <5>1. Last > 0 /\ orders[run][Last] = "SUBMITTING" => ex[run][Last] = "refused"
                    BY <4>4 DEF HandleFailure, Doubtful, Newest
                <5>2. UNCHANGED ex BY <4>4 DEF HandleFailure
                <5>3. Last > 0 => Last \in Orders BY <2>3 DEF Orders
                <5> QED BY <2>1, <4>4, <5>1, <5>2, <5>3 DEF HandleFailure
            <4> QED BY <2>5, <4>1, <4>2, <4>3, <4>4 DEF Marks
        <3>5. ASSUME NEW r \in Runs, NEW k \in Orders
              PROVE  /\ k > count'[r] => orders'[r][k] = "none"
                     /\ k < count'[r] => orders'[r][k] # "SUBMITTING"
                     /\ orders'[r][k] = "REJECTED" => ex'[r][k] = "refused"
                     /\ place'[r] = "archived" /\ status'[r] # "OPERATOR_CLEARED"
                            => orders'[r][k] # "SUBMITTING"
            <4>1. CASE r = run /\ k = Last
                BY <2>1, <2>3, <3>1, <3>4, <4>1 DEF Orders, Last
            <4>2. CASE r = run /\ k # Last BY <2>1, <3>1, <3>3, <4>2
            <4>3. CASE r # run BY <2>1, <2>2, <4>3
            <4> QED BY <4>1, <4>2, <4>3
        <3> QED BY <3>5
    <2> QED BY <1>4, <2>4, <2>5
<1>5. CASE Exchange
    <2>1. PICK q \in Runs, l \in Orders : Accept(q, l) BY <1>5 DEF Exchange
    <2>2. ASSUME NEW r \in Runs, NEW k \in Orders, ex[r][k] = "refused" PROVE ex'[r][k] = "refused"
        BY <2>1, <2>2 DEF Accept, Types
    <2> QED BY <2>1, <2>2 DEF Accept, files
<1> QED BY <1>2, <1>3, <1>4, <1>5, Steps

\* The newest order is what the place of the process says.
LEMMA NewestStep == RebalanceInv /\ [Next]_vars => Newest'
<1> SUFFICES ASSUME RebalanceInv, [Next]_vars PROVE Newest'
    OBVIOUS
<1> USE DEF RebalanceInv
<1>1. pc \in Walking => run \in Runs BY DEF Placed
<1>2. pc \in Walking => Last \in Nat /\ (Last > 0 => Last \in Orders)
    BY <1>1, Room DEF Types, Fits, Last, Orders
<1>3. CASE Moves
    <2>1. UNCHANGED <<orders, ex, count>> BY <1>3, MovesKeep DEF files
    <2>2. CASE RequestFails \/ BlockFails \/ FillUnusable
        <3>1. pc' = "raise" /\ UNCHANGED run /\ (pc \in Planning \cup Booking \/ BlockFails)
            BY <2>2 DEF RequestFails, BlockFails, FillUnusable, Raise, Planning, Booking
        <3>2. CASE BlockFails BY <3>2 DEF BlockFails, Raise, Newest, Planning, Placing, Booking
        <3>3. CASE ~BlockFails
            BY <2>1, <2>2, <3>1, <3>3
               DEF RequestFails, FillUnusable, Raise, Newest, Last, Planning, Placing, Booking
        <3> QED BY <3>2, <3>3
    <2>3. CASE ReadRejection
        BY <2>1, <2>3 DEF ReadRejection, Raise, Newest, Last, Planning, Placing, Booking
    <2>4. CASE Timeout \/ GiveUp \/ Book \/ CreditMissing
        BY <2>1, <2>4 DEF Timeout, GiveUp, Book, CreditMissing, Step, Goto, Newest, Last, Planning,
                          Placing, Booking
    <2>5. CASE SkipConversion \/ BeginConversion \/ ReserveRestored \/ NextHolding \/ PlanDone
                  \/ CreditSettles
        <3>1. UNCHANGED run /\ pc \in Planning \cup Booking /\ pc' \in Planning
            BY <2>5 DEF SkipConversion, BeginConversion, ReserveRestored, NextHolding, PlanDone,
                        CreditSettles, Settled, EndConversion, Step, Goto, Planning, Booking
        <3> QED BY <2>1, <3>1 DEF Newest, Last, Planning, Placing, Booking
    <2>6. CASE Restart \/ Crash
        BY <2>6 DEF Restart, Crash, Step, Goto, Leave, Newest, Planning, Placing, Booking
    <2> QED BY <1>3, <2>2, <2>3, <2>4, <2>5, <2>6 DEF Moves
<1>4. CASE Journal
    <2>1. run \in Runs /\ hops \in 1..MaxHops /\ count[run] + Ahead <= MaxOrders /\ pc = "hop"
        BY <1>1, <1>4 DEF Journal, Walking, Planning, Fits
    <2>2. Last + 1 \in Orders /\ Last \in Nat
        <3>1. Ahead >= 1 /\ Ahead \in Nat BY <2>1, Room DEF Ahead, Types, Placing, Booking
        <3>2. MaxOrders \in Nat /\ count[run] \in Nat BY <2>1, Room DEF Types
        <3>3. count[run] + 1 \in 1..MaxOrders BY ONLY <2>1, <3>1, <3>2
        <3> QED BY <3>2, <3>3 DEF Last, Orders
    <2>3. count'[run] = Last + 1 /\ orders'[run][Last + 1] = "SUBMITTING" /\ run' = run
          /\ (pc' = "send" \/ (pc' = "raise" /\ exc' = "other"))
        <3>1. count'[run] = Last + 1 BY <1>4, <2>1 DEF Journal, Types, Last
        <3>2. orders'[run][Last + 1] = "SUBMITTING" BY <1>4, <2>1, <2>2 DEF Journal, Mark, Types
        <3>3. run' = run /\ (pc' = "send" \/ (pc' = "raise" /\ exc' = "other"))
            BY <1>4 DEF Journal, Goto, Raise
        <3> QED BY <3>1, <3>2, <3>3
    <2>4. (Last)' = Last + 1 BY <2>3 DEF Last
    <2> QED BY <2>2, <2>3, <2>4 DEF Newest, Planning, Placing, Booking
<1>5. CASE Send
    BY <1>5 DEF Send, Goto, files, Newest, Last, Planning, Placing, Booking
<1>6. CASE ReadFill \/ IdentityMismatch \/ LocalFault
    <2>1. run \in Runs /\ Last > 0 /\ Last \in Orders /\ orders[run][Last] = "SUBMITTING"
        BY <1>1, <1>2, <1>6 DEF ReadFill, IdentityMismatch, LocalFault, Waiting, Newest, Placing, Walking
    <2>2. UNCHANGED <<count, run, ex>>
        BY <1>6 DEF ReadFill, IdentityMismatch, LocalFault, Goto, Raise
    <2>3. Mark(Last, "CLOSED") => orders'[run][Last] = "CLOSED" BY <2>1 DEF Mark, Types
    <2> QED BY <1>6, <2>1, <2>2, <2>3
            DEF ReadFill, IdentityMismatch, LocalFault, Goto, Raise, Newest, Last, Planning,
                Placing, Booking
<1>7. CASE ReadRestricted
    <2>1. run \in Runs /\ Last > 0 /\ Last \in Orders
        BY <1>1, <1>2, <1>7 DEF ReadRestricted, Newest, Placing, Walking
    <2>2. UNCHANGED <<count, run>> /\ orders'[run][Last] = "REJECTED"
          /\ pc' \in {"recheck", "next", "raise"}
        BY <1>7, <2>1 DEF ReadRestricted, RestrictedNoted, Mark, EndConversion, Raise, Types
    <2> QED BY <2>1, <2>2 DEF Newest, Last, Planning, Placing, Booking
<1>8. CASE HandleFailure
    <2>1. run \in Runs /\ Last \in Nat /\ (Last > 0 => Last \in Orders)
        BY <1>1, <1>2, <1>8 DEF HandleFailure, Ending, Walking
    <2>2. UNCHANGED <<count, run>> /\ pc' = "retire" BY <1>8 DEF HandleFailure, Goto
    <2>3. Last = 0 \/ orders'[run][Last] # "SUBMITTING"
        BY <1>8, <2>1 DEF HandleFailure, Mark, Types
    <2> QED BY <2>1, <2>2, <2>3 DEF Newest, Last, Planning, Placing, Booking
<1>9. CASE StartRun
    <2>1. run' \in Runs /\ count'[run'] = 0 /\ pc' \in {"convert", "next"}
        BY <1>9 DEF StartRun, Placed
    <2> QED BY <2>1 DEF Newest, Last, Planning, Placing, Booking
<1>10. CASE WrapUp \/ Restricted
    BY <1>10 DEF WrapUp, Restricted, Goto, EndConversion, Newest, Last, Planning, Placing, Booking
<1>11. CASE HandleAmbiguous \/ HandleDoubt \/ Finish \/ LoopClear \/ ConsumeClear
    BY <1>11 DEF HandleAmbiguous, HandleDoubt, Finish, LoopClear, ConsumeClear, Leave, Goto,
                 Newest, Planning, Placing, Booking
<1>12. CASE Operator \/ UNCHANGED vars
    BY <1>12 DEF Operator, Pause, Resume, RequestClear, walk, files, vars, Newest, Last
<1>13. CASE Exchange
    <2>1. PICK q \in Runs, l \in Orders : Accept(q, l) BY <1>13 DEF Exchange
    <2>2. ASSUME NEW r \in Runs, NEW k \in Orders, ex[r][k] = "refused" PROVE ex'[r][k] = "refused"
        BY <2>1, <2>2 DEF Accept, Types
    <2>3. UNCHANGED <<pc, run, exc, orders, count>> BY <2>1 DEF Accept, walk, files
    <2>4. pc = "raise" => run \in Runs /\ (Last > 0 => Last \in Orders)
        BY <1>1, <1>2 DEF Walking, Ending
    <2> QED BY <2>2, <2>3, <2>4 DEF Newest, Last
<1> QED BY <1>3, <1>4, <1>5, <1>6, <1>7, <1>8, <1>9, <1>10, <1>11, <1>12, <1>13, Steps
        DEF Marks, Files

\* Refusals are noted, and a complete run has none.
LEMMA NotedStep == RebalanceInv /\ [Next]_vars => Noted'
<1> SUFFICES ASSUME RebalanceInv, [Next]_vars PROVE Noted'
    OBVIOUS
<1> USE DEF RebalanceInv
<1>1. CASE Moves \/ ConsumeClear \/ Operator \/ Exchange \/ UNCHANGED vars
    BY <1>1, MovesKeep
       DEF ConsumeClear, Operator, Pause, Resume, RequestClear, Exchange, Accept, files, vars, Noted
<1>2. CASE Marks
    <2>1. run \in Runs /\ status[run] = "INTENT"
        BY <1>2, MarksRun DEF Placed, Marks, Journal, Send, ReadFill, ReadRestricted,
            IdentityMismatch, LocalFault, HandleFailure, Walking, Waiting
    <2>2. status'[run] # "COMPLETE"
        BY <1>2, <2>1 DEF Marks, Journal, Send, ReadFill, ReadRestricted, IdentityMismatch,
            LocalFault, HandleFailure, SetStatus, files, Types
    <2>3. \/ status'[run] # "INTENT"
          \/ failures'[run]
          \/ failures'[run] = failures[run] /\ status'[run] = status[run]
                /\ \A k \in Orders : orders'[run][k] = "REJECTED" => orders[run][k] = "REJECTED"
        <3>1. CASE Journal BY <2>1, <3>1 DEF Journal, Mark, Types
        <3>2. CASE Send BY <3>2 DEF Send, files
        <3>3. CASE ReadFill \/ IdentityMismatch \/ LocalFault
            BY <2>1, <3>3 DEF ReadFill, IdentityMismatch, LocalFault, Mark, Types
        <3>4. CASE ReadRestricted BY <2>1, <3>4 DEF ReadRestricted, RestrictedNoted, Types
        <3>5. CASE HandleFailure BY <2>1, <3>5 DEF HandleFailure, SetStatus, Types
        <3> QED BY <1>2, <3>1, <3>2, <3>3, <3>4, <3>5 DEF Marks
    <2>4. ASSUME NEW r \in Runs, NEW k \in Orders
          PROVE  /\ orders'[r][k] = "REJECTED" => failures'[r] \/ status'[r] # "INTENT"
                 /\ status'[r] = "COMPLETE" => orders'[r][k] \in {"none", "CLOSED"}
        <3>1. CASE r = run BY <2>1, <2>2, <2>3, <3>1 DEF Noted
        <3>2. CASE r # run BY <1>2, <3>2, MarksRun DEF Noted
        <3> QED BY <3>1, <3>2
    <2> QED BY <2>4 DEF Noted
<1>3. CASE WrapUp
    <2>1. run \in Runs /\ status[run] = "INTENT" /\ UNCHANGED <<orders, failures>>
          /\ (Last = 0 \/ orders[run][Last] # "SUBMITTING")
        BY <1>3 DEF WrapUp, Placed, Walking, Planning, Ending, Newest
    <2>2. \A r \in Runs : r # run => status'[r] = status[r] BY <1>3 DEF WrapUp, SetStatus, Types
    <2>3. status'[run] = "PARTIAL" \/ (status'[run] = "COMPLETE" /\ ~failures[run])
        <3>1. \/ status' = [status EXCEPT ![run] = "PARTIAL"]
              \/ ~failures[run] /\ status' = [status EXCEPT ![run] = "COMPLETE"]
            BY <1>3 DEF WrapUp, SetStatus
        <3>2. \A s : status' = [status EXCEPT ![run] = s] => status'[run] = s
            BY <2>1 DEF Types
        <3> QED BY <3>1, <3>2
    <2>4. ASSUME NEW k \in Orders, ~failures[run] PROVE orders[run][k] \in {"none", "CLOSED"}
        <3>1. orders[run][k] # "REJECTED" BY <2>1, <2>4 DEF Noted
        <3>2. k > count[run] \/ k < count[run] \/ k = count[run] BY <2>1 DEF Types, Orders
        <3>3. orders[run][k] # "SUBMITTING" BY <2>1, <3>2 DEF Truthful, Last, Orders
        <3> QED BY <2>1, <3>1, <3>3 DEF Types
    <2>5. ASSUME NEW r \in Runs, NEW k \in Orders
          PROVE  /\ orders'[r][k] = "REJECTED" => failures'[r] \/ status'[r] # "INTENT"
                 /\ status'[r] = "COMPLETE" => orders'[r][k] \in {"none", "CLOSED"}
        <3>1. CASE r = run BY <2>1, <2>3, <2>4, <3>1
        <3>2. CASE r # run BY <2>1, <2>2, <3>2 DEF Noted
        <3> QED BY <3>1, <3>2
    <2> QED BY <2>5 DEF Noted
<1>4. CASE StartRun
    <2>1. UNCHANGED <<orders, failures>> /\ \A r \in Runs : status'[r] = status[r]
                 \/ (status'[r] = "INTENT" /\ count[r] = 0)
        <3>1. PICK q \in Runs : place[q] = "none" /\ status' = [status EXCEPT ![q] = "INTENT"]
            BY <1>4 DEF StartRun
        <3>2. count[q] = 0 BY <3>1 DEF Placed
        <3> QED BY <1>4, <3>1, <3>2 DEF StartRun, Types
    <2>2. \A r \in Runs, k \in Orders : count[r] = 0 => orders[r][k] = "none"
        BY DEF Truthful, Orders
    <2> QED BY <2>1, <2>2 DEF Noted
<1>5. CASE Restricted BY <1>5 DEF Restricted, Noted, Types
<1>6. CASE HandleAmbiguous \/ HandleDoubt \/ Finish \/ LoopClear
    <2>1. UNCHANGED <<orders, failures>> /\ \A r \in Runs : status'[r] = status[r]
                 \/ status'[r] \in {"RECOVERY_REQUIRED", "OPERATOR_CLEARED"}
        BY <1>6 DEF HandleAmbiguous, HandleDoubt, Finish, LoopClear, SetStatus, Types
    <2> QED BY <2>1 DEF Noted
<1> QED BY <1>1, <1>2, <1>3, <1>4, <1>5, <1>6, Steps DEF Files

\* A refusal that was noted is of an order before any later doubt.
LEMMA HeardStep == RebalanceInv /\ [Next]_vars => Heard'
<1> SUFFICES ASSUME RebalanceInv, [Next]_vars PROVE Heard'
    OBVIOUS
<1> USE DEF RebalanceInv
<1>1. pc \in Walking => run \in Runs /\ Last \in Nat /\ (Last > 0 => Last \in Orders)
    BY Room DEF Placed, Types, Fits, Last, Orders
<1>2. CASE Moves \/ ConsumeClear \/ Operator \/ Exchange \/ UNCHANGED vars
    BY <1>2, MovesKeep
       DEF ConsumeClear, Operator, Pause, Resume, RequestClear, Exchange, Accept, files, history,
           vars, Heard
<1>3. CASE Marks
    <2>1. run \in Runs /\ Last \in Nat /\ (Last > 0 => Last \in Orders) /\ status[run] = "INTENT"
        BY <1>1, <1>3, MarksRun DEF Placed, Marks, Journal, Send, ReadFill, ReadRestricted,
            IdentityMismatch, LocalFault, HandleFailure, Walking, Waiting
    <2>2. status'[run] # "RECOVERY_REQUIRED"
        BY <1>3, <2>1 DEF Marks, Journal, Send, ReadFill, ReadRestricted, IdentityMismatch,
            LocalFault, HandleFailure, SetStatus, files, Types
    <2>3. heard[run] \in Nat /\ heard[run] <= Last /\ (heard[run] = Last =>
              Last = 0 \/ orders[run][Last] = "REJECTED")
        BY <2>1 DEF Heard, Types, Last
    <2>4. /\ heard'[run] <= count'[run]
          /\ heard'[run] = count'[run] => count'[run] = 0 \/ orders'[run][count'[run]] = "REJECTED"
        <3>1. CASE Journal
            <4>1. count'[run] = Last + 1 /\ heard'[run] = heard[run]
                BY <2>1, <3>1 DEF Journal, history, Types, Last
            <4> QED BY <2>1, <2>3, <4>1
        <3>2. CASE Send BY <2>3, <3>2 DEF Send, files, Last
        <3>3. CASE ReadFill \/ IdentityMismatch \/ LocalFault
            <4>1. Last > 0 /\ orders[run][Last] = "SUBMITTING"
                BY <3>3 DEF ReadFill, IdentityMismatch, LocalFault, Waiting, Newest, Placing
            <4>2. UNCHANGED <<count, heard>>
                BY <3>3 DEF ReadFill, IdentityMismatch, LocalFault, history
            <4> QED BY <2>1, <2>3, <4>1, <4>2 DEF Last
        <3>4. CASE ReadRestricted
            <4>1. Last > 0 /\ UNCHANGED count /\ heard'[run] = Last
                BY <2>1, <3>4 DEF ReadRestricted, Newest, Placing, Types
            <4>2. orders'[run][Last] = "REJECTED"
                BY <2>1, <3>4, <4>1 DEF ReadRestricted, RestrictedNoted, Mark, Types
            <4> QED BY <2>1, <4>1, <4>2 DEF Last
        <3>5. CASE HandleFailure
            <4>1. UNCHANGED <<count, heard>> BY <3>5 DEF HandleFailure, history
            <4>2. Last > 0 /\ orders[run][Last] = "REJECTED" => orders'[run][Last] = "REJECTED"
                BY <2>1, <3>5 DEF HandleFailure, Mark, Types
            <4> QED BY <2>1, <2>3, <4>1, <4>2 DEF Last
        <3> QED BY <1>3, <3>1, <3>2, <3>3, <3>4, <3>5 DEF Marks
    <2>5. ASSUME NEW r \in Runs
          PROVE  /\ heard'[r] <= count'[r]
                 /\ heard'[r] = count'[r] => count'[r] = 0 \/ orders'[r][count'[r]] = "REJECTED"
                 /\ status'[r] = "RECOVERY_REQUIRED" => count'[r] > 0 /\ heard'[r] < count'[r]
        <3>1. CASE r = run BY <2>2, <2>4, <3>1
        <3>2. CASE r # run BY <1>3, <3>2, MarksRun DEF Heard
        <3> QED BY <3>1, <3>2
    <2> QED BY <2>5 DEF Heard
<1>4. CASE StartRun \/ WrapUp \/ Restricted \/ Finish \/ LoopClear
    <2>1. UNCHANGED <<orders, count, heard>>
        BY <1>4 DEF StartRun, WrapUp, Restricted, Finish, LoopClear, history
    <2>2. \A r \in Runs : status'[r] = "RECOVERY_REQUIRED" => status[r] = "RECOVERY_REQUIRED"
        <3>1. CASE StartRun BY <3>1 DEF StartRun, Types
        <3>2. CASE WrapUp BY <3>2 DEF WrapUp, SetStatus, Types
        <3>3. CASE Restricted \/ Finish BY <3>3 DEF Restricted, Finish
        <3>4. CASE LoopClear BY <3>4 DEF LoopClear, Types
        <3> QED BY <1>4, <3>1, <3>2, <3>3, <3>4
    <2> QED BY <2>1, <2>2 DEF Heard
<1>5. CASE HandleAmbiguous \/ HandleDoubt
    <2>1. pc \in {"ambiguous", "raise"} /\ run \in Runs /\ Last \in Nat
          /\ (Last > 0 => Last \in Orders)
        BY <1>1, <1>5 DEF HandleAmbiguous, HandleDoubt, Walking, Ending
    <2>2. Last > 0 /\ orders[run][Last] # "REJECTED"
        BY <1>5, <2>1 DEF HandleAmbiguous, HandleDoubt, Doubtful, Newest
    <2>3. heard[run] < count[run] /\ count[run] > 0
        <3>1. heard[run] \in Nat /\ count[run] \in Nat BY <2>1 DEF Types
        <3>2. heard[run] <= count[run] /\ heard[run] # count[run] /\ count[run] > 0
            BY <2>1, <2>2 DEF Heard, Last
        <3> QED BY <3>1, <3>2
    <2>4. UNCHANGED <<orders, count, heard>>
        BY <1>5 DEF HandleAmbiguous, HandleDoubt, history
    <2>5. \A r \in Runs : r # run => status'[r] = status[r]
        BY <1>5 DEF HandleAmbiguous, HandleDoubt, SetStatus, Types
    <2> QED BY <2>3, <2>4, <2>5 DEF Heard
<1> QED BY <1>2, <1>3, <1>4, <1>5, Steps DEF Files

\* Once an order left late nothing is journaled, so that none is about to be sent.
LEMMA LateStep == Types /\ Late /\ [Next]_vars => Late'
<1> SUFFICES ASSUME Types, Late, [Next]_vars PROVE Late'
    OBVIOUS
<1> USE DEF Late, Types
<1>1. CASE Moves
    <2>1. pc' # "send"
        BY <1>1 DEF Moves, RequestFails, SkipConversion, BeginConversion, ReserveRestored, NextHolding,
                    PlanDone, BlockFails, ReadRejection, Timeout, GiveUp, FillUnusable, Book,
                    CreditSettles, CreditMissing, Restart, Crash, Step, Goto, Raise, EndConversion,
                    Settled, Leave, Waiting
    <2> QED BY <1>1, <2>1, MovesKeep DEF operator, history
<1>2. CASE Marks
    BY <1>2 DEF Marks, Journal, Allowed, Send, ReadFill, ReadRestricted, IdentityMismatch,
                LocalFault, HandleFailure, Goto, Raise, EndConversion, operator, history
<1>3. CASE Files
    BY <1>3 DEF Files, StartRun, WrapUp, Restricted, HandleAmbiguous, HandleDoubt, Finish,
                LoopClear, Goto, Leave, EndConversion, operator, history
<1>4. CASE ConsumeClear \/ Operator \/ Exchange \/ UNCHANGED vars
    BY <1>4 DEF ConsumeClear, Operator, Pause, Resume, RequestClear, Exchange, Accept, Goto,
                operator, walk, history, vars
<1> QED BY <1>1, <1>2, <1>3, <1>4, Steps

-----------------------------------------------------------------------------
\* The inductive invariant of maintenance.
THEOREM RebalanceHolds == Spec => []RebalanceInv
<1>1. RebalanceInv /\ [Next]_vars => RebalanceInv'
    BY TypesStep, PlacedStep, FitsStep, TruthfulStep, NewestStep, NotedStep, HeardStep, LateStep
       DEF RebalanceInv
<1> QED BY RebalanceInit, <1>1, PTL DEF Spec

\* A record says of its orders what became of them, and one the service retires has none
\* in doubt (rebalance.py, run's failure handling), for all constants.
THEOREM RecordsAreTruthful == Spec => []RecordTruthful
<1>1. RebalanceInv => RecordTruthful BY DEF RebalanceInv, Truthful, RecordTruthful
<1> QED BY RebalanceHolds, <1>1, PTL

\* Once a permission rejection was skipped, only a later order can put the record in
\* doubt, for all constants.
THEOREM SkipsAreSettled == Spec => []SkipDoesNotStop
<1>1. RebalanceInv => SkipDoesNotStop BY DEF RebalanceInv, Heard, SkipDoesNotStop
<1> QED BY RebalanceHolds, <1>1, PTL

\* No order of a complete run was refused, for all constants.
THEOREM CompleteIsDone == Spec => []CompleteMeansDone
<1>1. RebalanceInv => CompleteMeansDone BY DEF RebalanceInv, Noted, CompleteMeansDone
<1> QED BY RebalanceHolds, <1>1, PTL

\* At most one order leaves after a pause, for all constants.
THEOREM PausesAreRespected == Spec => []PauseRespected
<1>1. RebalanceInv => PauseRespected BY DEF RebalanceInv, Late, PauseRespected
<1> QED BY RebalanceHolds, <1>1, PTL

-----------------------------------------------------------------------------
(* Maintenance implements the order journal: every step it takes is a step   *)
(* of OrderJournal under the mapping of Rebalance, or changes nothing there. *)

\* An order the exchange knows is in a record; one that is closed was filled; one about to
\* be sent is unknown to it.  One record is active, and none that was set aside.
Sent ==
    /\ \A r \in Runs, k \in Orders :
           /\ ex[r][k] # "none" => orders[r][k] # "none"
           /\ orders[r][k] = "CLOSED" => ex[r][k] = "done"
    /\ pc = "send" => ex[run][Last] = "none"
    /\ \A r \in Runs : place[r] = "active" =>
           status[r] # "OPERATOR_CLEARED" /\ \A q \in Runs : place[q] = "active" => q = r

LEMMA SentInit == Init => Sent
BY DEF Init, Sent, Runs

\* What a step that marks orders may do to one: record it, send it, or settle what the
\* exchange decided.
LEMMA MarkSteps ==
    ASSUME RebalanceInv, Sent, Marks
    PROVE  \/ UNCHANGED <<orders, ex>> /\ pc \notin {"hop", "send"}
           \/ \E d \in Runs, n \in Orders :
                 /\ d = run
                 /\ \/ /\ pc = "hop" /\ n = Last + 1 /\ orders[d][n] = "none" /\ UNCHANGED ex
                       /\ orders' = [orders EXCEPT ![d][n] = "SUBMITTING"]
                    \/ /\ pc = "send" /\ n = Last /\ orders[d][n] = "SUBMITTING"
                       /\ ex[d][n] = "none" /\ UNCHANGED orders
                       /\ ex' = [ex EXCEPT ![d][n] = "wire"]
                    \/ /\ pc \notin {"hop", "send"} /\ n = Last /\ orders[d][n] = "SUBMITTING"
                       /\ ex[d][n] = "done" /\ UNCHANGED ex
                       /\ orders' = [orders EXCEPT ![d][n] = "CLOSED"]
                    \/ /\ pc \notin {"hop", "send"} /\ n = Last /\ orders[d][n] = "SUBMITTING"
                       /\ ex[d][n] = "refused" /\ UNCHANGED ex
                       /\ orders' = [orders EXCEPT ![d][n] = "REJECTED"]
<1>1. run \in Runs BY MarksRun DEF RebalanceInv
<1>2. Last \in Nat /\ MaxOrders \in Nat /\ Last <= MaxOrders /\ (Last > 0 => Last \in Orders)
    BY <1>1, Room DEF RebalanceInv, Types, Fits, Last, Orders
<1>3. CASE Journal
    <2>1. hops \in 1..MaxHops /\ count[run] + Ahead <= MaxOrders /\ pc = "hop"
        BY <1>3 DEF Journal, RebalanceInv, Fits, Walking, Planning
    <2>2. Ahead >= 1 /\ Ahead \in Nat
        BY <2>1, Room DEF Ahead, RebalanceInv, Types, Placing, Booking
    <2>3. Last + 1 \in Orders
        <3>1. Last + 1 \in 1..MaxOrders BY ONLY <1>2, <2>1, <2>2 DEF Last
        <3> QED BY <3>1 DEF Orders
    <2>4. orders[run][Last + 1] = "none"
        <3>1. Last + 1 > count[run] BY <1>2 DEF Last
        <3> QED BY <1>1, <2>3, <3>1 DEF RebalanceInv, Truthful
    <2> QED BY <1>1, <1>3, <2>1, <2>3, <2>4 DEF Journal, Mark
<1>4. CASE Send
    BY <1>1, <1>2, <1>4 DEF Send, RebalanceInv, Newest, Placing, files, Sent
<1>5. CASE ReadFill \/ IdentityMismatch \/ LocalFault
    BY <1>1, <1>2, <1>5
       DEF ReadFill, IdentityMismatch, LocalFault, Mark, Waiting, RebalanceInv, Newest, Placing
<1>6. CASE ReadRestricted
    BY <1>1, <1>2, <1>6 DEF ReadRestricted, RestrictedNoted, Mark, RebalanceInv, Newest, Placing
<1>7. CASE HandleFailure
    <2>1. UNCHANGED ex /\ pc = "raise" BY <1>7 DEF HandleFailure
    <2>2. CASE Last > 0 /\ orders[run][Last] = "SUBMITTING"
        <3>1. ex[run][Last] = "refused"
            BY <1>7, <2>2 DEF HandleFailure, Doubtful, RebalanceInv, Newest
        <3> QED BY <1>1, <1>2, <1>7, <2>1, <2>2, <3>1 DEF HandleFailure, Mark
    <2>3. CASE ~(Last > 0 /\ orders[run][Last] = "SUBMITTING")
        BY <1>1, <1>7, <2>1, <2>3 DEF HandleFailure
    <2> QED BY <2>2, <2>3
<1> QED BY <1>3, <1>4, <1>5, <1>6, <1>7 DEF Marks

LEMMA SentStep == RebalanceInv /\ Sent /\ [Next]_vars => Sent'
<1> SUFFICES ASSUME RebalanceInv, Sent, [Next]_vars PROVE Sent'
    OBVIOUS
<1>1. CASE Moves
    <2>1. pc' # "send"
        BY <1>1 DEF Moves, RequestFails, SkipConversion, BeginConversion, ReserveRestored,
            NextHolding, PlanDone, BlockFails, ReadRejection, Timeout, GiveUp, FillUnusable,
            Book, CreditSettles, CreditMissing, Restart, Crash, Step, Goto, Raise,
            EndConversion, Settled, Leave, Waiting
    <2> QED BY <1>1, <2>1, MovesKeep DEF Sent, files
<1>2. CASE Marks
    <2>1. run \in Runs /\ UNCHANGED place
        BY <1>2, MarksRun DEF RebalanceInv
    <2>2. \A r \in Runs, k \in Orders :
              /\ ex'[r][k] # "none" => orders'[r][k] # "none"
              /\ orders'[r][k] = "CLOSED" => ex'[r][k] = "done"
        <3>1. CASE UNCHANGED <<orders, ex>> BY <3>1 DEF Sent
        <3>2. CASE ~UNCHANGED <<orders, ex>>
            <4> USE DEF RebalanceInv, Types, Sent
            <4>1. PICK d \in Runs, n \in Orders :
                      \/ /\ orders[d][n] = "none" /\ UNCHANGED ex
                         /\ orders' = [orders EXCEPT ![d][n] = "SUBMITTING"]
                      \/ /\ orders[d][n] = "SUBMITTING" /\ UNCHANGED orders
                         /\ ex' = [ex EXCEPT ![d][n] = "wire"]
                      \/ /\ ex[d][n] = "done" /\ UNCHANGED ex
                         /\ orders' = [orders EXCEPT ![d][n] = "CLOSED"]
                      \/ UNCHANGED ex /\ orders' = [orders EXCEPT ![d][n] = "REJECTED"]
                BY <1>2, <3>2, MarkSteps
            <4>2. ASSUME NEW r \in Runs, NEW k \in Orders, r = d /\ k = n
                  PROVE  /\ ex'[r][k] # "none" => orders'[r][k] # "none"
                         /\ orders'[r][k] = "CLOSED" => ex'[r][k] = "done"
                BY <4>1, <4>2
            <4>3. ASSUME NEW r \in Runs, NEW k \in Orders, ~(r = d /\ k = n)
                  PROVE  ex'[r][k] = ex[r][k] /\ orders'[r][k] = orders[r][k]
                BY <4>1, <4>3
            <4> QED BY <4>2, <4>3
        <3> QED BY <3>1, <3>2
    <2>3. pc' = "send" => ex'[run'][(Last)'] = "none"
        <3>1. CASE Journal
            <4>1. ex[run][Last + 1] = "none"
                <5>1. PICK n \in Orders : n = Last + 1 /\ orders[run][n] = "none"
                    BY <1>2, <3>1, MarkSteps DEF Journal
                <5> QED BY <2>1, <5>1 DEF Sent
            <4>2. count'[run] = Last + 1 /\ UNCHANGED ex
                BY <2>1, <3>1 DEF Journal, RebalanceInv, Types, Last
            <4>3. pc' = "send" => run' = run BY <3>1 DEF Journal, Goto, Raise
            <4> QED BY <4>1, <4>2, <4>3 DEF Last
        <3>2. CASE ~Journal
            BY <1>2, <3>2 DEF Marks, Send, ReadFill, ReadRestricted, IdentityMismatch, LocalFault,
                HandleFailure, Goto, Raise, EndConversion
        <3> QED BY <3>1, <3>2
    <2>4. \A r \in Runs : status'[r] = "OPERATOR_CLEARED" => status[r] = "OPERATOR_CLEARED"
        BY <1>2, <2>1 DEF Marks, Journal, Send, ReadFill, ReadRestricted, IdentityMismatch,
            LocalFault, HandleFailure, SetStatus, files, RebalanceInv, Types
    <2> QED BY <2>1, <2>2, <2>3, <2>4 DEF Sent
<1>3. CASE StartRun
    <2>1. PICK r \in Runs : /\ place[r] = "none"
                            /\ place' = [place EXCEPT ![r] = "active"]
                            /\ status' = [status EXCEPT ![r] = "INTENT"]
        BY <1>3 DEF StartRun
    <2>2. \A q \in Runs : place[q] # "active" BY <1>3 DEF StartRun, Gate
    <2>3. UNCHANGED <<orders, ex>> /\ pc' # "send" BY <1>3 DEF StartRun
    <2> QED BY <2>1, <2>2, <2>3 DEF Sent, RebalanceInv, Types
<1>4. CASE Files /\ ~StartRun
    <2>1. UNCHANGED <<orders, ex>> /\ pc' # "send"
        BY <1>4 DEF Files, WrapUp, Restricted, HandleAmbiguous, HandleDoubt, Finish, LoopClear,
                    Goto, Leave, EndConversion
    <2>2. \A r \in Runs : place'[r] = "active" =>
              place[r] = "active" /\ (status[r] # "OPERATOR_CLEARED" => status'[r] # "OPERATOR_CLEARED")
        <3> USE DEF RebalanceInv, Types
        <3>1. CASE WrapUp BY <3>1 DEF WrapUp, SetStatus
        <3>2. CASE Restricted BY <3>2 DEF Restricted
        <3>3. CASE HandleAmbiguous \/ HandleDoubt
            BY <3>3 DEF HandleAmbiguous, HandleDoubt, SetStatus
        <3>4. CASE Finish BY <3>4 DEF Finish
        <3>5. CASE LoopClear BY <3>5 DEF LoopClear
        <3> QED BY <1>4, <3>1, <3>2, <3>3, <3>4, <3>5 DEF Files
    <2> QED BY <2>1, <2>2 DEF Sent
<1>5. CASE ConsumeClear \/ Operator \/ UNCHANGED vars
    BY <1>5 DEF ConsumeClear, Operator, Pause, Resume, RequestClear, Goto, files, walk, vars,
                Sent, Last
<1>6. CASE Exchange
    <2>1. PICK q \in Runs, l \in Orders : Accept(q, l) BY <1>6 DEF Exchange
    <2>2. PICK s \in {"done", "refused", "lost"} : ex' = [ex EXCEPT ![q][l] = s]
        BY <2>1 DEF Accept
    <2>3. UNCHANGED <<pc, run, count, orders, place, status>> /\ ex[q][l] = "wire"
        BY <2>1 DEF Accept, walk, files
    <2>4. \A r \in Runs, k \in Orders :
              /\ ex'[r][k] # "none" => orders[r][k] # "none"
              /\ orders[r][k] = "CLOSED" => ex'[r][k] = "done"
        BY <2>2, <2>3 DEF Sent, RebalanceInv, Types
    <2>5. pc = "send" => ex'[run][Last] = "none"
        <3>1. pc = "send" => run \in Runs /\ Last \in Orders
            BY Room DEF RebalanceInv, Placed, Walking, Placing, Newest, Types, Fits, Last, Orders
        <3> QED BY <2>2, <2>3, <3>1 DEF Sent, RebalanceInv, Types
    <2> QED BY <2>3, <2>4, <2>5 DEF Sent, Last
<1> QED BY <1>1, <1>2, <1>3, <1>4, <1>5, <1>6, Steps

-----------------------------------------------------------------------------
(* The mapped variables change where the entry of one run or order does.    *)
Books  == [r \in Runs |-> BookOf(r)]
Phases == [r \in Runs |-> [k \in Orders |-> PhaseOf(r, k)]]

LEMMA BookBecomes ==
    ASSUME NEW d \in Runs, NEW s, \A r \in Runs : BookOf(r)' = IF r = d THEN s ELSE BookOf(r)
    PROVE  Books' = [Books EXCEPT ![d] = s]
BY DEF Books

LEMMA PhaseBecomes ==
    ASSUME NEW d \in Runs, NEW l \in Orders, NEW s,
           \A r \in Runs, k \in Orders :
               PhaseOf(r, k)' = IF r = d /\ k = l THEN s ELSE PhaseOf(r, k)
    PROVE  Phases' = [Phases EXCEPT ![d][l] = s]
BY DEF Phases

LEMMA SameBooks == (\A r \in Runs : BookOf(r)' = BookOf(r)) => UNCHANGED Books
BY DEF Books

LEMMA SamePhases == UNCHANGED <<orders, ex>> => UNCHANGED Phases
BY DEF Phases, PhaseOf

\* An order the exchange has but has not decided is in doubt.
LEMMA LiveIsDoubtful ==
    ASSUME RebalanceInv, Sent, NEW r \in Runs, NEW k \in Orders, Phases[r][k] = "live"
    PROVE  ex[r][k] = "wire" /\ orders[r][k] = "SUBMITTING"
BY DEF Phases, PhaseOf, RebalanceInv, Types, Truthful, Sent

LEMMA JournalInit == Init => J!Init
BY DEF Init, J!Init, BookOf, PhaseOf

LEMMA MarksRefine ==
    ASSUME RebalanceInv, Sent, Marks PROVE J!Next \/ UNCHANGED <<Books, Phases>>
<1>1. run \in Runs /\ place[run] = "active" /\ UNCHANGED place
    BY MarksRun DEF RebalanceInv, Placed
<1>2. \A r \in Runs : BookOf(r)' = BookOf(r)
    BY <1>1, MarksRun DEF BookOf, RebalanceInv
<1>3. UNCHANGED Books BY <1>2, SameBooks
<1> USE DEF RebalanceInv, Types
<1>4. CASE UNCHANGED <<orders, ex>> BY <1>3, <1>4, SamePhases
<1>5. CASE ~UNCHANGED <<orders, ex>>
    <2>1. PICK d \in Runs, n \in Orders :
              /\ d = run
              /\ \/ /\ orders[d][n] = "none" /\ UNCHANGED ex
                    /\ orders' = [orders EXCEPT ![d][n] = "SUBMITTING"]
                 \/ /\ n = Last /\ orders[d][n] = "SUBMITTING"
                    /\ ex[d][n] = "none" /\ UNCHANGED orders
                    /\ ex' = [ex EXCEPT ![d][n] = "wire"]
                 \/ /\ orders[d][n] = "SUBMITTING" /\ ex[d][n] \in {"done", "refused"}
                    /\ UNCHANGED ex
                    /\ \E s \in {"CLOSED", "REJECTED"} : orders' = [orders EXCEPT ![d][n] = s]
        BY <1>2, <1>5, MarkSteps
    <2>2. Books[d] = "active" BY <1>1, <2>1 DEF Books, BookOf
    <2>3. CASE /\ orders[d][n] = "none" /\ UNCHANGED ex
               /\ orders' = [orders EXCEPT ![d][n] = "SUBMITTING"]
        <3>1. ex[d][n] = "none" BY <2>3 DEF Sent
        <3>2. \A r \in Runs, k \in Orders :
                  PhaseOf(r, k)' = IF r = d /\ k = n THEN "intended" ELSE PhaseOf(r, k)
            BY <2>3, <3>1 DEF PhaseOf
        <3>3. Phases' = [Phases EXCEPT ![d][n] = "intended"] BY <3>2, PhaseBecomes
        <3>4. Phases[d][n] = "absent" BY <2>3 DEF Phases, PhaseOf
        <3>5. J!Intend(d, n)
            BY <1>3, <2>2, <3>3, <3>4 DEF J!Intend, J!Become, Books, Phases
        <3> QED BY <3>5 DEF J!Next
    <2>4. CASE /\ n = Last /\ orders[d][n] = "SUBMITTING"
               /\ ex[d][n] = "none" /\ UNCHANGED orders
               /\ ex' = [ex EXCEPT ![d][n] = "wire"]
        <3>1. ASSUME NEW r \in Runs, NEW k \in Orders
              PROVE  PhaseOf(r, k)' = IF r = d /\ k = n THEN "live" ELSE PhaseOf(r, k)
            <4>1. CASE r = d /\ k = n BY <2>4, <4>1 DEF PhaseOf
            <4>2. CASE ~(r = d /\ k = n)
                <5>1. ex'[r][k] = ex[r][k] /\ orders'[r][k] = orders[r][k] BY <2>4, <4>2
                <5> QED BY <4>2, <5>1 DEF PhaseOf
            <4> QED BY <4>1, <4>2
        <3>2. Phases' = [Phases EXCEPT ![d][n] = "live"] BY <3>1, PhaseBecomes
        <3>3. Phases[d][n] = "intended" BY <2>4 DEF Phases, PhaseOf
        <3>4. ASSUME NEW m \in Orders, Phases[d][m] = "live" PROVE FALSE
            <4>1. ex[d][m] = "wire" /\ orders[d][m] = "SUBMITTING" BY <3>4, LiveIsDoubtful
            <4>2. m \in Nat /\ n \in Nat /\ count[d] \in Nat /\ n = count[d]
                BY <2>1, <2>4 DEF Orders, Last
            <4>3. ~(m > count[d]) /\ ~(m < count[d]) BY <4>1 DEF Truthful
            <4>4. m = n BY ONLY <4>2, <4>3
            <4> QED BY <2>4, <4>1, <4>4
        <3>5. J!Send(d, n)
            BY <1>3, <2>2, <3>2, <3>3, <3>4 DEF J!Send, J!Become, Books, Phases
        <3> QED BY <3>5 DEF J!Next
    <2>5. CASE /\ orders[d][n] = "SUBMITTING" /\ ex[d][n] \in {"done", "refused"} /\ UNCHANGED ex
               /\ \E s \in {"CLOSED", "REJECTED"} : orders' = [orders EXCEPT ![d][n] = s]
        <3>1. ASSUME NEW r \in Runs, NEW k \in Orders PROVE PhaseOf(r, k)' = PhaseOf(r, k)
            <4>1. CASE r = d /\ k = n BY <2>5, <4>1 DEF PhaseOf
            <4>2. CASE ~(r = d /\ k = n)
                <5>1. orders'[r][k] = orders[r][k] BY <2>5, <4>2
                <5> QED BY <2>5, <5>1 DEF PhaseOf
            <4> QED BY <4>1, <4>2
        <3>2. UNCHANGED Phases BY <3>1 DEF Phases
        <3> QED BY <1>3, <3>2
    <2> QED BY <2>1, <2>3, <2>4, <2>5
<1> QED BY <1>4, <1>5

LEMMA FilesRefine ==
    ASSUME RebalanceInv, Sent, Files PROVE J!Next \/ UNCHANGED <<Books, Phases>>
<1>1. UNCHANGED Phases
    BY SamePhases DEF Files, StartRun, WrapUp, Restricted, HandleAmbiguous, HandleDoubt, Finish,
                      LoopClear
<1> USE DEF RebalanceInv, Types
<1>2. CASE StartRun
    <2>1. PICK d \in Runs : /\ place[d] = "none"
                            /\ place' = [place EXCEPT ![d] = "active"]
                            /\ status' = [status EXCEPT ![d] = "INTENT"]
        BY <1>2 DEF StartRun
    <2>2. \A r \in Runs : BookOf(r)' = IF r = d THEN "active" ELSE BookOf(r)
        BY <2>1 DEF BookOf
    <2>3. Books' = [Books EXCEPT ![d] = "active"] BY <2>2, BookBecomes
    <2>4. Books[d] = "none" /\ \A r \in Runs : Books[r] # "active"
        BY <1>2, <2>1 DEF Books, BookOf, StartRun, Gate
    <2>5. J!Open(d) BY <1>1, <2>3, <2>4 DEF J!Open, J!Move, Books, Phases
    <2> QED BY <2>5 DEF J!Next
<1>3. CASE WrapUp \/ Restricted \/ HandleAmbiguous \/ HandleDoubt
    <2>1. UNCHANGED place /\ run \in Runs /\ place[run] = "active"
        BY <1>3 DEF WrapUp, Restricted, HandleAmbiguous, HandleDoubt, Placed, Walking, Planning,
                    Ending
    <2>2. \A r \in Runs : r # run => status'[r] = status[r]
        BY <1>3 DEF WrapUp, Restricted, HandleAmbiguous, HandleDoubt, SetStatus
    <2>3. \A r \in Runs : BookOf(r)' = BookOf(r) BY <2>1, <2>2 DEF BookOf
    <2> QED BY <1>1, <2>3, SameBooks
<1>4. CASE Finish
    <2>1. pc = "retire" /\ UNCHANGED status BY <1>4 DEF Finish
    <2>2. PICK d \in Runs : d = run /\ place[d] = "active" /\ status[d] # "OPERATOR_CLEARED"
        BY <2>1 DEF Placed, Walking, Ending, Sent
    <2>3. CASE UNCHANGED place
        <3>1. \A r \in Runs : BookOf(r)' = BookOf(r) BY <2>1, <2>3 DEF BookOf
        <3> QED BY <1>1, <3>1, SameBooks
    <2>4. CASE place' = [place EXCEPT ![d] = "archived"]
        <3>1. \A r \in Runs : BookOf(r)' = IF r = d THEN "retired" ELSE BookOf(r)
            BY <2>1, <2>2, <2>4 DEF BookOf
        <3>2. Books' = [Books EXCEPT ![d] = "retired"] BY <3>1, BookBecomes
        <3>3. Books[d] = "active" BY <2>2 DEF Books, BookOf
        <3>4. ASSUME NEW k \in Orders PROVE Phases[d][k] # "live"
            <4>1. k > count[d] \/ k < count[d] \/ k = count[d] BY DEF Orders
            <4>2. orders[d][k] # "SUBMITTING"
                BY <2>1, <2>2, <4>1 DEF Truthful, Newest, Last, Orders
            <4> QED BY <4>2, LiveIsDoubtful
        <3>5. J!Retire(d) BY <1>1, <3>2, <3>3, <3>4 DEF J!Retire, J!Move, Books, Phases
        <3> QED BY <3>5 DEF J!Next
    <2> QED BY <1>4, <2>2, <2>3, <2>4 DEF Finish
<1>5. CASE LoopClear
    <2>1. \A r \in Runs : BookOf(r)' = IF place[r] = "active" THEN "cleared" ELSE BookOf(r)
        BY <1>5 DEF LoopClear, BookOf
    <2>2. CASE \E d \in Runs : place[d] = "active"
        <3>1. PICK d \in Runs : place[d] = "active" BY <2>2
        <3>2. \A r \in Runs : BookOf(r)' = IF r = d THEN "cleared" ELSE BookOf(r)
            BY <2>1, <3>1 DEF Sent
        <3>3. Books' = [Books EXCEPT ![d] = "cleared"] BY <3>2, BookBecomes
        <3>4. Books[d] = "active" BY <3>1 DEF Books, BookOf
        <3>5. J!Clear(d) BY <1>1, <3>3, <3>4 DEF J!Clear, J!Move, Books, Phases
        <3> QED BY <3>5 DEF J!Next
    <2>3. CASE \A d \in Runs : place[d] # "active"
        <3>1. \A r \in Runs : BookOf(r)' = BookOf(r) BY <2>1, <2>3
        <3> QED BY <1>1, <3>1, SameBooks
    <2> QED BY <2>2, <2>3
<1> QED BY <1>2, <1>3, <1>4, <1>5 DEF Files

LEMMA ExchangeRefines ==
    ASSUME RebalanceInv, Sent, Exchange PROVE J!Next
<1>1. PICK d \in Runs, l \in Orders : Accept(d, l) BY DEF Exchange
<1>2. PICK s \in {"done", "refused", "lost"} : ex' = [ex EXCEPT ![d][l] = s] BY <1>1 DEF Accept
<1>3. ex[d][l] = "wire" /\ UNCHANGED <<orders, place, status>> BY <1>1 DEF Accept, files
<1> USE DEF RebalanceInv, Types
<1>4. orders[d][l] # "none" BY <1>3 DEF Sent
<1>5. \A r \in Runs, k \in Orders :
          PhaseOf(r, k)' = IF r = d /\ k = l THEN "settled" ELSE PhaseOf(r, k)
    BY <1>2, <1>3, <1>4 DEF PhaseOf
<1>6. Phases' = [Phases EXCEPT ![d][l] = "settled"] BY <1>5, PhaseBecomes
<1>7. Phases[d][l] = "live" BY <1>3, <1>4 DEF Phases, PhaseOf
<1>8. UNCHANGED Books BY <1>3, SameBooks DEF BookOf
<1>9. J!Settle(d, l) BY <1>6, <1>7, <1>8 DEF J!Settle, J!Become, Books, Phases
<1> QED BY <1>9 DEF J!Next

LEMMA JournalStep == RebalanceInv /\ Sent /\ [Next]_vars => [J!Next]_J!vars
<1> SUFFICES ASSUME RebalanceInv, Sent, [Next]_vars PROVE [J!Next]_J!vars
    OBVIOUS
<1>1. UNCHANGED <<Books, Phases>> => UNCHANGED J!vars BY DEF J!vars, Books, Phases
<1>2. CASE Marks BY <1>1, <1>2, MarksRefine
<1>3. CASE Files BY <1>1, <1>3, FilesRefine
<1>4. CASE Exchange BY <1>4, ExchangeRefines
<1>5. CASE Moves \/ ConsumeClear \/ Operator \/ UNCHANGED vars
    <2>1. UNCHANGED <<orders, ex, place, status>>
        BY <1>5, MovesKeep DEF ConsumeClear, Operator, Pause, Resume, RequestClear, files, vars
    <2>2. UNCHANGED Books BY <2>1, SameBooks DEF BookOf
    <2> QED BY <1>1, <2>1, <2>2, SamePhases
<1> QED BY <1>2, <1>3, <1>4, <1>5, Steps

\* Maintenance keeps the promises of the order journal (README.md:35), over crashes,
\* restarts, lost answers and an operator's clear, for all constants.
THEOREM RebalanceKeepsJournal == Spec => KeepsJournal
<1>1. RebalanceInv /\ Sent /\ [Next]_vars => RebalanceInv' /\ Sent'
    BY TypesStep, PlacedStep, FitsStep, TruthfulStep, NewestStep, NotedStep, HeardStep, LateStep,
       SentStep DEF RebalanceInv
<1>2. Init => RebalanceInv /\ Sent BY RebalanceInit, SentInit
<1> QED BY <1>1, <1>2, JournalInit, JournalStep, PTL DEF Spec, KeepsJournal, J!Spec
=============================================================================
