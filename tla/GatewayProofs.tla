---------------------------- MODULE GatewayProofs ----------------------------
(* The two halves of the Telegram gateway, for all values of the constants:   *)
(* trade reports and the operator's commands.                                 *)
EXTENDS MCGateway, TLAPS

-----------------------------------------------------------------------------
(* The trade reports: the database keeps the outbox's promise, archived       *)
(* trades are counted, and duplicates need faults.                            *)

Statuses == {"none", "OPEN", "STUCK", "CLEARED"} \cup Outcomes
Rows     == {"none", "unsent", "sent"}

Types ==
    /\ active \in [Deals -> Statuses] /\ filed \in [Deals -> Statuses] /\ files \subseteq Deals
    /\ row \in [Deals -> Rows] /\ chat \in [Deals -> Nat] /\ faults \in Nat
    /\ made \in Nat /\ made >= NOld
    /\ spc \in {"import", "loop", "trade", "record", "move", "prune", "dead"}
    /\ gpc \in {"poll", "send", "sent", "refused"} /\ batch \subseteq Deals

\* The deal at hand is none of the old ones, which have no record any more.
AtHand ==
    /\ \A d \in Old : active[d] = "none"
    /\ spc \in {"trade", "record", "move", "prune"} => cur \in Deals /\ cur \notin Old

\* What is archived is counted; before the first import is over the old ones have files.
Counted ==
    /\ spc = "move" /\ active[cur] \in Trades => row[cur] # "none"
    /\ \A d \in Deals : filed[d] \in Trades /\ row[d] = "none" =>
           d \in Old /\ d \in files /\ spc \in {"import", "dead"}

\* The rows in hand are unsent; the one about to be marked was told.  No old one is there.
InHand ==
    /\ \A d \in batch : row[d] = "unsent"
    /\ \A d \in Old : row[d] # "unsent" /\ chat[d] = 0
    /\ gpc \in {"sent", "refused"} => sending \in batch
    /\ gpc = "sent" => chat[sending] > 0

\* A report told more often than there were faults is being marked, or was.
Told ==
    \A d \in Deals :
        /\ chat[d] <= 1 + faults
        /\ row[d] # "sent" /\ ~(gpc = "sent" /\ sending = d) => chat[d] <= faults

ReportsInv == Types /\ AtHand /\ Counted /\ InHand /\ Told

-----------------------------------------------------------------------------
LEMMA ReportsInit == Init => ReportsInv
<1> SUFFICES ASSUME Init PROVE ReportsInv
    OBVIOUS
<1> USE ReportsAssumption DEF Init, Statuses, Rows, Outcomes, Trades, Deals, Old
<1>1. /\ active \in [Deals -> Statuses] /\ row \in [Deals -> Rows]
      /\ chat \in [Deals -> Nat] /\ faults \in Nat
    OBVIOUS
<1>2. filed \in [Deals -> Statuses] /\ \A d \in Deals : filed[d] = "none" <=> d \notin Old
    OBVIOUS
<1>3. files \subseteq Deals /\ made \in Nat /\ made >= NOld
    OBVIOUS
<1>4. Types BY <1>1, <1>2, <1>3 DEF Types
<1>5. AtHand /\ InHand /\ Told BY DEF AtHand, InHand, Told
<1>6. Counted BY <1>2 DEF Counted
<1> QED BY <1>4, <1>5, <1>6 DEF ReportsInv

\* The strategy leaves the gateway and the chat alone, and the gateway the strategy.
LEMMA Apart ==
    /\ Strategy => UNCHANGED <<gpc, batch, sending, chat>>
    /\ Deliver \/ Tick => UNCHANGED <<active, filed, files, spc, cur, made>>
<1>1. Strategy => UNCHANGED <<gpc, batch, sending, chat>>
    BY DEF Strategy, Import, Clear, ImportDone, Begin, SaveOutcome, GiveUp, Finish, Record,
           Move, Prune, FinishFails, Crash, Restart, Fault, gateway, world, fixed
<1>2. Deliver \/ Tick => UNCHANGED <<active, filed, files, spc, cur, made>>
    BY DEF Deliver, Tick, Fetch, MarkSent, MarkRefused, GatewayFails, Accepted, AnswerLost,
           Refused, store, strategy
<1> QED BY <1>1, <1>2

\* A row changes by the import, by finish, and when its report was told.
LEMMA RowSteps ==
    ASSUME Types
    PROVE  /\ Strategy => UNCHANGED row \/ Record \/ \E d \in Deals : Import(d)
           /\ Deliver \/ Tick => UNCHANGED row \/ MarkSent
           /\ UNCHANGED vars => UNCHANGED row
<1>1. Strategy => UNCHANGED row \/ Record \/ \E d \in Deals : Import(d)
    BY DEF Strategy, Clear, ImportDone, Begin, SaveOutcome, GiveUp, Finish, Move, Prune,
           FinishFails, Crash, Restart, table
<1>2. Deliver \/ Tick => UNCHANGED row \/ MarkSent
    BY DEF Deliver, Tick, Fetch, MarkRefused, GatewayFails, Accepted, AnswerLost, Refused, table
<1>3. UNCHANGED vars => UNCHANGED row BY DEF vars, table
<1> QED BY <1>1, <1>2, <1>3

LEMMA OldAreDeals == Old \subseteq Deals
BY ReportsAssumption DEF Old, Deals

\* Faults are only ever added.
LEMMA FaultSteps ==
    ASSUME Types, [Next]_vars
    PROVE  faults' \in Nat /\ faults <= faults'
BY DEF Types, Next, Strategy, Import, Clear, ImportDone, Begin, SaveOutcome, GiveUp, Finish,
       Record, Move, Prune, FinishFails, Crash, Restart, Deliver, Tick, Fetch, MarkSent,
       MarkRefused, GatewayFails, Accepted, AnswerLost, Refused, Fault, world, vars

LEMMA TypesStep == Types /\ AtHand /\ [Next]_vars => Types'
<1> SUFFICES ASSUME Types, AtHand, [Next]_vars PROVE Types'
    OBVIOUS
<1>1. faults' \in Nat BY FaultSteps
<1>2. row' \in [Deals -> Rows]
    BY RowSteps DEF Next, Types, Rows, Import, Record, MarkSent, Deals
<1>3. CASE Strategy
    <2>1. gpc' = gpc /\ batch' = batch /\ chat' = chat BY <1>3, Apart
    <2>2. spc' \in {"import", "loop", "trade", "record", "move", "prune", "dead"}
        BY <1>3 DEF Types, Strategy, Import, Clear, ImportDone, Begin, SaveOutcome, GiveUp,
                    Finish, Record, Move, Prune, FinishFails, Crash, Restart, strategy
    <2>3. made' \in Nat /\ made' >= NOld
        BY <1>3, ReportsAssumption
           DEF Types, Strategy, Import, Clear, ImportDone, Begin, SaveOutcome, GiveUp,
               Finish, Record, Move, Prune, FinishFails, Crash, Restart, strategy
    <2>4. files' \subseteq Deals
        BY <1>3 DEF Types, AtHand, Newest, Strategy, Import, Clear, ImportDone, Begin,
                    SaveOutcome, GiveUp, Finish, Record, Move, Prune, FinishFails, Crash,
                    Restart, store
    <2>5. active' \in [Deals -> Statuses]
        BY <1>3 DEF Types, Statuses, Outcomes, Strategy, Import, Clear, ImportDone, Begin,
                    SaveOutcome, GiveUp, Finish, Record, Move, Prune, FinishFails, Crash,
                    Restart, store
    <2>6. filed' \in [Deals -> Statuses]
        <3>1. CASE Move
            <4>1. active[cur] \in Statuses BY <3>1 DEF Types, AtHand, Move
            <4> QED BY <3>1, <4>1 DEF Types, Move
        <3>2. CASE ~Move
            BY <1>3, <3>2
               DEF Types, Strategy, Import, Clear, ImportDone, Begin, SaveOutcome, GiveUp,
                   Finish, Record, Prune, FinishFails, Crash, Restart, store
        <3> QED BY <3>1, <3>2
    <2> QED BY <1>1, <1>2, <2>1, <2>2, <2>3, <2>4, <2>5, <2>6 DEF Types
<1>4. CASE Deliver \/ Tick
    <2>1. UNCHANGED <<active, filed, files, spc, made>> BY <1>4, Apart
    <2>2. gpc' \in {"poll", "send", "sent", "refused"} /\ batch' \subseteq Deals
        BY <1>4 DEF Types, Deliver, Tick, Fetch, MarkSent, MarkRefused, NextRow, GatewayFails,
                    Accepted, AnswerLost, Refused, First, Oldest, Pending
    <2>3. chat' \in [Deals -> Nat]
        BY <1>4 DEF Types, Deliver, Tick, Fetch, MarkSent, MarkRefused, GatewayFails, Fault,
                    Accepted, AnswerLost, Refused, world
    <2> QED BY <1>1, <1>2, <2>1, <2>2, <2>3 DEF Types
<1>5. CASE UNCHANGED vars
    BY <1>5 DEF Types, vars, store, table, strategy, gateway, world
<1> QED BY <1>3, <1>4, <1>5 DEF Next

LEMMA AtHandStep == Types /\ AtHand /\ [Next]_vars => AtHand'
<1> SUFFICES ASSUME Types, AtHand, [Next]_vars PROVE AtHand'
    OBVIOUS
<1> USE OldAreDeals DEF AtHand, Types
<1>1. CASE Begin
    BY <1>1, ReportsAssumption DEF Begin, Deals, Old
<1>2. ASSUME NEW d \in Deals, Clear(d) PROVE AtHand' BY <1>2 DEF Clear
<1>3. CASE (\E s \in Outcomes : SaveOutcome(s)) \/ GiveUp
    BY <1>3 DEF SaveOutcome, GiveUp
<1>4. CASE Finish
    BY <1>4 DEF Finish, Record, Move, Prune, FinishFails, store
<1>5. CASE (\E d \in Deals : Import(d)) \/ ImportDone \/ Crash \/ Restart
    BY <1>5 DEF Import, ImportDone, Crash, Restart, store, strategy
<1>6. CASE Deliver \/ Tick \/ UNCHANGED vars
    BY <1>6, Apart DEF vars, store, strategy
<1> QED BY <1>1, <1>2, <1>3, <1>4, <1>5, <1>6 DEF Next, Strategy

LEMMA CountedStep == Types /\ AtHand /\ Counted /\ [Next]_vars => Counted'
<1> SUFFICES ASSUME Types, AtHand, Counted, [Next]_vars PROVE Counted'
    OBVIOUS
<1> USE DEF Counted
<1>1. ASSUME NEW d \in Deals, Import(d) PROVE Counted'
    BY <1>1 DEF Import, store, strategy, Types, Rows
<1>2. CASE ImportDone BY <1>2 DEF ImportDone, store, table
<1>3. CASE Record BY <1>3 DEF Record, store, AtHand, Types
<1>4. CASE Move BY <1>4 DEF Move, table, AtHand, Types
<1>5. ASSUME NEW k \in 1..MaxFiles, Prune(k) PROVE Counted'
    BY <1>5 DEF Prune, table
<1>6. CASE FinishFails BY <1>6 DEF FinishFails, table
<1>7. CASE Begin \/ (\E s \in Outcomes : SaveOutcome(s)) \/ GiveUp \/ (\E d \in Deals : Clear(d))
    BY <1>7 DEF Begin, SaveOutcome, GiveUp, Clear, table
<1>8. CASE Crash \/ Restart
    BY <1>8 DEF Crash, Restart, store, table
<1>9. CASE Deliver \/ Tick
    <2>1. UNCHANGED <<active, filed, files, spc, cur>> BY <1>9, Apart
    <2>2. ASSUME NEW d \in Deals, row'[d] = "none" PROVE row[d] = "none"
        BY <1>9, <2>2 DEF Deliver, Tick, Fetch, MarkSent, MarkRefused, GatewayFails, Accepted,
                          AnswerLost, Refused, table, Types
    <2>3. spc = "move" => cur \in Deals BY DEF AtHand
    <2> QED BY <2>1, <2>2, <2>3
<1>10. CASE UNCHANGED vars BY <1>10 DEF vars, store, table, strategy
<1> QED BY <1>1, <1>2, <1>3, <1>4, <1>5, <1>6, <1>7, <1>8, <1>9, <1>10
        DEF Next, Strategy, Finish

LEMMA InHandStep == Types /\ AtHand /\ InHand /\ [Next]_vars => InHand'
<1> SUFFICES ASSUME Types, AtHand, InHand, [Next]_vars PROVE InHand'
    OBVIOUS
<1> USE DEF InHand
<1>1. CASE Strategy
    <2>1. UNCHANGED <<gpc, batch, sending, chat>> BY <1>1, Apart
    <2>2. ASSUME NEW d \in Deals
          PROVE  /\ row[d] = "unsent" => row'[d] = "unsent"
                 /\ d \in Old /\ row[d] # "unsent" => row'[d] # "unsent"
        <3>1. CASE UNCHANGED row BY <3>1
        <3>2. CASE Record BY <3>2 DEF Record, AtHand, Types
        <3>3. ASSUME NEW e \in Deals, Import(e)
              PROVE  /\ row[d] = "unsent" => row'[d] = "unsent"
                     /\ d \in Old /\ row[d] # "unsent" => row'[d] # "unsent"
            BY <3>3 DEF Import, Types
        <3> QED BY <1>1, RowSteps, <3>1, <3>2, <3>3
    <2> QED BY <2>1, <2>2, OldAreDeals DEF Types
<1>2. CASE Fetch
    BY <1>2 DEF Fetch, Oldest, Pending, table, world
<1>3. ASSUME NEW d \in Deals, Accepted(d) \/ AnswerLost(d) PROVE InHand'
    <2>1. d \in batch /\ row[d] = "unsent" /\ d \notin Old
        BY <1>3 DEF Accepted, AnswerLost, First, Oldest
    <2>2. chat[d] \in Nat /\ chat' = [chat EXCEPT ![d] = @ + 1]
        BY <1>3 DEF Accepted, AnswerLost, Types
    <2>3. UNCHANGED <<row, batch>> /\ sending' = d /\ gpc' \in {"sent", "refused"}
        BY <1>3 DEF Accepted, AnswerLost, First, table
    <2>4. chat'[d] > 0 /\ \A e \in Old : chat'[e] = 0
        BY <2>1, <2>2, OldAreDeals DEF Types
    <2> QED BY <2>1, <2>3, <2>4
<1>4. ASSUME NEW d \in Deals, Refused(d) PROVE InHand'
    BY <1>4 DEF Refused, First, Oldest, table, world, Fault
<1>5. CASE MarkSent
    BY <1>5 DEF MarkSent, NextRow, world, Types
<1>6. CASE MarkRefused
    BY <1>6 DEF MarkRefused, NextRow, world
<1>7. CASE GatewayFails BY <1>7 DEF GatewayFails, Fault, table
<1>8. CASE Tick BY <1>8 DEF Tick, world
<1>9. CASE UNCHANGED vars BY <1>9 DEF vars, table, gateway, world
<1> QED BY <1>1, <1>2, <1>3, <1>4, <1>5, <1>6, <1>7, <1>8, <1>9 DEF Next, Deliver

LEMMA ToldStep == Types /\ InHand /\ Told /\ [Next]_vars => Told'
<1> SUFFICES ASSUME Types, InHand, Told, [Next]_vars PROVE Told'
    OBVIOUS
<1> USE DEF Told
<1>1. faults \in Nat /\ faults' \in Nat /\ faults <= faults' BY FaultSteps DEF Types
<1>2. ASSUME UNCHANGED chat, ~(gpc = "sent" /\ gpc' # "sent"),
             gpc = "sent" => UNCHANGED sending
      PROVE  Told'
    <2> SUFFICES ASSUME NEW d \in Deals
                 PROVE  /\ chat[d] <= 1 + faults'
                        /\ row'[d] # "sent" /\ ~(gpc' = "sent" /\ sending' = d)
                               => chat[d] <= faults'
        BY <1>2
    <2>1. chat[d] \in Nat /\ chat[d] <= 1 + faults BY DEF Types
    <2>2. row'[d] # "sent" => row[d] # "sent"
        BY RowSteps DEF Next, Import, Record, MarkSent, Types
    <2>3. ~(gpc' = "sent" /\ sending' = d) => ~(gpc = "sent" /\ sending = d)
        BY <1>2
    <2> QED BY <1>1, <2>1, <2>2, <2>3
<1>3. CASE Strategy BY <1>2, <1>3, Apart
<1>4. ASSUME NEW d \in Deals, Accepted(d) PROVE Told'
    <2>1. d \in batch /\ row[d] = "unsent" /\ gpc = "send"
        BY <1>4 DEF Accepted, First, Oldest, InHand
    <2>2. chat[d] <= faults /\ chat[d] \in Nat BY <2>1 DEF Types
    <2>3. UNCHANGED <<row, faults>> /\ gpc' = "sent" /\ sending' = d
          /\ chat' = [chat EXCEPT ![d] = @ + 1]
        BY <1>4 DEF Accepted, First, table
    <2> QED BY <1>1, <2>1, <2>2, <2>3 DEF Types
<1>5. ASSUME NEW d \in Deals, AnswerLost(d) PROVE Told'
    <2>1. d \in batch /\ row[d] = "unsent" /\ gpc = "send"
        BY <1>5 DEF AnswerLost, First, Oldest, InHand
    <2>2. chat[d] <= faults /\ chat[d] \in Nat BY <2>1 DEF Types
    <2>3. UNCHANGED row /\ faults' = faults + 1 /\ chat' = [chat EXCEPT ![d] = @ + 1]
        BY <1>5 DEF AnswerLost, table
    <2> QED BY <1>1, <2>1, <2>2, <2>3 DEF Types
<1>6. CASE GatewayFails
    <2>1. UNCHANGED <<chat, row>> /\ faults' = faults + 1 BY <1>6 DEF GatewayFails, Fault, table
    <2> QED BY <1>1, <2>1 DEF Types
<1>7. CASE MarkSent
    <2>1. sending \in Deals /\ row' = [row EXCEPT ![sending] = "sent"] /\ UNCHANGED <<chat, faults>>
          /\ UNCHANGED sending
        BY <1>7 DEF MarkSent, InHand, Types, world
    <2> QED BY <2>1 DEF Types
<1>8. CASE Fetch \/ MarkRefused \/ Tick \/ \E d \in Deals : Refused(d)
    <2>1. (UNCHANGED chat /\ gpc # "sent") \/ UNCHANGED <<chat, gpc, sending>>
        BY <1>8 DEF Fetch, MarkRefused, Tick, Refused, First, world, Fault
    <2> QED BY <1>2, <2>1
<1>9. CASE UNCHANGED vars BY <1>2, <1>9 DEF vars, world, gateway
<1> QED BY <1>3, <1>4, <1>5, <1>6, <1>7, <1>8, <1>9 DEF Next, Deliver

-----------------------------------------------------------------------------
\* The inductive invariant of the reports.
THEOREM ReportsHold == Spec => []ReportsInv
<1>1. ReportsInv /\ [Next]_vars => ReportsInv'
    BY TypesStep, AtHandStep, CountedStep, InHandStep, ToldStep DEF ReportsInv
<1> QED BY ReportsInit, <1>1, PTL DEF Spec

\* A trade whose outcome is archived is counted (state.py:111), for all constants.
THEOREM ArchivedAreCounted == Spec => []ArchivedCounted
<1>1. ReportsInv => ArchivedCounted BY DEF ReportsInv, Counted, ArchivedCounted
<1> QED BY ReportsHold, <1>1, PTL

\* A report is told once but for faults, and what the import counts never
\* (reporting.py:78), for all constants.
THEOREM DuplicatesAreFaults == Spec => []DuplicatesNeedFaults
<1>1. ReportsInv => DuplicatesNeedFaults
    BY DEF ReportsInv, InHand, Told, DuplicatesNeedFaults
<1> QED BY ReportsHold, <1>1, PTL

LEMMA PromiseInit == Init => Promise!Init
BY DEF Init, Promise!Init

LEMMA PromiseStep == ReportsInv /\ [Next]_vars => [Promise!Next]_Promise!vars
<1> SUFFICES ASSUME ReportsInv, [Next]_vars PROVE [Promise!Next]_Promise!vars
    OBVIOUS
<1>1. row \in [Deals -> Rows] /\ chat \in [Deals -> Nat] BY DEF ReportsInv, Types
<1>2. ASSUME NEW d \in Deals, Import(d) PROVE Promise!CountSilently(d)
    <2>1. row[d] = "none" /\ row' = [row EXCEPT ![d] = "sent"] /\ UNCHANGED chat
        BY <1>2 DEF Import, world
    <2> QED BY <1>1, <2>1 DEF Promise!CountSilently
<1>3. CASE Record
    <2>1. PICK d \in Deals : d = cur BY <1>3 DEF ReportsInv, AtHand, Record
    <2>2. UNCHANGED chat BY <1>3 DEF Record, world
    <2>3. CASE UNCHANGED row BY <2>2, <2>3 DEF Promise!vars
    <2>4. CASE row[d] = "none" /\ row' = [row EXCEPT ![d] = "unsent"]
        <3>1. /\ {e \in Deals : row'[e] # "none"} = {e \in Deals : row[e] # "none"} \cup {d}
              /\ {e \in Deals : row'[e] = "unsent"} = {e \in Deals : row[e] = "unsent"} \cup {d}
            BY <1>1, <2>4
        <3>2. Promise!Report(d) BY <2>2, <2>4, <3>1 DEF Promise!Report
        <3> QED BY <3>2 DEF Promise!Next
    <2> QED BY <1>3, <2>1, <2>3, <2>4 DEF Record
<1>4. ASSUME NEW d \in Deals, Accepted(d) \/ AnswerLost(d) PROVE Promise!Tell(d)
    <2>1. row[d] = "unsent" BY <1>4 DEF Accepted, AnswerLost, First, Oldest, ReportsInv, InHand
    <2>2. UNCHANGED row /\ chat' = [chat EXCEPT ![d] = @ + 1]
        BY <1>4 DEF Accepted, AnswerLost, table
    <2> QED BY <2>1, <2>2 DEF Promise!Tell
<1>5. CASE MarkSent
    <2>1. PICK d \in Deals : d = sending BY <1>5 DEF MarkSent, ReportsInv, InHand, Types
    <2>2. row[d] = "unsent" /\ chat[d] > 0 BY <1>5, <2>1 DEF MarkSent, ReportsInv, InHand
    <2>3. row' = [row EXCEPT ![d] = "sent"] /\ UNCHANGED chat
        BY <1>5, <2>1 DEF MarkSent, world
    <2>4. /\ {e \in Deals : row'[e] # "none"} = {e \in Deals : row[e] # "none"}
          /\ {e \in Deals : row'[e] = "unsent"} = {e \in Deals : row[e] = "unsent"} \ {d}
        BY <1>1, <2>2, <2>3
    <2>5. Promise!Dequeue(d) BY <2>2, <2>3, <2>4 DEF Promise!Dequeue
    <2> QED BY <2>5 DEF Promise!Next
<1>6. CASE UNCHANGED <<row, chat>> BY <1>6 DEF Promise!vars
<1>7. \/ UNCHANGED <<row, chat>>
      \/ \E d \in Deals : Import(d) \/ Accepted(d) \/ AnswerLost(d)
      \/ Record \/ MarkSent
    <2>1. CASE Strategy BY <2>1, Apart, RowSteps DEF ReportsInv
    <2>2. CASE Deliver \/ Tick
        BY <2>2 DEF Deliver, Tick, Fetch, MarkRefused, GatewayFails, Refused, Fault, table, world
    <2>3. CASE UNCHANGED vars BY <2>3 DEF vars, table, world
    <2> QED BY <2>1, <2>2, <2>3 DEF Next
<1> QED BY <1>2, <1>3, <1>4, <1>5, <1>6, <1>7 DEF Promise!Next

\* The database keeps the promise of the outbox (README.md, "Telegram operations"), over
\* crashes of both processes, failed writes and lost answers, for all constants.
THEOREM PromiseIsKept == Spec => KeepsPromise
<1> QED BY PromiseInit, PromiseStep, ReportsHold, PTL DEF Spec, KeepsPromise, Promise!Spec

-----------------------------------------------------------------------------
(* The operator's commands: a stop holds until a start, and each message is   *)
(* executed once but for faults.                                              *)

\* The commands of the composition are ControlPlane's.
LEMMA CommandsMove == MCSpec => Control!Spec
<1>1. MCInit => Control!Init BY DEF MCInit
<1>2. UNCHANGED commands => UNCHANGED Control!vars
    BY DEF commands, Control!vars, Control!file, Control!gateway, Control!loop, Control!history
<1>3. [MCNext]_all => [Control!Next]_Control!vars
    BY <1>2 DEF MCNext, Reporting, Commanding, all
<1> QED BY <1>1, <1>3, PTL DEF MCSpec, Control!Spec

\* Every write of the file but that of a start pauses.
LEMMA StopStep == StopHolds /\ [Control!Next]_Control!vars => StopHolds'
<1> SUFFICES ASSUME StopHolds, [Control!Next]_Control!vars PROVE StopHolds'
    OBVIOUS
<1> USE DEF StopHolds, Control!StopHolds, Control!file, Control!loop, Control!gateway,
            Control!history
<1>1. CASE Control!Start \/ Control!Clear \/ Control!StopWrite
    BY <1>1 DEF Control!Start, Control!Clear, Control!StopWrite, Control!Execute, Control!Doing
<1>2. CASE Control!Loop
    BY <1>2 DEF Control!Loop, Control!ReadControl, Control!ClearActive, Control!Consume,
                Control!Reread, Control!Gate, Control!LoopRestarts
<1>3. CASE Control!Gateway /\ ~(Control!Start \/ Control!Clear \/ Control!StopWrite)
    BY <1>3 DEF Control!Gateway, Control!Poll, Control!PollTo, Control!Confirm, Control!StopRead,
                Control!Reply, Control!HandlingFails, Control!GatewayRestarts
<1>4. CASE \E c \in Control!Commands : Control!Send(c)
    BY <1>4 DEF Control!Send
<1>5. CASE UNCHANGED Control!vars
    BY <1>5 DEF Control!vars
<1> QED BY <1>1, <1>2, <1>3, <1>4, <1>5 DEF Control!Next

\* Once a stop or a clear was executed the file says paused until a start is executed,
\* whatever the loop and the gateway write at the same time (README.md:114, README.md:137).
THEOREM StopsHold == MCSpec => []StopHolds
<1>1. Control!Init => StopHolds BY DEF Control!Init, StopHolds, Control!StopHolds
<1> QED BY <1>1, StopStep, CommandsMove, PTL DEF Control!Spec

-----------------------------------------------------------------------------
(* Messages are executed in order.                                          *)

\* The message at hand: what is left of a batch are the last messages before the offset.
Hand == offset - Len(cbatch) + 1

Polled ==
    /\ inbox \in Seq(Control!Commands) /\ Len(inbox) <= MaxCommands
    /\ offset \in 0..Len(inbox) /\ confirmed \in 0..offset /\ cutoff \in 0..Len(inbox)
    /\ cbatch \in Seq(Nat) /\ Len(cbatch) <= offset
    /\ \A k \in 1..Len(cbatch) : cbatch[k] = Hand + k - 1
    /\ cgpc \in {"poll", "handle", "stop", "reply"} /\ (cgpc = "poll" <=> cbatch = <<>>)

\* Those before it were executed, those after it only before a fault.
Done(i) == i < Hand \/ (i = Hand /\ cgpc = "reply")
InOrder ==
    /\ cfaults \in Nat /\ count \in [Control!Messages -> Nat]
    /\ \A i \in Control!Messages : count[i] <= cfaults + IF i <= offset /\ Done(i) THEN 1 ELSE 0
    /\ cfaults = 0 => cutoff = 0 /\ \A i \in 1..offset : Done(i) => count[i] >= 1

OnceInv == Polled /\ InOrder

LEMMA OnceInit == Control!Init => OnceInv
BY CommandsAssumption
   DEF Control!Init, OnceInv, Polled, InOrder, Hand, Done, Control!Messages

LEMMA HeadInHand ==
    ASSUME Polled, cgpc # "poll"
    PROVE  Head(cbatch) = Hand /\ Hand \in 1..offset /\ Hand \in Control!Messages
<1>1. cbatch # <<>> /\ Len(cbatch) \in Nat /\ Len(cbatch) > 0 BY DEF Polled
<1>2. Head(cbatch) = cbatch[1] /\ cbatch[1] = Hand BY <1>1 DEF Polled, Hand
<1>3. offset \in Nat /\ Len(inbox) \in Nat BY DEF Polled
<1> QED BY <1>1, <1>2, <1>3, CommandsAssumption DEF Polled, Hand, Control!Messages

LEMMA PollKeeps == ASSUME OnceInv, Control!Poll PROVE OnceInv'
<1> DEFINE first == Control!Later(offset, cutoff)
           n     == Len(inbox) - first
<1>1. /\ Len(inbox) \in Nat /\ offset \in 0..Len(inbox) /\ cutoff \in 0..Len(inbox)
      /\ first \in 0..Len(inbox) /\ first >= offset /\ first >= cutoff /\ n \in Nat
    BY DEF OnceInv, Polled, Control!Later
<1>2. /\ confirmed' = offset /\ offset' = Len(inbox) /\ cgpc = "poll"
      /\ cbatch' = [k \in 1..n |-> first + k]
      /\ cgpc' = IF cbatch' = <<>> THEN "poll" ELSE "handle"
      /\ UNCHANGED <<inbox, cutoff, cfaults, count>>
    BY DEF Control!Poll, Control!PollTo, Control!history
<1>3. cbatch' \in Seq(Nat) /\ Len(cbatch') = n /\ \A k \in 1..n : cbatch'[k] = first + k
    BY <1>1, <1>2
<1>4. Hand' = first + 1 /\ Hand = offset + 1 BY <1>1, <1>2, <1>3 DEF Hand, OnceInv, Polled
<1>5. Polled'
    <2>1. \A k \in 1..Len(cbatch') : cbatch'[k] = Hand' + k - 1 BY <1>1, <1>3, <1>4
    <2>2. Len(cbatch') <= offset' BY <1>1, <1>2, <1>3
    <2>3. inbox' \in Seq(Control!Commands) /\ Len(inbox') <= MaxCommands
        BY <1>2 DEF OnceInv, Polled
    <2>4. cgpc' \in {"poll", "handle", "stop", "reply"} /\ (cgpc' = "poll" <=> cbatch' = <<>>)
        BY <1>2
    <2>5. offset' \in 0..Len(inbox') /\ confirmed' \in 0..offset' /\ cutoff' \in 0..Len(inbox')
        BY <1>1, <1>2
    <2> QED BY <1>3, <2>1, <2>2, <2>3, <2>4, <2>5 DEF Polled
<1>6. ASSUME NEW i \in Control!Messages
      PROVE  count[i] <= cfaults + IF i <= offset' /\ Done(i)' THEN 1 ELSE 0
    <2>1. i \in Nat /\ count[i] \in Nat /\ cfaults \in Nat
          /\ count[i] <= cfaults + IF i <= offset /\ Done(i) THEN 1 ELSE 0
        BY CommandsAssumption DEF OnceInv, InOrder, Control!Messages
    <2>2. CASE i <= offset
        <3>1. i <= offset' /\ Done(i)' BY <1>1, <1>2, <1>4, <2>1, <2>2 DEF Done
        <3> QED BY <2>1, <3>1
    <2>3. CASE ~(i <= offset) BY <2>1, <2>3
    <2> QED BY <2>2, <2>3
<1>7. cfaults = 0 => \A i \in 1..offset' : Done(i)' => count[i] >= 1
    BY <1>1, <1>2, <1>4 DEF OnceInv, InOrder, Done, Control!Later
<1> QED BY <1>2, <1>5, <1>6, <1>7 DEF OnceInv, InOrder

LEMMA ExecuteKeeps ==
    ASSUME OnceInv, Control!Start \/ Control!Clear \/ Control!StopWrite PROVE OnceInv'
<1>1. /\ cgpc \in {"handle", "stop"} /\ cgpc' = "reply"
      /\ count' = [count EXCEPT ![Head(cbatch)] = @ + 1]
      /\ UNCHANGED <<offset, cutoff, cbatch, inbox, confirmed, cfaults>>
    BY DEF Control!Start, Control!Clear, Control!StopWrite, Control!Execute, Control!Doing
<1>2. Head(cbatch) = Hand /\ Hand \in 1..offset /\ Hand \in Control!Messages
    BY <1>1, HeadInHand DEF OnceInv
<1>3. Polled' /\ Hand' = Hand BY <1>1 DEF OnceInv, Polled, Hand
<1>4. \A i \in Control!Messages : count'[i] = IF i = Hand THEN count[i] + 1 ELSE count[i]
    BY <1>1, <1>2 DEF OnceInv, InOrder
<1> QED BY <1>1, <1>2, <1>3, <1>4 DEF OnceInv, InOrder, Done, Control!Messages

LEMMA ReplyKeeps == ASSUME OnceInv, Control!Reply PROVE OnceInv'
<1>1. /\ cgpc = "reply" /\ cbatch' = Tail(cbatch)
      /\ cgpc' = IF cbatch' = <<>> THEN "poll" ELSE "handle"
      /\ UNCHANGED <<offset, cutoff, inbox, confirmed, cfaults, count>>
    BY DEF Control!Reply, Control!history
<1>2. cbatch # <<>> /\ cbatch \in Seq(Nat) BY <1>1 DEF OnceInv, Polled
<1>3. /\ cbatch' \in Seq(Nat) /\ Len(cbatch') = Len(cbatch) - 1
      /\ \A k \in 1..Len(cbatch') : cbatch'[k] = cbatch[k + 1]
    BY <1>1, <1>2
<1>4. Hand' = Hand + 1 /\ Hand \in Nat BY <1>1, <1>2, <1>3 DEF Hand, OnceInv, Polled
<1>5. Polled' BY <1>1, <1>2, <1>3, <1>4 DEF OnceInv, Polled
<1>6. \A i \in Nat : Done(i)' => Done(i) BY <1>1, <1>4 DEF Done
<1>7. \A i \in Nat : Done(i) => Done(i)' BY <1>1, <1>4 DEF Done
<1> QED BY <1>1, <1>5, <1>6, <1>7 DEF OnceInv, InOrder, Control!Messages

\* A fault loses what is in hand, or repeats what was executed.
LEMMA FaultKeeps ==
    ASSUME OnceInv,
           Control!HandlingFails \/ \E n \in 0..Len(inbox) : Control!GatewayRestarts(n)
    PROVE  OnceInv'
<1>1. /\ cgpc' = "poll" /\ cbatch' = <<>> /\ cfaults' = cfaults + 1
      /\ offset' \in {offset, confirmed} /\ cutoff' \in 0..Len(inbox)
      /\ UNCHANGED <<inbox, confirmed, count>>
    BY DEF OnceInv, Polled, Control!HandlingFails, Control!GatewayRestarts, Control!Fault,
           Control!history
<1>2. Polled' BY <1>1 DEF OnceInv, Polled, Hand
<1> QED BY <1>1, <1>2 DEF OnceInv, InOrder, Done

LEMMA OtherKeeps ==
    ASSUME OnceInv,
           \/ \E c \in Control!Commands : Control!Send(c)
           \/ Control!Loop \/ Control!Confirm \/ Control!StopRead \/ UNCHANGED Control!vars
    PROVE  OnceInv'
<1> USE DEF OnceInv, Polled, InOrder, Done, Hand
<1>1. CASE \E c \in Control!Commands : Control!Send(c)
    <2>1. PICK c \in Control!Commands : Len(inbox) < MaxCommands /\ inbox' = Append(inbox, c)
        BY <1>1 DEF Control!Send
    <2>2. inbox' \in Seq(Control!Commands) /\ Len(inbox') = Len(inbox) + 1
        BY <2>1
    <2>3. UNCHANGED <<offset, confirmed, cutoff, cbatch, cgpc, cfaults, count>>
        BY <1>1 DEF Control!Send, Control!gateway, Control!history
    <2> QED BY <2>1, <2>2, <2>3, CommandsAssumption
<1>2. CASE Control!LoopRestarts
    <2>1. UNCHANGED <<inbox, offset, confirmed, cutoff, cbatch, cgpc, count>>
        BY <1>2 DEF Control!LoopRestarts, Control!gateway, Control!history
    <2>2. cfaults' = cfaults + 1 BY <1>2 DEF Control!LoopRestarts, Control!Fault
    <2> QED BY <2>1, <2>2
<1>3. CASE Control!Loop /\ ~Control!LoopRestarts
    <2>1. UNCHANGED <<inbox, offset, confirmed, cutoff, cbatch, cgpc, cfaults, count>>
        BY <1>3 DEF Control!Loop, Control!ReadControl, Control!ClearActive, Control!Consume,
                    Control!Reread, Control!Gate, Control!gateway, Control!history
    <2> QED BY <2>1
<1>4. CASE Control!Confirm \/ Control!StopRead \/ UNCHANGED Control!vars
    <2>1. /\ UNCHANGED <<inbox, offset, cutoff, cbatch, cfaults, count>>
          /\ confirmed' \in {offset, confirmed}
          /\ \/ cgpc' = cgpc
             \/ cgpc = "handle" /\ cgpc' = "stop"
        BY <1>4 DEF Control!Confirm, Control!StopRead, Control!Doing, Control!gateway,
                    Control!history, Control!vars
    <2> QED BY <2>1
<1> QED BY <1>1, <1>2, <1>3, <1>4

LEMMA OnceStep == OnceInv /\ [Control!Next]_Control!vars => OnceInv'
BY PollKeeps, ExecuteKeeps, ReplyKeeps, FaultKeeps, OtherKeeps DEF Control!Next, Control!Gateway

\* Every message is executed, in order and once, but for what a fault loses or repeats
\* (tg_gateway.py, TelegramPoller.poll and main).
THEOREM CommandsAreExecutedOnce == MCSpec => []ExecutedOnce
<1>1. OnceInv => ExecutedOnce
    <2> SUFFICES ASSUME OnceInv PROVE ExecutedOnce
        OBVIOUS
    <2>1. \A i \in Control!Messages : count[i] <= 1 + cfaults
        BY DEF OnceInv, InOrder
    <2>2. ASSUME cfaults = 0, NEW i \in 1..offset, count[i] = 0
          PROVE  \E k \in DOMAIN cbatch : cbatch[k] = i
        <3>1. i \in Nat /\ offset \in Nat /\ Len(cbatch) \in Nat /\ Hand \in Nat /\ ~Done(i)
            BY <2>2 DEF OnceInv, InOrder, Polled, Hand
        <3>2. i >= Hand BY <3>1 DEF Done
        <3>3. i - Hand + 1 \in 1..Len(cbatch) BY <3>1, <3>2 DEF Hand
        <3>4. cbatch[i - Hand + 1] = i BY <3>1, <3>3 DEF OnceInv, Polled
        <3> QED BY <3>3, <3>4 DEF OnceInv, Polled
    <2> QED BY <2>1, <2>2 DEF ExecutedOnce, Control!ExecutedOnce
<1> QED BY <1>1, OnceInit, OnceStep, CommandsMove, PTL DEF Control!Spec
=============================================================================
