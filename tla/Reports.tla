------------------------------ MODULE Reports -------------------------------
(* Trade reports (reporting.py): the strategy retires a deal by saving its    *)
(* outcome, recording a row, moving the file and pruning the archive; the     *)
(* Telegram gateway delivers the rows, with back-off.  Both processes die and *)
(* restart anywhere; they share only the files and the database.              *)
EXTENDS Naturals, FiniteSets

CONSTANTS
    NOld,        \* deals archived before the report database existed
    NDeals,      \* bound: deals in all, numbered in the order they complete
    MaxFiles,    \* archive_max_files
    Limits,      \* deliver's limit is one of these
    MaxPow,      \* deliver's cap on the exponent of the back-off
    MaxDelay,    \* the longest back-off, in ticks of its shortest
    RoundTicks,  \* bound: how long a round of the gateway takes at most
    MaxFaults    \* bound: crashes, failed writes, lost and refused messages

ASSUME ReportsAssumption ==
    /\ {NOld, NDeals, MaxFaults} \subseteq Nat /\ NOld <= NDeals
    /\ {MaxFiles, MaxPow, MaxDelay, RoundTicks} \cup Limits \subseteq Nat \ {0}

Deals == 1..NDeals
Old   == 1..NOld

VARIABLES
    active, filed, files,          \* state/*.json, what was archived, archive/*.json
    row, tries, wait,              \* the table trades, with the time left until retry_at
    spc, cur, made,                \* the strategy: place, deal at hand, deals begun
    gpc, batch, sending, age,      \* the gateway: place, rows fetched, row at hand, time
    chat,                          \* how often Telegram took each report
    poison, limit,                 \* reports Telegram always refuses; deliver's limit
    faults                         \* faults so far

store    == <<active, filed, files>>
table    == <<row, tries, wait>>
strategy == <<spc, cur, made>>
gateway  == <<gpc, batch, sending, age>>
fixed    == <<poison, limit>>
world    == <<chat, fixed, faults>>
vars     == <<store, table, strategy, gateway, world>>

Trades   == {"COMPLETE", "RECOVERED"}          \* NO_FILL: recovered without any fill
Outcomes == Trades \cup {"NO_FILL"}

Init ==
    /\ active = [d \in Deals |-> "none"]
    /\ filed \in {f \in [Deals -> {"none", "COMPLETE", "CLEARED"}] :
                    \A d \in Deals : (f[d] = "none") = (d \notin Old)}
    /\ files = Old
    /\ row = [d \in Deals |-> "none"]
    /\ tries = [d \in Deals |-> 0] /\ wait = [d \in Deals |-> 0]
    /\ spc = "import" /\ cur = 0 /\ made = NOld
    /\ gpc = "poll" /\ batch = {} /\ sending = 0 /\ age = 0
    /\ chat = [d \in Deals |-> 0]
    /\ poison \in SUBSET (Deals \ Old) /\ limit \in Limits /\ faults = 0

Fault == faults < MaxFaults /\ faults' = faults + 1 /\ UNCHANGED <<chat, fixed>>

-----------------------------------------------------------------------------
\* The strategy.

\* import_archives, one file of the archive.
Import(d) ==
    /\ spc = "import" /\ d \in files /\ filed[d] \in Trades /\ row[d] = "none"
    /\ row' = [row EXCEPT ![d] = "sent"]
    /\ UNCHANGED <<store, tries, wait, strategy, gateway, world>>

ImportDone ==
    /\ spc = "import" /\ \A d \in files : filed[d] \in Trades => row[d] # "none"
    /\ spc' = "loop" /\ UNCHANGED <<cur, made, store, table, gateway, world>>

Begin ==
    /\ spc = "loop" /\ \A d \in Deals : active[d] = "none"
    /\ made < NDeals /\ made' = made + 1 /\ cur' = made + 1 /\ spc' = "trade"
    /\ active' = [active EXCEPT ![made + 1] = "OPEN"]
    /\ UNCHANGED <<filed, files, table, gateway, world>>

\* finish begins: the outcome is saved.
SaveOutcome(s) ==
    /\ spc = "trade" /\ spc' = "record"
    /\ active' = [active EXCEPT ![cur] = s]
    /\ UNCHANGED <<cur, made, filed, files, table, gateway, world>>

\* RECOVERY_REQUIRED: the record stays and the service stops.
GiveUp ==
    /\ spc = "trade" /\ spc' = "dead"
    /\ active' = [active EXCEPT ![cur] = "STUCK"]
    /\ UNCHANGED <<cur, made, filed, files, table, gateway, world>>

\* clear_active finishes the record the operator gave up.
Clear(d) ==
    /\ spc = "loop" /\ active[d] # "none"
    /\ active' = [active EXCEPT ![d] = "CLEARED"]
    /\ spc' = "record" /\ cur' = d
    /\ UNCHANGED <<made, filed, files, table, gateway, world>>

Record ==
    /\ spc = "record" /\ spc' = "move"
    /\ row' = IF active[cur] \in Trades /\ row[cur] = "none"
              THEN [row EXCEPT ![cur] = "unsent"] ELSE row
    /\ UNCHANGED <<cur, made, store, tries, wait, gateway, world>>

Move ==
    /\ spc = "move" /\ spc' = "prune"
    /\ filed' = [filed EXCEPT ![cur] = active[cur]]
    /\ files' = files \cup {cur}
    /\ active' = [active EXCEPT ![cur] = "none"]
    /\ UNCHANGED <<cur, made, table, gateway, world>>

Newest(k) == {d \in files : Cardinality({e \in files : e > d}) < k}

\* Prune by number or by age; a recovered deal's exception then stops the service.
Prune(k) ==
    /\ spc = "prune" /\ files' = Newest(k)
    /\ spc' = IF filed[cur] \in {"COMPLETE", "CLEARED"} THEN "loop" ELSE "dead"
    /\ UNCHANGED <<cur, made, active, filed, table, gateway, world>>

\* A step of finish raises.  For a complete deal the failure handler of execute saves
\* RECOVERY_REQUIRED (mutant: a failed INSERT is ignored); the service stops.
Status == IF spc = "prune" THEN filed[cur] ELSE active[cur]
FinishFailsIgnored ==
    /\ spc = "record" /\ spc' = "move" /\ Fault
    /\ UNCHANGED <<cur, made, store, table, gateway>>
FinishFails ==
    /\ spc \in {"record", "move", "prune"} /\ spc' = "dead" /\ Fault
    /\ spc = "record" => active[cur] \in Trades
    /\ active' = IF Status = "COMPLETE" THEN [active EXCEPT ![cur] = "STUCK"] ELSE active
    /\ UNCHANGED <<cur, made, filed, files, table, gateway>>

Crash ==
    /\ spc # "dead" /\ spc' = "dead" /\ Fault /\ UNCHANGED <<cur, made, store, table, gateway>>

Restart ==
    /\ spc = "dead" /\ spc' = "import" /\ UNCHANGED <<cur, made, store, table, gateway, world>>

Finish == Record \/ Move \/ (\E k \in 1..MaxFiles : Prune(k)) \/ FinishFails

Strategy ==
    \/ \E d \in Deals : Import(d) \/ Clear(d)
    \/ ImportDone \/ Begin \/ (\E s \in Outcomes : SaveOutcome(s)) \/ GiveUp
    \/ Finish \/ Crash \/ Restart

-----------------------------------------------------------------------------
\* The gateway.

Pending      == {d \in Deals : row[d] = "unsent" /\ wait[d] = 0}
Oldest(S, k) == {d \in S : Cardinality({e \in S : e < d}) < k}

\* deliver reads the oldest rows that are due (mutant: without looking at sent).
FetchAll ==
    /\ gpc = "poll" /\ age' = 0 /\ sending' = 0
    /\ batch' = Oldest({d \in Deals : row[d] # "none" /\ wait[d] = 0}, limit)
    /\ gpc' = IF batch' = {} THEN "poll" ELSE "send"
    /\ UNCHANGED <<store, table, strategy, world>>
Fetch ==
    /\ gpc = "poll" /\ age' = 0 /\ sending' = 0
    /\ batch' = Oldest(Pending, limit)
    /\ gpc' = IF batch' = {} THEN "poll" ELSE "send"
    /\ UNCHANGED <<store, table, strategy, world>>

First(d) == gpc = "send" /\ batch # {} /\ d \in Oldest(batch, 1) /\ sending' = d

\* send_message returns.
Accepted(d) ==
    /\ First(d) /\ d \notin poison /\ gpc' = "sent"
    /\ chat' = [chat EXCEPT ![d] = @ + 1]
    /\ UNCHANGED <<batch, age, store, table, strategy, fixed, faults>>

\* Telegram takes the message but the answer is lost.
AnswerLost(d) ==
    /\ First(d) /\ d \notin poison /\ gpc' = "refused"
    /\ faults < MaxFaults /\ faults' = faults + 1
    /\ chat' = [chat EXCEPT ![d] = @ + 1]
    /\ UNCHANGED <<batch, age, store, table, strategy, fixed>>

Refused(d) ==
    /\ First(d) /\ gpc' = "refused"
    /\ IF d \in poison THEN UNCHANGED world ELSE Fault
    /\ UNCHANGED <<batch, age, store, table, strategy>>

\* The rest of the batch, then the next round.
NextRow == batch' = batch \ {sending} /\ gpc' = IF batch' = {} THEN "poll" ELSE "send"

\* UPDATE ... SET sent=1 (mutant: whatever Telegram said).
MarkSentAlways ==
    /\ gpc \in {"sent", "refused"} /\ NextRow
    /\ row' = [row EXCEPT ![sending] = "sent"]
    /\ UNCHANGED <<tries, wait, sending, age, store, strategy, world>>
MarkSent ==
    /\ gpc = "sent" /\ NextRow
    /\ row' = [row EXCEPT ![sending] = "sent"]
    /\ UNCHANGED <<tries, wait, sending, age, store, strategy, world>>

\* min(3600, 30 * 2 ** min(attempts, 7)) (mutant: the same delay every time).
DelayFixed(a) == 1
Delay(a) == IF 2 ^ a < MaxDelay THEN 2 ^ a ELSE MaxDelay

\* UPDATE ... SET attempts, retry_at: counted from the start of the round.
MarkRefused ==
    /\ gpc = "refused" /\ NextRow
    /\ tries' = [tries EXCEPT ![sending] = IF @ < MaxPow THEN @ + 1 ELSE @]
    /\ wait' = [wait EXCEPT ![sending] =
                 IF Delay(tries[sending]) > age THEN Delay(tries[sending]) - age ELSE 0]
    /\ UNCHANGED <<row, sending, age, store, strategy, world>>

\* The update raises, or the gateway dies: the rest of the batch is forgotten.
GatewayFails ==
    /\ gpc # "poll" /\ gpc' = "poll" /\ batch' = {} /\ sending' = 0 /\ Fault
    /\ UNCHANGED <<age, store, table, strategy>>

Tick ==
    /\ age < RoundTicks /\ age' = age + 1
    /\ wait' = [d \in Deals |-> IF wait[d] > 0 THEN wait[d] - 1 ELSE 0]
    /\ UNCHANGED <<row, tries, gpc, batch, sending, store, strategy, world>>

Deliver ==
    \/ Fetch \/ MarkSent \/ MarkRefused \/ GatewayFails
    \/ \E d \in Deals : Accepted(d) \/ AnswerLost(d) \/ Refused(d)

Next == Strategy \/ Deliver \/ Tick
Spec == Init /\ [][Next]_vars

-----------------------------------------------------------------------------
\* A trade whose outcome the service archived is in the totals, whatever failed on the
\* way and whether or not its file is still in the archive (state.py:111, "before
\* retiring active state or pruning old archives"); an old one from the end of the import.
ArchivedCounted ==
    \A d \in Deals : filed[d] \in Trades /\ (d \in Old => spc \notin {"import", "dead"})
                        => row[d] # "none"

\* A report reaches the chat once, and once more at most for every crash, failed write
\* or lost answer (reporting.py:78); what the archive import counts is never told
\* (docs/deployment.md, "does not send retrospective Telegram notifications").
DuplicatesNeedFaults == \A d \in Deals : chat[d] <= IF d \in Old THEN 0 ELSE 1 + faults

\* A queued report that Telegram does not refuse for ever is told in the end, also
\* behind older ones that it does refuse: the growing back-off lets it through.
ReportsArrive == \A d \in Deals : row[d] = "unsent" /\ d \notin poison ~> row[d] = "sent"

Promise == INSTANCE Outbox WITH
    Trades <- Deals, counted <- {d \in Deals : row[d] # "none"},
    queue <- {d \in Deals : row[d] = "unsent"}, told <- chat

\* The database keeps the outbox's promise.
KeepsPromise == Promise!Spec
=============================================================================
