---------------------------- MODULE ControlPlane ----------------------------
(* The operator's commands on their way to the strategy: Telegram keeps them  *)
(* until a later poll confirms them, the gateway (tg_gateway.py) turns them   *)
(* into writes of the control file, and the main loop reads that file and     *)
(* consumes clear requests.  Gateway and loop share nothing but the file,     *)
(* which each write replaces as a whole.                                      *)
EXTENDS Naturals, Sequences, FiniteSets

CONSTANTS MaxCommands,  \* bound: commands the operator sends
          MaxFaults     \* bound: crashes, failed replies and failed writes

VARIABLES
    state, clear,             \* the control file: desired_state, clear_issued_at
    inbox, confirmed,         \* Telegram: messages, how many an offset confirmed
    gpc, offset, cutoff, batch, old,  \* the gateway: place, next message, last one too
                              \* old for it, messages in hand, the clear request it read
    lpc, control,             \* the loop: place, the control it read
    unresolved,               \* an active deal record exists
    faults,
    will, asked, count        \* history: last command executed, a clear neither done nor
                              \* revoked, how often each message was executed

file    == <<state, clear>>
gateway == <<gpc, offset, cutoff, batch, old>>
loop    == <<lpc, control>>
history == <<will, asked, count>>
vars    == <<file, inbox, confirmed, gateway, loop, unresolved, faults, history>>

Commands == {"start", "stop", "clear"}
Messages == 1..MaxCommands

Init ==
    /\ state = "running" /\ clear = FALSE
    /\ inbox = <<>> /\ confirmed = 0
    /\ gpc = "poll" /\ offset = 0 /\ cutoff = 0 /\ batch = <<>> /\ old = FALSE
    /\ lpc = "read" /\ control = "running"
    /\ unresolved = FALSE /\ faults = 0
    /\ will = "start" /\ asked = FALSE /\ count = [i \in Messages |-> 0]

Fault == faults < MaxFaults /\ faults' = faults + 1

\* The operator writes to the bot.
Send(c) ==
    /\ Len(inbox) < MaxCommands /\ inbox' = Append(inbox, c)
    /\ UNCHANGED <<file, confirmed, gateway, loop, unresolved, faults, history>>

-----------------------------------------------------------------------------
\* TelegramPoller.poll: the offset asked for confirms what is before it; every message
\* returned moves the offset, those from before the gateway's start are dropped
\* (mutant: the offset is left where it was).
Later(m, n) == IF m > n THEN m ELSE n
PollTo(n) ==
    /\ gpc = "poll" /\ offset < Len(inbox)
    /\ confirmed' = offset /\ offset' = n
    /\ LET first == Later(offset, cutoff)
       IN  batch' = [k \in 1..(Len(inbox) - first) |-> first + k]
    /\ gpc' = IF batch' = <<>> THEN "poll" ELSE "handle"
    /\ UNCHANGED <<file, inbox, cutoff, old, loop, unresolved, faults, history>>
PollKeep == PollTo(offset)
Poll     == PollTo(Len(inbox))

Confirm ==
    /\ gpc = "poll" /\ offset = Len(inbox) /\ confirmed' = offset
    /\ UNCHANGED <<file, inbox, gateway, loop, unresolved, faults, history>>

Doing(c) == gpc = "handle" /\ inbox[Head(batch)] = c

\* The write of a command: what it leaves in the file, and what the operator now wants.
Execute(s, q) ==
    /\ gpc' = "reply" /\ state' = s /\ clear' = q
    /\ will' = inbox[Head(batch)] /\ count' = [count EXCEPT ![Head(batch)] = @ + 1]
    /\ UNCHANGED <<offset, cutoff, batch, old, inbox, confirmed, loop, unresolved, faults>>

Start == Doing("start") /\ Execute("running", FALSE) /\ asked' = FALSE

\* request_clear (mutant: it does not pause).
ClearRunning == Doing("clear") /\ Execute(state, TRUE) /\ asked' = TRUE
Clear        == Doing("clear") /\ Execute("paused", TRUE) /\ asked' = TRUE

\* Stop reads the file and writes it back with what it read.
StopRead ==
    /\ Doing("stop") /\ gpc' = "stop" /\ old' = clear
    /\ UNCHANGED <<offset, cutoff, batch, file, inbox, confirmed, loop, unresolved, faults, history>>
StopWrite == gpc = "stop" /\ Execute("paused", old) /\ UNCHANGED asked

Reply ==
    /\ gpc = "reply" /\ batch' = Tail(batch)
    /\ gpc' = IF batch' = <<>> THEN "poll" ELSE "handle"
    /\ UNCHANGED <<offset, cutoff, old, file, inbox, confirmed, loop, unresolved, faults, history>>

\* A write or a reply raises: main's handler goes on with the next poll.
HandlingFails ==
    /\ gpc # "poll" /\ gpc' = "poll" /\ batch' = <<>> /\ Fault
    /\ UNCHANGED <<offset, cutoff, old, file, inbox, confirmed, loop, unresolved, history>>

\* The gateway restarts: Telegram returns what no offset confirmed; what was sent more
\* than ten seconds before, up to message n, is too old.
GatewayRestarts(n) ==
    /\ Fault /\ n >= cutoff /\ cutoff' = n
    /\ gpc' = "poll" /\ batch' = <<>> /\ old' = FALSE /\ offset' = confirmed
    /\ UNCHANGED <<file, inbox, confirmed, loop, unresolved, history>>

Gateway ==
    \/ Poll \/ Confirm \/ Start \/ Clear \/ StopRead \/ StopWrite \/ Reply \/ HandlingFails
    \/ \E n \in 0..Len(inbox) : GatewayRestarts(n)

-----------------------------------------------------------------------------
\* The top of main's loop (mutant: the request is consumed before it is done).
ReadConsuming ==
    /\ lpc = "read" /\ control' = state
    /\ lpc' = IF clear THEN "consumed" ELSE "gate"
    /\ clear' = FALSE
    /\ UNCHANGED <<state, inbox, confirmed, gateway, unresolved, faults, history>>
ReadControl ==
    /\ lpc = "read" /\ control' = state
    /\ lpc' = IF clear THEN "clear" ELSE "gate"
    /\ UNCHANGED <<file, inbox, confirmed, gateway, unresolved, faults, history>>

\* clear_active.
ClearActive ==
    /\ lpc \in {"clear", "consumed"} /\ lpc' = "consume" /\ unresolved' = FALSE /\ asked' = FALSE
    /\ UNCHANGED <<control, file, inbox, confirmed, gateway, faults, will, count>>

\* consume_clear, and the second read of the file.
Consume ==
    /\ lpc = "consume" /\ lpc' = "reread" /\ state' = "paused" /\ clear' = FALSE
    /\ UNCHANGED <<control, inbox, confirmed, gateway, unresolved, faults, history>>
Reread ==
    /\ lpc = "reread" /\ lpc' = "gate" /\ control' = state
    /\ UNCHANGED <<file, inbox, confirmed, gateway, unresolved, faults, history>>

\* Paused, blocked by a record, or on to a deal, which may stay unresolved.
Gate ==
    /\ lpc = "gate" /\ lpc' = "read"
    /\ unresolved' \in IF control = "running" /\ ~unresolved THEN BOOLEAN ELSE {unresolved}
    /\ UNCHANGED <<control, file, inbox, confirmed, gateway, faults, history>>

\* The service dies, also because clear_active raised, and docker restarts it.
LoopRestarts ==
    /\ Fault /\ lpc' = "read"
    /\ UNCHANGED <<control, file, inbox, confirmed, gateway, unresolved, history>>

Loop == ReadControl \/ ClearActive \/ Consume \/ Reread \/ Gate \/ LoopRestarts

Next == (\E c \in Commands : Send(c)) \/ Gateway \/ Loop
Spec == Init /\ [][Next]_vars

-----------------------------------------------------------------------------
\* Once a stop or a clear was executed the file says paused until a start is executed,
\* whatever the loop writes at the same time (README.md:114, README.md:137).
StopHolds == will \in {"stop", "clear"} => state = "paused"

\* Every message is executed, in order and once, but for what a fault loses or repeats:
\* the offset is kept in memory and Telegram repeats what it does not confirm.
ExecutedOnce ==
    /\ \A i \in Messages : count[i] <= 1 + faults
    /\ faults = 0 =>
        \A i \in 1..offset :
            count[i] = 0 => \E k \in DOMAIN batch : batch[k] = i

\* A record that is unresolved while a clear is asked for is archived, unless a start
\* revokes the request: also over crashes of the service, over a stop that writes back
\* what it read, and over a second clear that the loop consumes with the first.
ClearsHappen == asked /\ unresolved ~> ~(asked /\ unresolved)

\* A fault loses at most the message at hand: whatever else the gateway confirmed to
\* Telegram it executed (README.md:114).  False of the code: see the findings.
FaultLosesOne ==
    Cardinality({i \in 1..confirmed : i > cutoff /\ count[i] = 0}) <= faults
=============================================================================
