------------------------------ MODULE MCGateway ------------------------------
(* The two halves of the Telegram gateway and what each works on with the     *)
(* trading service: the trade reports, and the operator's commands.  They     *)
(* share no state, so one of them moves in a behaviour and the other rests in *)
(* an initial state.                                                          *)
EXTENDS Reports, Sequences

CONSTANTS MaxCommands, MaxControlFaults

ASSUME CommandsAssumption == {MaxCommands, MaxControlFaults} \subseteq Nat

VARIABLES
    part,      \* which half moves
    state, clear, inbox, confirmed, cgpc, offset, cutoff, cbatch, old, lpc, control,
    unresolved, cfaults, will, asked, count

Control == INSTANCE ControlPlane WITH
    gpc <- cgpc, batch <- cbatch, faults <- cfaults, MaxFaults <- MaxControlFaults

commands == <<state, clear, inbox, confirmed, cgpc, offset, cutoff, cbatch, old, lpc, control,
              unresolved, cfaults, will, asked, count>>
all      == <<part, vars, commands>>

MCInit ==
    /\ part \in {"reports", "commands"}
    /\ part = "commands" => /\ poison = {} /\ limit = CHOOSE n \in Limits : TRUE
                            /\ filed = [d \in Deals |-> IF d \in Old THEN "COMPLETE" ELSE "none"]
    /\ Init /\ Control!Init

\* A round of the gateway ends, for every request of it times out; and the service goes
\* on with its loop.  The operator, faults, and the deals are not fair.
Reporting(A)  == part = "reports" /\ A /\ UNCHANGED <<part, commands>>
Commanding(A) == part = "commands" /\ A /\ UNCHANGED <<part, vars>>

MCNext == Reporting(Next) \/ Commanding(Control!Next)

MCSpec ==
    /\ MCInit /\ [][MCNext]_all
    /\ WF_all(Reporting(Deliver)) /\ WF_all(Reporting(Tick))
    /\ WF_all(Commanding(Control!Loop))

\* ControlPlane's properties: a stop holds until a start; commands are executed once but
\* for faults; a clear that no start revokes is carried out.
StopHolds    == Control!StopHolds
ExecutedOnce == Control!ExecutedOnce
ClearsHappen == Control!ClearsHappen
=============================================================================
