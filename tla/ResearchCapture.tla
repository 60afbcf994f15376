-------------------------- MODULE ResearchCapture ---------------------------
(* The bounded directory of market captures (research.py): leftovers and old  *)
(* captures are removed, the oldest make room, and the new one is written     *)
(* aside and renamed.  Any of these steps may fail, and the process may die   *)
(* and start again between any two of them.                                   *)
EXTENDS Integers, FiniteSets

CONSTANTS
    Sizes,         \* of captures
    MaxFiles, MaxBytes, MaxFileBytes, MaxAge,
    Pause,         \* ticks of the 10 seconds between captures
    Leftover,      \* ticks of the 60 seconds after which a temporary file is one
    MaxTime,       \* bound: ticks of the clock
    MaxCaptures    \* bound: captures begun

VARIABLES
    now,
    files, temporary,  \* market-*.json and market-*.tmp: [id, at, size]
    pc, made, size,    \* place, number of the capture at hand, its size
    last               \* _last_capture

vars == <<now, files, temporary, pc, made, size, last>>

Never == -Pause    \* as good as 100 seconds ago

Init ==
    /\ now = 0 /\ files = {} /\ temporary = {} /\ pc = "idle" /\ made = 0 /\ size = 0
    /\ last = Never

Tick == now < MaxTime /\ now' = now + 1 /\ UNCHANGED <<files, temporary, pc, made, size, last>>

-----------------------------------------------------------------------------
\* capture: at most one attempt in ten seconds, counted before it is made.
Begin(s) ==
    /\ pc = "idle" /\ now - last >= Pause /\ made < MaxCaptures
    /\ last' = now /\ made' = made + 1 /\ size' = s
    /\ pc' = IF s > MaxFileBytes THEN "idle" ELSE "clean"
    /\ UNCHANGED <<now, files, temporary>>

Oldest(f) == \A g \in files : f.at <= g.at

CleanTemporary(f) ==
    /\ pc = "clean" /\ now - f.at > Leftover
    /\ temporary' = temporary \ {f} /\ UNCHANGED <<now, files, pc, made, size, last>>
\* Captures too old go, the oldest first.
CleanOld(f) ==
    /\ pc = "clean" /\ now - f.at > MaxAge /\ Oldest(f)
    /\ files' = files \ {f} /\ UNCHANGED <<now, temporary, pc, made, size, last>>
Cleaned ==
    /\ pc = "clean" /\ pc' = "room"
    /\ \A f \in temporary : now - f.at <= Leftover
    /\ \A f \in files : now - f.at <= MaxAge
    /\ UNCHANGED <<now, files, temporary, made, size, last>>

\* The bytes of files, each with the file it is in.
Contents(S) == UNION {{f} \X (1..f.size) : f \in S}
Bytes(S)    == Cardinality(Contents(S))

\* Whether there is room (mutant: for the files there are).
FullLater == Cardinality(files) > MaxFiles \/ Bytes(files) > MaxBytes
Full      == Cardinality(files) >= MaxFiles \/ Bytes(files) + size > MaxBytes

\* The oldest capture makes room.
Evict(f) ==
    /\ pc = "room" /\ Full /\ Oldest(f)
    /\ files' = files \ {f} /\ UNCHANGED <<now, temporary, pc, made, size, last>>

Write ==
    /\ pc = "room" /\ ~(files # {} /\ Full) /\ pc' = "rename"
    /\ temporary' = temporary \cup {[id |-> made, at |-> now, size |-> size]}
    /\ UNCHANGED <<now, files, made, size, last>>
Written == {f \in temporary : f.id = made}
Rename ==
    /\ pc = "rename" /\ pc' = "idle"
    /\ files' = files \cup Written /\ temporary' = temporary \ Written
    /\ UNCHANGED <<now, made, size, last>>

\* OSError anywhere: the file being written is removed.
Fails ==
    /\ pc # "idle" /\ pc' = "idle" /\ temporary' = temporary \ Written
    /\ UNCHANGED <<now, files, made, size, last>>

\* The process dies and starts again: it has captured nothing yet.
Restart ==
    /\ pc' = "idle" /\ last' = Never
    /\ UNCHANGED <<now, files, temporary, made, size>>

Next ==
    \/ Tick \/ Cleaned \/ Write \/ Rename \/ Fails \/ Restart
    \/ \E s \in Sizes : Begin(s)
    \/ \E f \in temporary : CleanTemporary(f)
    \/ \E f \in files : CleanOld(f) \/ Evict(f)

Spec == Init /\ [][Next]_vars

-----------------------------------------------------------------------------
\* The captures never exceed their number or their bytes, whatever step fails or dies
\* (README.md:61).
Capped == Cardinality(files) <= MaxFiles /\ Bytes(files) <= MaxBytes
=============================================================================
