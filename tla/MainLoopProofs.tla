--------------------------- MODULE MainLoopProofs ---------------------------
(* The main loop, for every floor, target, least purchase, period, account   *)
(* and number of faults.  No deal begins next to an active record, nor, with *)
(* rebalancing on, with less than the floor in the reserve: whatever spends  *)
(* BNB makes the loop read the balances again before the flag it left can be *)
(* used, or raises.  Whoever buys the reserve, it passes what one purchase   *)
(* may make of it by orders with a lost answer only.                         *)
EXTENDS MainLoop, TLAPS

\* A record is only left behind where the loop looks for one before going on.
Recorded == pc \notin {"top", "waiting", "dead"} => ~record

\* The flag, while it may be used without reading the balances, tells the reserve of now.
Flagged ==
    /\ bnb \in Nat /\ usdc \in Int /\ order \in Nat /\ lost \in Seq(Nat) /\ known.bnb \in Nat
    /\ pc # "buying"
    /\ pc = "refresh" => due.refresh
    /\ pc \in {"seed", "refresh"} /\ due.refresh => refreshIn = 0
    /\ pc \in {"maintain", "reserve"} /\ due.refresh => known.bnb <= bnb \/ disturbed
    /\ pc \in {"maintain", "reserve", "seed"} /\ ~due.refresh /\ active
         => bnb >= Floor \/ disturbed
    /\ pc \in {"top", "waiting"} /\ refreshIn # 0 /\ active => bnb >= Floor \/ disturbed
    /\ pc = "scan" => bnb >= Floor \/ disturbed

LEMMA RecordedHolds == Init => Recorded
BY DEF Init, Recorded

LEMMA RecordedStep == Recorded /\ [Next]_vars => Recorded'
<1> SUFFICES ASSUME Recorded, [Next]_vars PROVE Recorded'
    OBVIOUS
<1> USE DEF Recorded, outside, vars
<1>1. CASE Loop
    BY <1>1 DEF Loop, Top, Seed, Refresh, Limited, WaitOver, NoCheck, NotDue, Run, RunFails,
        Restore, Restored, Convert, Return, RunLimited, Stuck, KeepFlag, FlagOnly, ReserveShort,
        Buy, BuyFills, BuyRefused, AnswerLost, NoDeal, BeginDeal, DealEnds, DealFails,
        DealLimited, Crash, Restart, Goto, Running
<1>2. CASE Operator BY <1>2 DEF Operator
<1>3. CASE Tick \/ Land \/ SpentElsewhere BY <1>3 DEF Tick, Land, SpentElsewhere
<1>4. CASE UNCHANGED vars BY <1>4
<1> QED BY <1>1, <1>2, <1>3, <1>4 DEF Next

LEMMA LackIsNat == ASSUME bnb \in Nat PROVE Lack \in Nat
BY LoopAssumption DEF Lack, Bigger

LEMMA RestoredIsNat ==
    ASSUME bnb \in Nat, order \in Nat, usdc \in Int, NEW fee \in Nat, Restore(fee)
    PROVE  bnb' \in Nat /\ usdc' \in Int
BY DEF Restore, Smaller

LEMMA LandedIsNat ==
    ASSUME bnb \in Nat, usdc \in Int, lost \in Seq(Nat), Land
    PROVE  lost' \in Seq(Nat) /\ bnb' \in Nat /\ usdc' \in Int /\ bnb <= bnb'
<1>1. lost # <<>> /\ lost' = Tail(lost) BY DEF Land
<1>2. Head(lost) \in Nat /\ lost' \in Seq(Nat) BY <1>1
<1> QED BY <1>2 DEF Land

LEMMA FlaggedHolds == rebalancing /\ Init => Flagged
BY LoopAssumption DEF Init, Flagged

LEMMA FlaggedStep == rebalancing /\ Flagged /\ [Next]_vars => Flagged'
<1> SUFFICES ASSUME rebalancing, Flagged, [Next]_vars PROVE Flagged'
    OBVIOUS
<1> USE LoopAssumption DEF Flagged, account, outside, timers, view, Goto
<1>1. CASE Top BY <1>1 DEF Top
<1>2. CASE Seed BY <1>2 DEF Seed
<1>3. CASE Refresh BY <1>3 DEF Refresh
<1>4. CASE Limited \/ WaitOver BY <1>4 DEF Limited, WaitOver
<1>5. CASE NoCheck \/ NotDue BY <1>5 DEF NoCheck, NotDue
<1>6. CASE Run \/ RunFails BY <1>6, LackIsNat DEF Run, RunFails
<1>7. ASSUME NEW fee \in 0..(Target + Minimum), Restore(fee) PROVE Flagged'
    <2>1. pc' = "restored" /\ order' = 0 /\ UNCHANGED <<lost, known>> BY <1>7 DEF Restore
    <2>2. bnb' \in Nat /\ usdc' \in Int BY LoopAssumption, <1>7, RestoredIsNat
    <2> QED BY <2>1, <2>2
<1>8. CASE Convert \/ Restored
    <2>1. pc' \in {"convert", "restored"} /\ UNCHANGED <<order, lost, known>>
        BY <1>8 DEF Convert, Restored
    <2>2. bnb' \in Nat /\ usdc' \in Int
        <3>1. CASE Convert BY <1>8, <3>1 DEF Convert
        <3>2. CASE Restored BY <1>8, <3>2 DEF Restored
        <3> QED BY <1>8, <3>1, <3>2
    <2> QED BY <2>1, <2>2
<1>9. CASE Return \/ RunLimited BY <1>9 DEF Return, RunLimited, Running, Dropped
<1>10. CASE KeepFlag BY <1>10 DEF KeepFlag, Gate
<1>11. CASE FlagOnly
    <2>1. pc = "reserve" /\ due.refresh /\ (known.bnb <= bnb \/ disturbed)
        BY <1>11 DEF FlagOnly
    <2>2. UNCHANGED <<bnb, usdc, order, lost, due, known, disturbed>>
        BY <1>11 DEF FlagOnly, SetFlag
    <2>3. CASE ReserveLow
        <3>1. pc' = "top" /\ active' = FALSE BY <1>11, <2>3 DEF FlagOnly, Gate, SetFlag
        <3> QED BY <2>1, <2>2, <3>1
    <2>4. CASE ~ReserveLow
        <3>1. pc' = "scan" BY <1>11, <2>4 DEF FlagOnly, Gate
        <3>2. bnb >= Floor \/ disturbed BY <2>1, <2>4 DEF ReserveLow
        <3> QED BY <2>1, <2>2, <3>1, <3>2
    <2> QED BY <2>3, <2>4
<1>12. CASE ReserveShort \/ Buy \/ BuyFills \/ BuyRefused \/ AnswerLost
    BY <1>12 DEF ReserveShort, Buy, BuyFills, BuyRefused, AnswerLost
<1>13. CASE NoDeal \/ BeginDeal BY <1>13 DEF NoDeal, BeginDeal
<1>14. CASE DealEnds \/ DealFails \/ DealLimited
    <2>1. bnb' \in Nat /\ usdc' \in Int /\ UNCHANGED <<order, lost, known>>
        <3>1. DealMoves /\ UNCHANGED known
            BY <1>14 DEF DealEnds, DealFails, DealLimited
        <3> QED BY <3>1 DEF DealMoves
    <2>2. \/ pc' = "top" /\ refreshIn' = 0
          \/ pc' = "dead"
          \/ pc' = "waiting" /\ disturbed'
        BY <1>14 DEF DealEnds, DealFails, DealLimited
    <2> QED BY <2>1, <2>2
<1>15. CASE Stuck \/ Crash
    <2>1. Append(lost, order) \in Seq(Nat) OBVIOUS
    <2>2. order' = 0 /\ lost' \in {lost, Append(lost, order)}
        BY <1>15 DEF Stuck, Crash, Dropped, InDoubt
    <2>3. /\ pc' = "dead" \/ (pc' = "top" /\ disturbed')
          /\ UNCHANGED <<bnb, usdc, due, known, active, refreshIn>>
        BY <1>15 DEF Stuck, Crash
    <2>4. order' \in Nat /\ lost' \in Seq(Nat) BY <2>1, <2>2
    <2> QED BY <2>3, <2>4
<1>16. CASE Restart BY <1>16 DEF Restart
<1>17. CASE Operator BY <1>17 DEF Operator
<1>18. CASE Tick \/ SpentElsewhere
    <2>1. CASE Tick BY <2>1 DEF Tick, Less
    <2>2. CASE SpentElsewhere
        <3>1. /\ bnb' \in Nat /\ disturbed'
              /\ UNCHANGED <<usdc, order, lost, pc, due, known, refreshIn>>
            BY <2>2 DEF SpentElsewhere
        <3> QED BY <3>1
    <2> QED BY <1>18, <2>1, <2>2
<1>19. CASE Land
    <2>1. UNCHANGED <<order, pc, due, known, active, refreshIn, disturbed>>
        BY <1>19 DEF Land
    <2>2. lost' \in Seq(Nat) /\ bnb' \in Nat /\ usdc' \in Int /\ bnb <= bnb'
        BY <1>19, LandedIsNat
    <2> QED BY <2>1, <2>2
<1>20. CASE UNCHANGED vars BY <1>20 DEF vars
<1> QED BY <1>1, <1>2, <1>3, <1>4, <1>5, <1>6, <1>7, <1>8, <1>9, <1>10, <1>11, <1>12, <1>13,
           <1>14, <1>15, <1>16, <1>17, <1>18, <1>19, <1>20 DEF Next, Loop

-----------------------------------------------------------------------------
\* A deal begins next to no active record and, with rebalancing on, with the reserve at its
\* floor unless, since it was looked at, maintenance or a deal's recovery raised or BNB was
\* spent elsewhere (README.md:183, app.py, main's gate).
THEOREM EntriesAreChecked == Spec => EntryWithReserve
<1>1. Recorded /\ (rebalancing => Flagged) /\ [Next]_vars => [EntryChecked]_vars
    BY DEF Recorded, Flagged, EntryChecked
<1>2. Init => Recorded /\ (rebalancing => Flagged) BY RecordedHolds, FlaggedHolds
<1>3. Recorded /\ (rebalancing => Flagged) /\ [Next]_vars
          => (Recorded /\ (rebalancing => Flagged))'
    <2>1. [Next]_vars => UNCHANGED rebalancing BY DEF Next, vars
    <2> QED BY <2>1, RecordedStep, FlaggedStep
<1> QED BY <1>1, <1>2, <1>3, PTL DEF Spec, EntryWithReserve

-----------------------------------------------------------------------------
(* The reserve.                                                             *)

\* An order is for what the reserve lacks, or the least purchase on top of less than the
\* floor; from the reading of the balances on, the account has no more than was read, but
\* for orders in doubt that were executed since.
Bought ==
    /\ bnb \in Nat /\ order \in Nat /\ order <= Cap /\ faults \in Nat /\ usdc \in Int
    /\ known.bnb \in Nat /\ known.usdc \in Int
    /\ lost \in Seq(Nat) /\ Len(lost) <= faults
    /\ pc \notin {"restore", "buying"} => order = 0
    /\ pc = "restore" => rebalancing
    /\ pc = "buying" => ~rebalancing
    /\ pc \in {"maintain", "reserve"} /\ due.refresh =>
         bnb + Cap * Len(lost) <= known.bnb + Cap * faults
    /\ ReserveBounded

LEMMA CapIsNat ==
    /\ Cap \in Nat /\ Target <= Cap
    /\ rebalancing /\ bnb \in Nat /\ bnb < Floor => Lack \in Nat /\ bnb + Lack <= Cap
BY LoopAssumption DEF Cap, Lack, Bigger

LEMMA CapKept == ASSUME UNCHANGED rebalancing PROVE Cap' = Cap
BY DEF Cap, Bigger

LEMMA BoughtInit == Init => Bought
BY LoopAssumption, CapIsNat DEF Init, Bought, ReserveBounded, account

LEMMA OneMore ==
    ASSUME NEW c \in Nat, NEW k \in Nat
    PROVE  c * k \in Nat /\ c * (k + 1) = c * k + c /\ c * (1 + k) = c * k + c
OBVIOUS

LEMMA More == ASSUME NEW c \in Nat, NEW k \in Nat, NEW m \in Nat, k <= m PROVE c * k <= c * m
<1>1. c * (m - k) \in Nat /\ c * m = c * k + c * (m - k) OBVIOUS
<1>2. c * k \in Nat BY OneMore
<1> QED BY <1>1, <1>2

\* What neither places an order nor puts one in doubt, and makes the account no richer where
\* it matters.
LEMMA KeepsBought ==
    ASSUME Bought, UNCHANGED <<rebalancing, lost, known>>, faults' \in {faults, faults + 1},
           usdc' \in Int, bnb' \in Nat,
           pc' \in {"restore", "buying"} => pc' = pc,
           order' = 0 \/ (order' = order /\ bnb' <= bnb /\ pc' = pc),
           pc' \in {"maintain", "reserve"} /\ due'.refresh =>
               due' = due /\ pc \in {"maintain", "reserve"} /\ bnb' <= bnb
    PROVE  Bought'
<1>1. Cap \in Nat /\ bnb \in Nat /\ order \in Nat /\ known.bnb \in Nat
    BY CapIsNat DEF Bought
<1>2. faults \in Nat /\ Len(lost) \in Nat /\ faults' \in Nat /\ faults <= faults'
    BY DEF Bought
<1>3. PICK c \in Nat, t \in Nat, f \in Nat, g \in Nat :
          c = Cap /\ t = Cap * Len(lost) /\ f = Cap * faults /\ g = Cap * faults'
    BY <1>1, <1>2, OneMore
<1>4. f <= g BY <1>1, <1>2, <1>3, More
<1>5. Cap * (1 + faults) = f + c /\ Cap * (1 + faults') = g + c
    BY <1>1, <1>2, <1>3, OneMore
<1>6. Cap' = Cap BY CapKept
<1>7. order' > 0 => bnb' + order' + t <= g + c
    <2>1. PICK x \in Nat : x = bnb' OBVIOUS
    <2>2. ASSUME order' > 0 PROVE x + order + t <= g + c /\ order' = order
        <3>1. order' = order /\ x <= bnb BY <2>1, <2>2
        <3>2. bnb + order + t <= f + c BY <1>3, <1>5, <2>2, <3>1 DEF Bought, ReserveBounded
        <3>3. x + order + t <= g + c
            BY ONLY <1>1, <1>4, <3>1, <3>2, x \in Nat, c \in Nat, t \in Nat, f \in Nat, g \in Nat
        <3> QED BY <3>1, <3>3
    <2> QED BY <2>1, <2>2
<1>8. ReserveBounded'
    <2>1. lost' = lost OBVIOUS
    <2> QED BY <1>3, <1>5, <1>6, <1>7, <2>1 DEF Bought, ReserveBounded
<1>9. ASSUME pc' \in {"maintain", "reserve"}, due'.refresh
      PROVE  bnb' + t <= known.bnb + g
    <2>1. PICK x \in Nat : x = bnb' OBVIOUS
    <2>2. x <= bnb /\ bnb + t <= known.bnb + f BY <1>3, <1>9, <2>1 DEF Bought
    <2>3. x + t <= known.bnb + g
        BY ONLY <1>1, <1>4, <2>2, x \in Nat, t \in Nat, f \in Nat, g \in Nat
    <2> QED BY <2>1, <2>3
<1>10. order' \in Nat /\ order' <= Cap BY <1>1 DEF Bought
<1> QED BY <1>1, <1>2, <1>3, <1>6, <1>8, <1>9, <1>10 DEF Bought

LEMMA BuyKeeps == ASSUME Bought, Buy, UNCHANGED rebalancing PROVE Bought'
<1> DEFINE T == Cap * Len(lost)
           F == Cap * faults
<1>1. /\ pc = "reserve" /\ pc' = "buying" /\ due.refresh /\ order' = Budget /\ Budget > 0
      /\ ~rebalancing /\ UNCHANGED <<bnb, usdc, lost, known, faults>>
    BY DEF Buy, Goto, SetFlag
<1>2. /\ Target \in Nat /\ bnb \in Nat /\ known.bnb \in Nat /\ known.usdc \in Int
      /\ Cap \in Nat /\ Target <= Cap /\ faults \in Nat /\ Len(lost) \in Nat
    BY LoopAssumption, CapIsNat DEF Bought
<1>3. Budget \in Nat /\ Budget <= Target - known.bnb BY <1>1, <1>2 DEF Budget, Smaller
<1>4. T \in Nat /\ F \in Nat BY <1>2, OneMore
<1>5. bnb + T <= known.bnb + F BY <1>1 DEF Bought
<1>6. bnb + Budget + T <= F + Cap /\ Budget <= Cap
    <2> HIDE DEF T, F
    <2> QED BY <1>2, <1>3, <1>4, <1>5
<1>7. Cap * (1 + faults) = F + Cap /\ Cap' = Cap BY <1>2, OneMore, CapKept
<1>8. ReserveBounded' BY <1>1, <1>6, <1>7 DEF Bought, ReserveBounded
<1> QED BY <1>1, <1>2, <1>3, <1>6, <1>7, <1>8 DEF Bought

LEMMA RunKeeps == ASSUME Bought, Run, UNCHANGED rebalancing PROVE Bought'
<1> DEFINE T == Cap * Len(lost)
           F == Cap * faults
<1>1. /\ rebalancing /\ pc' \in {"restore", "convert"} /\ (order' # 0 => pc' = "restore")
      /\ UNCHANGED <<bnb, usdc, lost, known, faults>>
      /\ order' = 0 \/ (bnb < Floor /\ order' = Lack)
    BY DEF Run, Checked, Goto, view
<1>2. /\ bnb \in Nat /\ Cap \in Nat /\ faults \in Nat /\ Len(lost) \in Nat /\ Len(lost) <= faults
    BY CapIsNat DEF Bought
<1>3. order' \in Nat /\ (order' > 0 => bnb + order' <= Cap) /\ order' <= Cap
    <2>1. CASE order' = 0 BY <1>2, <2>1
    <2>2. CASE bnb < Floor /\ order' = Lack
        <3>1. Lack \in Nat /\ bnb + Lack <= Cap BY <1>1, <1>2, <2>2, CapIsNat
        <3> QED BY <1>2, <2>2, <3>1
    <2> QED BY <1>1, <2>1, <2>2
<1>4. T \in Nat /\ F \in Nat /\ T <= F BY <1>2, OneMore, More
<1>5. order' > 0 => bnb + order' + T <= F + Cap
    <2> HIDE DEF T, F
    <2>1. PICK n \in Nat : n = order' BY <1>3
    <2>2. n > 0 => bnb + n <= Cap BY <1>3, <2>1
    <2>3. bnb \in Nat /\ Cap \in Nat /\ T \in Nat /\ F \in Nat /\ T <= F BY <1>2, <1>4
    <2>4. n > 0 => bnb + n + T <= F + Cap BY ONLY <2>2, <2>3, n \in Nat
    <2> QED BY <2>1, <2>4
<1>6. Cap * (1 + faults) = F + Cap /\ Cap' = Cap BY <1>2, OneMore, CapKept
<1>7. ReserveBounded' BY <1>1, <1>5, <1>6 DEF Bought, ReserveBounded
<1> QED BY <1>1, <1>2, <1>3, <1>6, <1>7 DEF Bought

\* An order in doubt is one more that may be executed, and a fault.
LEMMA DoubtKeeps ==
    ASSUME Bought, InDoubt, Fault, UNCHANGED <<rebalancing, bnb, usdc, known>>,
           pc' \in {"top", "dead"}
    PROVE  Bought'
<1>1. /\ faults \in Nat /\ Len(lost) \in Nat /\ order \in Nat /\ order <= Cap /\ Cap' = Cap
    BY CapKept DEF Bought
<1>2. order' = 0 /\ lost' = Append(lost, order) /\ faults' = faults + 1
    BY DEF InDoubt, Fault
<1>3. /\ lost' \in Seq(Nat) /\ Len(lost') = Len(lost) + 1
      /\ \A i \in DOMAIN lost' : lost'[i] = order \/ (i \in DOMAIN lost /\ lost'[i] = lost[i])
    BY <1>1, <1>2 DEF Bought
<1>4. ReserveBounded' BY <1>1, <1>2, <1>3 DEF Bought, ReserveBounded
<1> QED BY <1>1, <1>2, <1>3, <1>4, CapIsNat DEF Bought

LEMMA LandKeeps == ASSUME Bought, Land, UNCHANGED rebalancing PROVE Bought'
<1>1. /\ lost # <<>> /\ lost' = Tail(lost) /\ UNCHANGED <<order, pc, due, known, faults>>
      /\ usdc' \in Int
      /\ \/ bnb' = bnb + Head(lost)
         \/ bnb' = bnb
    BY DEF Land, view, Bought
<1>2. Cap \in Nat /\ faults \in Nat /\ Len(lost) \in Nat /\ bnb \in Nat /\ order \in Nat
      /\ known.bnb \in Nat /\ Cap' = Cap
    BY CapIsNat, CapKept DEF Bought
<1>3. /\ lost' \in Seq(Nat) /\ Len(lost') = Len(lost) - 1 /\ Len(lost') \in Nat
      /\ \A i \in DOMAIN lost' : i + 1 \in DOMAIN lost /\ lost'[i] = lost[i + 1]
      /\ Head(lost) \in Nat /\ Head(lost) <= Cap
    BY <1>1, <1>2 DEF Bought, ReserveBounded
<1>4. PICK c \in Nat, t \in Nat, u \in Nat, f \in Nat, g \in Nat :
          /\ c = Cap /\ t = Cap * Len(lost) /\ u = Cap * Len(lost')
          /\ f = Cap * faults /\ g = Cap * (1 + faults)
    <2>1. /\ Cap * Len(lost) \in Nat /\ Cap * Len(lost') \in Nat
          /\ Cap * faults \in Nat /\ Cap * (1 + faults) \in Nat
        <3>1. \A k \in Nat : Cap * k \in Nat BY <1>2, OneMore
        <3>2. 1 + faults \in Nat BY <1>2
        <3> QED BY <1>2, <1>3, <3>1, <3>2
    <2> QED BY <1>2, <2>1
<1>5. t = u + c BY <1>2, <1>3, <1>4, OneMore
<1>6. PICK x \in Nat : x = bnb' /\ x <= bnb + c
    <2>1. CASE bnb' = bnb BY <1>2, <1>4, <2>1
    <2>2. CASE bnb' = bnb + Head(lost)
        <3>1. bnb + Head(lost) \in Nat /\ bnb + Head(lost) <= bnb + c BY <1>2, <1>3, <1>4
        <3> QED BY <2>2, <3>1
    <2> QED BY <1>1, <2>1, <2>2
<1>7. order > 0 => bnb' + order + u <= g
    <2>1. ASSUME order > 0 PROVE x + order + u <= g
        <3>1. bnb + order + t <= g BY <1>4, <2>1 DEF Bought, ReserveBounded
        <3>2. bnb \in Nat /\ order \in Nat /\ x <= bnb + c BY <1>2, <1>6
        <3> QED BY ONLY <1>5, <3>1, <3>2, x \in Nat, c \in Nat, t \in Nat, u \in Nat, g \in Nat
    <2> QED BY <1>6, <2>1
<1>8. ASSUME pc \in {"maintain", "reserve"}, due.refresh
      PROVE  bnb' + u <= known.bnb + f
    <2>1. bnb + t <= known.bnb + f BY <1>4, <1>8 DEF Bought
    <2>2. x + u <= known.bnb + f
        BY ONLY <1>2, <1>5, <1>6, <2>1, x \in Nat, c \in Nat, t \in Nat, u \in Nat, f \in Nat
    <2> QED BY <1>6, <2>2
<1>9. ReserveBounded' BY <1>1, <1>2, <1>3, <1>4, <1>7 DEF Bought, ReserveBounded
<1> QED BY <1>1, <1>2, <1>3, <1>4, <1>6, <1>8, <1>9 DEF Bought

LEMMA RefreshKeeps == ASSUME Bought, Refresh \/ Restart, UNCHANGED rebalancing PROVE Bought'
<1>1. /\ known' = [bnb |-> bnb, usdc |-> usdc] /\ pc \notin {"restore", "buying"}
      /\ pc' \in {"maintain", "top"} /\ UNCHANGED <<bnb, usdc, order, lost, faults>>
    BY DEF Refresh, Restart, Goto, account
<1>2. /\ Cap \in Nat /\ faults \in Nat /\ Len(lost) \in Nat /\ Len(lost) <= faults
      /\ Cap' = Cap /\ order = 0 /\ bnb \in Nat
    BY <1>1, CapIsNat, CapKept DEF Bought
<1>3. PICK t \in Nat, f \in Nat : t = Cap * Len(lost) /\ f = Cap * faults BY <1>2, OneMore
<1>4. t <= f BY <1>2, <1>3, More
<1>5. bnb + t <= bnb + f BY <1>2, <1>4
<1>6. ReserveBounded' BY <1>1, <1>2 DEF Bought, ReserveBounded
<1> QED BY <1>1, <1>2, <1>3, <1>5, <1>6 DEF Bought

LEMMA BoughtStep == Bought /\ [Next]_vars => Bought'
<1> SUFFICES ASSUME Bought, [Next]_vars PROVE Bought'
    OBVIOUS
<1> USE LoopAssumption DEF account, outside, timers, view, Goto
<1>1. UNCHANGED rebalancing BY DEF Next, vars
<1>2. CASE Buy BY <1>1, <1>2, BuyKeeps
<1>3. CASE Run BY <1>1, <1>3, RunKeeps
<1>4. CASE AnswerLost BY <1>1, <1>4, DoubtKeeps DEF AnswerLost
<1>5. CASE Land BY <1>1, <1>5, LandKeeps
<1>6. CASE Refresh \/ Restart BY <1>1, <1>6, RefreshKeeps
<1>7. /\ bnb \in Nat /\ order \in Nat /\ usdc \in Int
      /\ pc \notin {"restore", "buying"} => order = 0
    BY DEF Bought
<1>8. CASE Top \/ Seed \/ Limited \/ WaitOver
    BY <1>1, <1>7, <1>8, KeepsBought DEF Top, Seed, Limited, WaitOver
<1>9. CASE NoCheck \/ NotDue \/ RunFails
    BY <1>1, <1>7, <1>9, KeepsBought DEF NoCheck, NotDue, RunFails
<1>10. ASSUME NEW fee \in 0..(Target + Minimum), Restore(fee) PROVE Bought'
    <2>1. pc' = "restored" /\ order' = 0 /\ UNCHANGED <<lost, known, faults>>
        BY <1>10 DEF Restore
    <2>2. bnb' \in Nat /\ usdc' \in Int BY <1>7, <1>10, RestoredIsNat
    <2> QED BY <1>1, <2>1, <2>2, KeepsBought
<1>11. CASE Convert \/ Restored BY <1>1, <1>7, <1>11, KeepsBought DEF Convert, Restored
<1>12. CASE Return \/ RunLimited
    BY <1>1, <1>7, <1>12, KeepsBought DEF Return, RunLimited, Running, Dropped
<1>13. CASE Stuck
    <2>1. CASE Dropped BY <1>1, <1>7, <1>13, <2>1, KeepsBought DEF Stuck, Dropped, Fault
    <2>2. CASE InDoubt BY <1>1, <1>13, <2>2, DoubtKeeps DEF Stuck
    <2> QED BY <1>13, <2>1, <2>2 DEF Stuck
<1>14. CASE KeepFlag \/ FlagOnly \/ ReserveShort
    BY <1>1, <1>7, <1>14, KeepsBought DEF KeepFlag, FlagOnly, ReserveShort, Gate, SetFlag
<1>15. CASE BuyFills \/ BuyRefused
    BY <1>1, <1>7, <1>15, KeepsBought DEF BuyFills, BuyRefused, Dropped
<1>16. CASE NoDeal \/ BeginDeal BY <1>1, <1>7, <1>16, KeepsBought DEF NoDeal, BeginDeal
<1>17. CASE DealEnds \/ DealFails \/ DealLimited
    BY <1>1, <1>7, <1>17, KeepsBought DEF DealEnds, DealFails, DealLimited, DealMoves
<1>18. CASE Crash
    <2>1. CASE Dropped BY <1>1, <1>7, <1>18, <2>1, KeepsBought DEF Crash, Dropped, Fault
    <2>2. CASE InDoubt BY <1>1, <1>18, <2>2, DoubtKeeps DEF Crash
    <2> QED BY <1>18, <2>1, <2>2 DEF Crash
<1>19. CASE Operator BY <1>1, <1>7, <1>19, KeepsBought DEF Operator
<1>20. CASE Tick \/ SpentElsewhere
    BY <1>1, <1>7, <1>20, KeepsBought DEF Tick, SpentElsewhere
<1>21. CASE UNCHANGED vars
    <2>1. Cap' = Cap BY <1>1, CapKept
    <2> QED BY <1>21, <2>1 DEF vars, Bought, ReserveBounded
<1> QED BY <1>2, <1>3, <1>4, <1>5, <1>6, <1>8, <1>9, <1>10, <1>11, <1>12, <1>13, <1>14, <1>15,
           <1>16, <1>17, <1>18, <1>19, <1>20, <1>21 DEF Next, Loop

\* Whoever buys the reserve, it comes with the orders under way and in doubt to no more than
\* one purchase may make of it, and as much again for every lost answer and crash (app.py,
\* maintain_bnb_fee_reserve; rebalance.py, run).
THEOREM ReserveIsBounded == Spec => []ReserveBounded
<1>1. Bought => ReserveBounded BY DEF Bought
<1> QED BY <1>1, BoughtInit, BoughtStep, PTL DEF Spec
=============================================================================
