-------------------------- MODULE EventEngineProofs --------------------------
(***************************************************************************)
(* Theorems about EventEngine, for every policy, latency, risk block and   *)
(* stream of ticks.                                                        *)
(*                                                                         *)
(* The inductive invariant orders what the engine remembers in time: the   *)
(* records of closed and refused orders lie before the order that is held  *)
(* or waits, which lies before the next bar boundary; the cooldown bar is  *)
(* the farthest reach of a closed trade; and the clock, the phase and the  *)
(* next boundary agree on which bars are complete.                         *)
(***************************************************************************)
EXTENDS EventEngine, SequenceTheorems, FoldLemmas, TLAPS

\* Which bars the ticks have completed, and what may wait for the next tick.
ClockAgrees ==
  /\ next_bar > 0 => ts >= CloseAt(next_bar - 1)
  /\ phase = "signal" => BarDue
  /\ phase = "idle" => ~BarDue
  /\ phase = "idle" /\ pending # NoOrder => ts < pending.from

\* An order waits alone, for a bar that is complete and rested.
OrderIsPast ==
  pending # NoOrder =>
    /\ pos = NoPosition
    /\ pending.signal < next_bar /\ pending.signal < NBars - 1
    /\ \A t \in Range(trades) : pending.signal >= t.exit + Cooldown

\* A position is held alone, after every cooldown, and no longer than MaxBars
\* unless it was filled late.
PositionIsAged ==
  pos # NoPosition =>
    /\ pending = NoOrder
    /\ 1 <= pos.entry /\ pos.entry <= next_bar /\ pos.since <= next_bar
    /\ next_bar - pos.entry <= MaxBars \/ next_bar = pos.since
    /\ phase = "signal" => next_bar - pos.entry < MaxBars
    /\ \A t \in Range(trades) : pos.entry - 1 >= t.exit + Cooldown

\* cooldown_until is the latest bar to which a closed trade reaches.
CooldownCovers ==
  /\ \A t \in Range(trades) : t.exit + Cooldown <= cooldown_until /\ t.entry <= next_bar
  /\ cooldown_until # -1 => \E t \in Range(trades) : t.exit + Cooldown = cooldown_until

\* The records precede what is open, and everything the next boundary.
RecordsArePast ==
  /\ \A x \in Traded \cup Refused : \A y \in Holding \cup Waiting : x < y
  /\ \A x \in placed : x < next_bar

IInv ==
  /\ EventTypeOK
  /\ ClockAgrees
  /\ OrderIsPast
  /\ PositionIsAged
  /\ CooldownCovers
  /\ RecordsArePast
  /\ OrdersAreAccounted
  /\ SignalsAreNotLost
  /\ TradesAreTimely
-----------------------------------------------------------------------------
LEMMA Constants ==
  /\ NBars \in Int /\ NBars >= 1
  /\ MaxBars \in Int /\ MaxBars >= 1
  /\ Cooldown \in Int /\ Cooldown >= 0
  /\ Bars = 0 .. NBars - 1
  /\ BarSpan \in Int /\ BarSpan >= 1
  /\ Latencies \subseteq Nat
  /\ Fee \in Int /\ Funding \in [Directions -> Int] /\ Gross \subseteq Int
BY HistoryAssumption, RiskAssumption, StreamAssumption, MoneyAssumption DEF Bars

LEMMA Absent ==
  /\ NoPosition \notin Positions /\ NoOrder \notin Orders
  /\ NoPosition.costs = 0
BY DEF NoPosition, Positions, NoOrder, Orders, Directions

LEMMA WantedType ==
  ASSUME NEW row PROVE Wanted(row) \in Directions \cup {"none"}
BY DEF Wanted, Directions

LEMMA CloseType == ASSUME NEW b \in Int PROVE CloseAt(b) \in Int
BY Constants DEF CloseAt

\* Later bars close later.
LEMMA CloseMonotone ==
  ASSUME NEW a \in Int, NEW b \in Int, a <= b PROVE CloseAt(a) <= CloseAt(b)
<1> DEFINE d == b - a
<1>1. d \in Nat /\ b + 1 = (a + 1) + d
  OBVIOUS
<1>2. d * BarSpan >= 0
  BY <1>1, Constants
<1> HIDE DEF d
<1>3. ((a + 1) + d) * BarSpan = (a + 1) * BarSpan + d * BarSpan
  BY <1>1, Constants
<1> QED BY <1>1, <1>2, <1>3, Constants DEF CloseAt

LEMMA FirstClose == CloseAt(0) >= 1
BY Constants DEF CloseAt

\* A sequence with one more element.
LEMMA Appended ==
  ASSUME NEW S, NEW s \in Seq(S), NEW e \in S
  PROVE  /\ Append(s, e) \in Seq(S)
         /\ Len(s) \in Nat /\ DOMAIN s = 1 .. Len(s)
         /\ DOMAIN Append(s, e) = 1 .. Len(s) + 1
         /\ Append(s, e)[Len(s) + 1] = e
         /\ \A k \in DOMAIN s : Append(s, e)[k] = s[k]
         /\ Range(Append(s, e)) = Range(s) \cup {e}
<1>1. /\ Append(s, e) \in Seq(S) /\ Len(s) \in Nat /\ DOMAIN s = 1 .. Len(s)
      /\ DOMAIN Append(s, e) = 1 .. Len(s) + 1
      /\ Append(s, e)[Len(s) + 1] = e
      /\ \A k \in DOMAIN s : Append(s, e)[k] = s[k]
  OBVIOUS
<1>2. Range(Append(s, e)) \subseteq Range(s) \cup {e}
  <2> SUFFICES ASSUME NEW k \in 1 .. Len(s) + 1
               PROVE  Append(s, e)[k] \in Range(s) \cup {e}
    BY <1>1 DEF Range
  <2> QED BY <1>1 DEF Range
<1>3. \A k \in DOMAIN s : s[k] \in Range(Append(s, e))
  BY <1>1 DEF Range
<1>4. e \in Range(Append(s, e))
  BY <1>1 DEF Range
<1> QED BY <1>1, <1>2, <1>3, <1>4 DEF Range

LEMMA RangeTyped == ASSUME NEW S, NEW s \in Seq(S) PROVE Range(s) \subseteq S
BY DEF Range

LEMMA EmptyRange == Range(<< >>) = {}
BY DEF Range

\* What the type invariant says of numbers, for the arithmetic below.
LEMMA Numbers ==
  ASSUME EventTypeOK
  PROVE  /\ ts \in Int /\ next_bar \in Int /\ 0 <= next_bar /\ next_bar <= NBars
         /\ latency \in Nat /\ cooldown_until \in Int /\ cash \in Int
         /\ pos # NoPosition => /\ pos \in Positions
                                /\ pos.entry \in Int /\ 0 <= pos.entry /\ pos.entry <= NBars - 1
                                /\ pos.since \in Int /\ pos.costs \in Int
                                /\ pos.direction \in Directions
         /\ pending # NoOrder => /\ pending \in Orders
                                 /\ pending.signal \in Int /\ 0 <= pending.signal
                                 /\ pending.signal \in Bars
                                 /\ pending.from \in Int /\ pending.direction \in Directions
         /\ \A t \in Range(trades) : t \in Trades /\ t.entry \in Int /\ t.exit \in Int
         /\ \A s \in Range(skipped) : s \in Skips /\ s.bar \in Int
<1>1. Range(trades) \subseteq Trades /\ Range(skipped) \subseteq Skips
  BY RangeTyped DEF EventTypeOK
<1> QED BY <1>1, Constants DEF EventTypeOK, Positions, Orders, Trades, Skips, NoTick

-----------------------------------------------------------------------------
LEMMA InitIInv == EventInit => IInv
<1> SUFFICES ASSUME EventInit PROVE IInv
  OBVIOUS
<1> USE DEF EventInit
<1>1. EventTypeOK
  BY Constants DEF EventTypeOK
<1>2. ClockAgrees
  BY FirstClose, CloseType DEF ClockAgrees, BarDue, NoTick
<1>3. OrderIsPast /\ PositionIsAged /\ CooldownCovers
  BY EmptyRange DEF OrderIsPast, PositionIsAged, CooldownCovers
<1>4. Traded = {} /\ Refused = {} /\ Holding = {} /\ Waiting = {}
  BY EmptyRange DEF Traded, Refused, Holding, Waiting
<1>5. RecordsArePast /\ OrdersAreAccounted /\ SignalsAreNotLost /\ TradesAreTimely
  BY <1>4, EmptyRange DEF RecordsArePast, OrdersAreAccounted, SignalsAreNotLost, TradesAreTimely
<1> QED BY <1>1, <1>2, <1>3, <1>5 DEF IInv

-----------------------------------------------------------------------------
\* A step that leaves the records, the order and the bars of the position
\* alone keeps all that is said of them.
LEMMA BooksKept ==
  ASSUME IInv,
         UNCHANGED << policy, next_bar, pending, cooldown_until, trades, skipped, placed >>,
         \/ pos' = pos
         \/ /\ pos # NoPosition /\ pos' # NoPosition
            /\ pos'.entry = pos.entry /\ pos'.since = pos.since
  PROVE  /\ OrderIsPast' /\ CooldownCovers' /\ RecordsArePast'
         /\ OrdersAreAccounted' /\ SignalsAreNotLost' /\ TradesAreTimely'
         /\ (phase' = "signal" /\ pos' # NoPosition => next_bar - pos.entry < MaxBars)
              => PositionIsAged'
<1>1. /\ Traded' = Traded /\ Refused' = Refused /\ Waiting' = Waiting
      /\ Holding' = Holding
      /\ pos' = NoPosition <=> pos = NoPosition
  <2>1. Holding' = Holding
    BY DEF Holding
  <2> QED BY <2>1 DEF Traded, Refused, Waiting
<1>2. OrderIsPast' /\ CooldownCovers'
  BY <1>1 DEF IInv, OrderIsPast, CooldownCovers
<1>3. RecordsArePast' /\ OrdersAreAccounted'
  BY <1>1 DEF IInv, RecordsArePast, OrdersAreAccounted
<1>4. SignalsAreNotLost'
  BY <1>1 DEF IInv, SignalsAreNotLost, InTheWayOf
<1>5. TradesAreTimely'
  BY <1>1 DEF IInv, TradesAreTimely
<1>6. ASSUME phase' = "signal" /\ pos' # NoPosition => next_bar - pos.entry < MaxBars
      PROVE  PositionIsAged'
  BY <1>1, <1>6 DEF IInv, PositionIsAged
<1> QED BY <1>2, <1>3, <1>4, <1>5, <1>6

LEMMA TickIInv == ASSUME IInv, NEW t \in 0 .. Horizon, Tick(t) PROVE IInv'
<1>1. /\ phase = "idle" /\ t >= ts /\ ts' = t /\ phase' = "resting"
      /\ UNCHANGED << policy, latency, next_bar, pos, pending, cooldown_until, cash, trades, skipped, placed >>
  BY DEF Tick
<1>2. EventTypeOK'
  BY <1>1, StreamAssumption DEF IInv, EventTypeOK
<1>3. ClockAgrees'
  <2>1. CloseAt(next_bar - 1) \in Int
    BY CloseType, Numbers DEF IInv
  <2> QED BY <1>1, <2>1, Numbers, StreamAssumption DEF IInv, ClockAgrees, CloseAt
<1> QED BY <1>1, <1>2, <1>3, BooksKept DEF IInv

\* Trying the pending order, before or after the bars: afterwards it waits for
\* a later tick, if it waits.
LEMMA TriedClock ==
  ASSUME IInv, Tried, UNCHANGED << ts, next_bar >>,
         pending' # NoOrder => pending' = pending /\ ts < pending.from
  PROVE  ClockAgrees' /\ phase' \in {"age", "idle"}
<1>1. phase' = "age" \/ (phase' = "idle" /\ ~BarDue)
  BY DEF Tried
<1>2. BarDue' <=> BarDue
  BY DEF BarDue, CloseAt
<1>3. next_bar > 0 => ts' >= CloseAt(next_bar - 1)
  BY DEF IInv, ClockAgrees
<1> QED BY <1>1, <1>2, <1>3 DEF ClockAgrees, CloseAt

LEMMA NotExecutableIInv == ASSUME IInv, NotExecutable PROVE IInv'
<1>1. /\ ~Executable /\ Tried
      /\ UNCHANGED << policy, latency, ts, next_bar, pos, pending, cooldown_until, cash, trades, skipped, placed >>
  BY DEF NotExecutable
<1>2. pending' # NoOrder => pending' = pending /\ ts < pending.from
  <2>1. pending # NoOrder => pos = NoPosition
    BY DEF IInv, OrderIsPast
  <2> QED BY <1>1, <2>1, Numbers DEF IInv, Executable
<1>3. ClockAgrees' /\ phase' \in {"age", "idle"}
  BY <1>1, <1>2, TriedClock
<1>4. EventTypeOK'
  BY <1>1, <1>3 DEF IInv, EventTypeOK
<1> QED BY <1>1, <1>3, <1>4, BooksKept DEF IInv

\* Ageing finds the bar complete and leaves it to its signals.
LEMMA AgingClock == ASSUME IInv, Aging PROVE ClockAgrees' /\ phase' = "signal"
<1>1. phase' = "signal" /\ BarDue /\ UNCHANGED << ts, next_bar >>
  BY DEF Aging
<1> QED BY <1>1 DEF IInv, ClockAgrees, BarDue, CloseAt

LEMMA AgeFlatIInv == ASSUME IInv, AgeFlat PROVE IInv'
<1>1. /\ Aging /\ pos = NoPosition
      /\ UNCHANGED << policy, latency, ts, next_bar, pos, pending, cooldown_until, cash, trades, skipped, placed >>
  BY DEF AgeFlat, Aging
<1>2. ClockAgrees' /\ phase' = "signal"
  BY <1>1, AgingClock
<1>3. EventTypeOK'
  BY <1>1, <1>2 DEF IInv, EventTypeOK
<1> QED BY <1>1, <1>2, <1>3, BooksKept DEF IInv

LEMMA AgeHoldIInv == ASSUME IInv, AgeHold PROVE IInv'
<1>1. /\ Aging /\ pos # NoPosition /\ next_bar - pos.entry < MaxBars
      /\ cash' = cash - FundingDue /\ pos' = [pos EXCEPT !.costs = @ + FundingDue]
      /\ UNCHANGED << policy, latency, ts, next_bar, pending, cooldown_until, trades, skipped, placed >>
  BY DEF AgeHold, Aging, Held
<1>2. ClockAgrees' /\ phase' = "signal"
  BY <1>1, AgingClock
<1>3. FundingDue \in Int /\ pos \in Positions /\ pos.costs \in Int
  BY <1>1, Constants, Numbers DEF IInv, FundingDue
<1>4. pos' \in Positions /\ pos'.entry = pos.entry /\ pos'.since = pos.since
  BY <1>1, <1>3 DEF Positions
<1>5. EventTypeOK'
  <2>1. cash' \in Int
    BY <1>1, <1>3, Numbers DEF IInv
  <2> QED BY <1>1, <1>2, <1>4, <2>1 DEF IInv, EventTypeOK
<1> QED BY <1>1, <1>2, <1>4, <1>5, BooksKept, Absent DEF IInv

-----------------------------------------------------------------------------
\* Closing a position at a bar that is late enough for its trade and not later
\* than the bars whose signals it kept waiting.
LEMMA CloseBooks ==
  ASSUME IInv, pos # NoPosition,
         NEW funding \in Int, NEW b \in Bars,
         NEW reason \in {"stop", "max_bars", "end_of_data"},
         ClosePosition(funding, reason, b),
         UNCHANGED << policy, latency, ts, next_bar, pending, skipped, placed >>,
         phase' \in {"idle", "resting", "market", "age", "signal", "done"},
         b >= pos.entry \/ (b = pos.entry - 1 /\ reason = "end_of_data"),
         b - pos.entry <= MaxBars \/ b <= pos.since,
         \A c \in 0 .. next_bar - 1 :
           c < NBars - 1 => c < b \/ (c = b /\ reason = "end_of_data")
  PROVE  /\ EventTypeOK' /\ OrderIsPast' /\ PositionIsAged' /\ CooldownCovers'
         /\ RecordsArePast' /\ OrdersAreAccounted' /\ SignalsAreNotLost' /\ TradesAreTimely'
         /\ pending' = NoOrder
<1>1. PICK gross \in Gross :
        /\ cash' = cash - funding - Fee + gross
        /\ trades' = Append(trades,
             [direction |-> pos.direction, entry |-> pos.entry, since |-> pos.since,
              exit |-> b, pnl |-> gross - (pos.costs + funding + Fee),
              costs |-> pos.costs + funding + Fee, reason |-> reason])
        /\ cooldown_until' = b + Cooldown
        /\ pos' = NoPosition
  BY DEF ClosePosition
<1> DEFINE e == [direction |-> pos.direction, entry |-> pos.entry, since |-> pos.since,
                 exit |-> b, pnl |-> gross - (pos.costs + funding + Fee),
                 costs |-> pos.costs + funding + Fee, reason |-> reason]
<1>2. /\ pos \in Positions /\ pos.entry \in Int /\ pos.since \in Int /\ pos.costs \in Int
      /\ gross \in Int /\ b \in Int /\ next_bar \in Int
      /\ \A t \in Range(trades) : t \in Trades /\ t.entry \in Int /\ t.exit \in Int
  BY Constants, Numbers DEF IInv
<1>3. /\ e \in Trades /\ e.entry = pos.entry /\ e.since = pos.since /\ e.exit = b
      /\ e.reason = reason
  BY <1>2, Constants DEF Trades, Positions
<1>4. trades' = Append(trades, e) /\ trades \in Seq(Trades)
  BY <1>1 DEF IInv, EventTypeOK
<1> HIDE DEF e
<1>5. /\ trades' \in Seq(Trades) /\ Len(trades) \in Nat
      /\ DOMAIN trades = 1 .. Len(trades) /\ DOMAIN trades' = 1 .. Len(trades) + 1
      /\ trades'[Len(trades) + 1] = e
      /\ \A k \in DOMAIN trades : trades'[k] = trades[k]
      /\ Range(trades') = Range(trades) \cup {e}
  BY <1>3, <1>4, Appended
<1>6. /\ pending = NoOrder /\ 1 <= pos.entry /\ pos.entry <= next_bar
      /\ \A t \in Range(trades) : pos.entry - 1 >= t.exit + Cooldown
  BY DEF IInv, PositionIsAged
<1>7. \A k \in DOMAIN trades : trades[k] \in Range(trades)
  BY DEF Range
<1>8. /\ Traded' = Traded \cup {pos.entry - 1} /\ Refused' = Refused
      /\ Holding = {pos.entry - 1} /\ Holding' = {} /\ Waiting = {} /\ Waiting' = {}
  <2>1. Traded' = Traded \cup {pos.entry - 1}
    BY <1>3, <1>5 DEF Traded
  <2>2. Holding = {pos.entry - 1} /\ Holding' = {}
    BY <1>1 DEF Holding
  <2>3. Waiting = {} /\ Waiting' = {}
    BY <1>6 DEF Waiting
  <2> QED BY <2>1, <2>2, <2>3 DEF Refused
<1>9. \A x \in Traded \cup Refused : x < pos.entry - 1
  BY <1>8 DEF IInv, RecordsArePast
<1>10. EventTypeOK'
  <2>1. cash' \in Int /\ cooldown_until' \in Int
    BY <1>1, <1>2, Constants, Numbers DEF IInv
  <2> QED BY <1>1, <1>5, <2>1 DEF IInv, EventTypeOK
<1>11. OrderIsPast' /\ PositionIsAged'
  BY <1>1, <1>6 DEF OrderIsPast, PositionIsAged
<1>12. CooldownCovers'
  <2>1. \A t \in Range(trades) : t.exit + Cooldown <= b + Cooldown /\ t.entry <= next_bar
    <3>1. \A t \in Range(trades) : t.exit + Cooldown <= b
      BY <1>2, <1>6, Constants
    <3> QED BY <1>2, <3>1, Constants DEF IInv, CooldownCovers
  <2> QED BY <1>1, <1>3, <1>5, <1>6, <2>1 DEF CooldownCovers
<1>13. RecordsArePast'
  BY <1>8 DEF IInv, RecordsArePast
<1>14. OrdersAreAccounted'
  <2>1. placed' = Traded' \cup Refused' \cup Holding' \cup Waiting'
    BY <1>8 DEF IInv, OrdersAreAccounted
  <2>2. pos.entry - 1 \notin Refused
    BY <1>2, <1>9
  <2>3. Traded' \cap Refused' = {}
    BY <1>8, <2>2 DEF IInv, OrdersAreAccounted
  <2>4. \A k \in DOMAIN trades : trades[k].entry < pos.entry
    <3> SUFFICES ASSUME NEW k \in DOMAIN trades PROVE trades[k].entry < pos.entry
      OBVIOUS
    <3>1. trades[k].entry - 1 \in Traded /\ trades[k].entry \in Int
      BY <1>2, <1>7 DEF Traded
    <3> QED BY <1>2, <1>9, <3>1
  <2>5. ASSUME NEW j \in DOMAIN trades', NEW k \in DOMAIN trades', j < k
        PROVE  trades'[j].entry < trades'[k].entry
    <3>1. j \in DOMAIN trades
      BY <1>5, <2>5
    <3>2. CASE k \in DOMAIN trades
      BY <1>5, <2>5, <3>1, <3>2 DEF IInv, OrdersAreAccounted
    <3>3. CASE k = Len(trades) + 1
      BY <1>3, <1>5, <2>4, <3>1, <3>3
    <3> QED BY <1>5, <3>2, <3>3
  <2> QED BY <1>8, <2>1, <2>3, <2>5 DEF IInv, OrdersAreAccounted
<1>15. SignalsAreNotLost'
  <2> SUFFICES ASSUME NEW c \in 0 .. next_bar - 1, c < NBars - 1, Wanted(policy[c]) # "none",
                      c \notin placed
               PROVE  InTheWayOf(c)'
    BY DEF SignalsAreNotLost
  <2>1. c < b \/ (c = b /\ reason = "end_of_data")
    OBVIOUS
  <2>2. InTheWayOf(c)
    BY DEF IInv, SignalsAreNotLost
  <2>3. CASE \E x \in Holding \cup Waiting : x < c
    <3>1. e.entry - 1 < c
      BY <1>3, <1>8, <2>3
    <3>2. c < e.exit + Cooldown \/ (c = e.exit /\ e.reason = "end_of_data")
      BY <1>2, <1>3, <2>1, Constants
    <3> QED BY <1>5, <3>1, <3>2 DEF InTheWayOf
  <2>4. CASE \E s \in Range(skipped) : s.bar < c /\ c < s.since
    BY <2>4 DEF InTheWayOf
  <2>5. CASE \E t \in Range(trades) :
               /\ t.entry - 1 < c
               /\ c < t.exit + Cooldown \/ (c = t.exit /\ t.reason = "end_of_data")
    BY <1>5, <2>5 DEF InTheWayOf
  <2> QED BY <2>2, <2>3, <2>4, <2>5 DEF InTheWayOf
<1>16. TradesAreTimely'
  <2> SUFFICES ASSUME NEW k \in DOMAIN trades'
               PROVE  /\ \/ trades'[k].exit >= trades'[k].entry
                         \/ /\ trades'[k].reason = "end_of_data"
                            /\ trades'[k].exit = trades'[k].entry - 1
                      /\ \/ trades'[k].exit - trades'[k].entry <= MaxBars
                         \/ trades'[k].exit <= trades'[k].since
                      /\ k > 1 => trades'[k].entry - 1 >= trades'[k - 1].exit + Cooldown
    BY <1>1 DEF TradesAreTimely
  <2>1. CASE k \in DOMAIN trades
    <3>1. k > 1 => k - 1 \in DOMAIN trades
      BY <1>5, <2>1
    <3> QED BY <1>5, <2>1, <3>1 DEF IInv, TradesAreTimely
  <2>2. CASE k = Len(trades) + 1
    <3>1. k > 1 => k - 1 \in DOMAIN trades /\ trades'[k - 1] \in Range(trades)
      BY <1>5, <1>7, <2>2
    <3> QED BY <1>3, <1>5, <1>6, <2>2, <3>1
  <2> QED BY <1>5, <2>1, <2>2
<1> QED BY <1>6, <1>10, <1>11, <1>12, <1>13, <1>14, <1>15, <1>16

LEMMA RestingOrderIInv == ASSUME IInv, RestingOrder PROVE IInv'
<1>1. /\ phase' = "market" /\ UNCHANGED << policy, latency, ts, next_bar, pending, skipped, placed >>
  BY DEF RestingOrder
<1>2. CASE UNCHANGED << pos, cooldown_until, cash, trades >>
  <2>1. EventTypeOK'
    BY <1>1, <1>2 DEF IInv, EventTypeOK
  <2>2. ClockAgrees'
    BY <1>1, <1>2 DEF IInv, ClockAgrees, CloseAt
  <2> QED BY <1>1, <1>2, <2>1, <2>2, BooksKept DEF IInv
<1>3. CASE pos # NoPosition /\ ClosePosition(0, "stop", Lesser(next_bar, NBars - 1))
  <2> DEFINE b == Lesser(next_bar, NBars - 1)
  <2>1. /\ next_bar \in Int /\ 0 <= next_bar /\ pos.entry \in Int /\ pos.since \in Int
        /\ pos.entry <= NBars - 1
    BY <1>3, Numbers DEF IInv
  <2>2. /\ b \in Bars /\ b <= next_bar
        /\ \A c \in 0 .. next_bar - 1 : c < NBars - 1 => c < b
    BY <2>1, Constants DEF Lesser
  <2>3. pos.entry <= next_bar /\ (next_bar - pos.entry <= MaxBars \/ next_bar = pos.since)
    BY <1>3 DEF IInv, PositionIsAged
  <2>4. b >= pos.entry
    BY <2>1, <2>3, Constants DEF Lesser
  <2>5. b - pos.entry <= MaxBars \/ b <= pos.since
    BY <2>1, <2>2, <2>3, Constants
  <2> HIDE DEF b
  <2>6. /\ EventTypeOK' /\ OrderIsPast' /\ PositionIsAged' /\ CooldownCovers'
        /\ RecordsArePast' /\ OrdersAreAccounted' /\ SignalsAreNotLost' /\ TradesAreTimely'
    <3>1. ClosePosition(0, "stop", b)
      BY <1>3 DEF b
    <3> QED BY <1>1, <1>3, <2>2, <2>4, <2>5, <3>1, CloseBooks
  <2>7. ClockAgrees'
    BY <1>1 DEF IInv, ClockAgrees, CloseAt
  <2> QED BY <2>6, <2>7 DEF IInv
<1> QED BY <1>2, <1>3 DEF RestingOrder

LEMMA AgeExitIInv == ASSUME IInv, AgeExit PROVE IInv'
<1>1. /\ Aging /\ pos # NoPosition /\ phase = "age" /\ next_bar < NBars
      /\ ClosePosition(FundingDue, "max_bars", next_bar)
      /\ UNCHANGED << policy, latency, ts, next_bar, pending, skipped, placed >>
  BY DEF AgeExit, Aging, BarDue
<1>2. ClockAgrees' /\ phase' = "signal"
  BY <1>1, AgingClock
<1>3. /\ next_bar \in Bars /\ pos.entry \in Int /\ pos.since \in Int /\ FundingDue \in Int
  BY <1>1, Constants, Numbers DEF IInv, FundingDue
<1>4. pos.entry <= next_bar /\ (next_bar - pos.entry <= MaxBars \/ next_bar = pos.since)
  BY <1>1 DEF IInv, PositionIsAged
<1>5. /\ next_bar >= pos.entry
      /\ next_bar - pos.entry <= MaxBars \/ next_bar <= pos.since
      /\ \A c \in 0 .. next_bar - 1 : c < next_bar
  BY <1>3, <1>4, Constants
<1>6. /\ EventTypeOK' /\ OrderIsPast' /\ PositionIsAged' /\ CooldownCovers'
      /\ RecordsArePast' /\ OrdersAreAccounted' /\ SignalsAreNotLost' /\ TradesAreTimely'
  BY <1>1, <1>2, <1>3, <1>5, CloseBooks
<1> QED BY <1>2, <1>6 DEF IInv

LEMMA EndOfStreamIInv == ASSUME IInv, EndOfStream PROVE IInv'
<1>1. /\ phase' = "done" /\ UNCHANGED << policy, latency, ts, next_bar, pending, skipped, placed >>
  BY DEF EndOfStream
<1>2. ClockAgrees'
  BY <1>1 DEF IInv, ClockAgrees, CloseAt
<1>3. CASE pos = NoPosition
  <2>1. UNCHANGED << pos, cooldown_until, cash, trades >>
    BY <1>3 DEF EndOfStream
  <2>2. EventTypeOK'
    BY <1>1, <2>1 DEF IInv, EventTypeOK
  <2> QED BY <1>1, <1>2, <2>1, <2>2, BooksKept DEF IInv
<1>4. CASE pos # NoPosition
  <2>1. ClosePosition(0, "end_of_data", LastBar)
    BY <1>4 DEF EndOfStream
  <2>2. /\ next_bar \in Int /\ next_bar <= NBars /\ pos.entry \in Int /\ pos.since \in Int
    BY <1>4, Numbers DEF IInv
  <2>3. /\ 1 <= pos.entry /\ pos.entry <= next_bar /\ pos.since <= next_bar
        /\ next_bar - pos.entry <= MaxBars \/ next_bar = pos.since
    BY <1>4 DEF IInv, PositionIsAged
  <2>4. LastBar = next_bar - 1
    BY <2>2, Constants DEF LastBar, Lesser
  <2>5. /\ LastBar \in Bars
        /\ LastBar >= pos.entry \/ LastBar = pos.entry - 1
        /\ LastBar - pos.entry <= MaxBars \/ LastBar <= pos.since
        /\ \A c \in 0 .. next_bar - 1 : c < LastBar \/ c = LastBar
    BY <2>2, <2>3, <2>4, Constants
  <2>6. /\ EventTypeOK' /\ OrderIsPast' /\ PositionIsAged' /\ CooldownCovers'
        /\ RecordsArePast' /\ OrdersAreAccounted' /\ SignalsAreNotLost' /\ TradesAreTimely'
    BY <1>1, <1>4, <2>1, <2>5, CloseBooks
  <2> QED BY <1>2, <2>6 DEF IInv
<1> QED BY <1>3, <1>4

-----------------------------------------------------------------------------
\* The order that is tried.
LEMMA TriedOrder ==
  ASSUME IInv, Executable
  PROVE  /\ pos = NoPosition /\ pending # NoOrder /\ pending.signal \in Bars
         /\ pending.signal \in Int /\ pending.direction \in Directions
         /\ pending.signal < next_bar /\ pending.signal < NBars - 1
         /\ Holding = {} /\ Waiting = {pending.signal}
         /\ \A x \in Traded \cup Refused : x < pending.signal
<1>1. pos = NoPosition /\ pending # NoOrder
  BY DEF Executable
<1>2. Holding = {} /\ Waiting = {pending.signal}
  BY <1>1 DEF Holding, Waiting
<1>3. \A x \in Traded \cup Refused : x < pending.signal
  BY <1>2 DEF IInv, RecordsArePast
<1>4. pending.signal < next_bar /\ pending.signal < NBars - 1
  BY <1>1 DEF IInv, OrderIsPast
<1> QED BY <1>1, <1>2, <1>3, <1>4, Numbers DEF IInv

LEMMA RefuseIInv == ASSUME IInv, Refuse PROVE IInv'
<1>1. PICK reason \in {"rejected", "no_lots", "atr_invalid"} :
        skipped' = Append(skipped, [bar |-> pending.signal, direction |-> pending.direction,
                                    since |-> next_bar, reason |-> reason])
  BY DEF Refuse
<1>2. /\ Executable /\ Tried /\ pending' = NoOrder
      /\ UNCHANGED << policy, latency, ts, next_bar, pos, cooldown_until, cash, trades, placed >>
  BY DEF Refuse
<1>3. ClockAgrees' /\ phase' \in {"age", "idle"}
  BY <1>2, TriedClock
<1> DEFINE sig == pending.signal
           e == [bar |-> sig, direction |-> pending.direction, since |-> next_bar,
                 reason |-> reason]
<1>4. /\ pos = NoPosition /\ sig \in Int /\ sig \in Bars /\ pending.direction \in Directions
      /\ Holding = {} /\ Waiting = {sig} /\ \A x \in Traded \cup Refused : x < sig
  BY <1>2, TriedOrder
<1>5. /\ e \in Skips /\ e.bar = sig /\ e.since = next_bar
      /\ skipped' = Append(skipped, e) /\ skipped \in Seq(Skips)
  BY <1>1, <1>4 DEF Skips, IInv, EventTypeOK
<1> HIDE DEF e
<1>6. /\ skipped' \in Seq(Skips) /\ Len(skipped) \in Nat
      /\ DOMAIN skipped = 1 .. Len(skipped) /\ DOMAIN skipped' = 1 .. Len(skipped) + 1
      /\ skipped'[Len(skipped) + 1] = e
      /\ \A k \in DOMAIN skipped : skipped'[k] = skipped[k]
      /\ Range(skipped') = Range(skipped) \cup {e}
  BY <1>5, Appended
<1>7. /\ Refused' = Refused \cup {sig} /\ Traded' = Traded
      /\ Holding' = {} /\ Waiting' = {}
  <2>1. Refused' = Refused \cup {sig}
    BY <1>5, <1>6 DEF Refused
  <2>2. Holding' = {} /\ Waiting' = {}
    BY <1>2, <1>4 DEF Holding, Waiting
  <2> QED BY <1>2, <2>1, <2>2 DEF Traded
<1>8. EventTypeOK'
  BY <1>2, <1>3, <1>6 DEF IInv, EventTypeOK
<1>9. OrderIsPast' /\ PositionIsAged' /\ CooldownCovers'
  BY <1>2, <1>4 DEF IInv, OrderIsPast, PositionIsAged, CooldownCovers
<1>10. RecordsArePast'
  BY <1>2, <1>7 DEF IInv, RecordsArePast
<1>11. OrdersAreAccounted'
  <2>1. placed' = Traded' \cup Refused' \cup Holding' \cup Waiting'
    BY <1>2, <1>4, <1>7 DEF IInv, OrdersAreAccounted
  <2>2. Traded' \cap Refused' = {}
    <3>1. sig \notin Traded
      BY <1>4
    <3> QED BY <1>7, <3>1 DEF IInv, OrdersAreAccounted
  <2>3. \A k \in DOMAIN skipped : skipped[k].bar < sig
    BY <1>4 DEF Refused, Range
  <2>4. ASSUME NEW j \in DOMAIN skipped', NEW k \in DOMAIN skipped', j < k
        PROVE  skipped'[j].bar < skipped'[k].bar
    <3>1. j \in DOMAIN skipped
      BY <1>6, <2>4
    <3>2. CASE k \in DOMAIN skipped
      BY <1>6, <2>4, <3>1, <3>2 DEF IInv, OrdersAreAccounted
    <3>3. CASE k = Len(skipped) + 1
      BY <1>5, <1>6, <2>3, <3>1, <3>3
    <3> QED BY <1>6, <3>2, <3>3
  <2> QED BY <1>2, <1>7, <2>1, <2>2, <2>4 DEF IInv, OrdersAreAccounted
<1>12. SignalsAreNotLost'
  <2> SUFFICES ASSUME NEW c \in 0 .. next_bar - 1, c < NBars - 1, Wanted(policy[c]) # "none",
                      c \notin placed
               PROVE  InTheWayOf(c)'
    BY <1>2 DEF SignalsAreNotLost
  <2>1. InTheWayOf(c)
    BY DEF IInv, SignalsAreNotLost
  <2>2. CASE \E x \in Holding \cup Waiting : x < c
    <3>1. e \in Range(skipped') /\ e.bar < c /\ c < e.since
      BY <1>4, <1>5, <1>6, <2>2, Numbers DEF IInv
    <3> QED BY <3>1 DEF InTheWayOf
  <2>3. CASE ~\E x \in Holding \cup Waiting : x < c
    BY <1>2, <1>6, <2>1, <2>3 DEF InTheWayOf
  <2> QED BY <2>2, <2>3
<1>13. TradesAreTimely'
  BY <1>2 DEF IInv, TradesAreTimely
<1> QED BY <1>3, <1>8, <1>9, <1>10, <1>11, <1>12, <1>13 DEF IInv

LEMMA FillIInv == ASSUME IInv, Fill PROVE IInv'
<1> DEFINE sig == pending.signal
<1>1. /\ Executable /\ Tried /\ pending' = NoOrder /\ cash' = cash - Fee
      /\ pos' = [direction |-> pending.direction, entry |-> Lesser(sig + 1, NBars - 1),
                 since |-> next_bar, costs |-> Fee]
      /\ UNCHANGED << policy, latency, ts, next_bar, cooldown_until, trades, skipped, placed >>
  BY DEF Fill
<1>2. ClockAgrees' /\ phase' \in {"age", "idle"}
  BY <1>1, TriedClock
<1>3. /\ pos = NoPosition /\ pending # NoOrder /\ sig \in Int /\ sig \in Bars
      /\ pending.direction \in Directions /\ sig < next_bar /\ sig < NBars - 1
      /\ Holding = {} /\ Waiting = {sig} /\ \A x \in Traded \cup Refused : x < sig
  BY <1>1, TriedOrder
<1>4. next_bar \in Int /\ next_bar \in 0 .. NBars
  BY Constants, Numbers DEF IInv
<1>5. Lesser(sig + 1, NBars - 1) = sig + 1 /\ sig + 1 \in Bars
  BY <1>3, Constants DEF Lesser
<1>6. /\ pos' \in Positions /\ pos' # NoPosition
      /\ pos'.entry = sig + 1 /\ pos'.since = next_bar
  <2>1. pos' \in Positions /\ pos'.entry = sig + 1 /\ pos'.since = next_bar
    BY <1>1, <1>3, <1>4, <1>5, Constants DEF Positions
  <2> QED BY <2>1, Absent
<1>7. /\ Holding' = {sig} /\ Waiting' = {} /\ Traded' = Traded /\ Refused' = Refused
  <2>1. Holding' = {pos'.entry - 1}
    BY <1>6 DEF Holding
  <2>2. Waiting' = {}
    BY <1>1 DEF Waiting
  <2> QED BY <1>1, <1>3, <1>6, <2>1, <2>2 DEF Traded, Refused
<1>8. EventTypeOK'
  <2>1. cash' \in Int
    BY <1>1, Constants, Numbers DEF IInv
  <2> QED BY <1>1, <1>2, <1>6, <2>1 DEF IInv, EventTypeOK
<1>9. OrderIsPast' /\ CooldownCovers'
  BY <1>1 DEF IInv, OrderIsPast, CooldownCovers
<1>10. /\ \A t \in Range(trades) : pos'.entry - 1 >= t.exit + Cooldown
  BY <1>3, <1>6 DEF IInv, OrderIsPast
<1>11. PositionIsAged'
  BY <1>1, <1>2, <1>3, <1>4, <1>6, <1>10, Numbers DEF IInv, PositionIsAged
<1>12. RecordsArePast'
  BY <1>1, <1>3, <1>7 DEF IInv, RecordsArePast
<1>13. OrdersAreAccounted'
  BY <1>1, <1>3, <1>7 DEF IInv, OrdersAreAccounted
<1>14. SignalsAreNotLost'
  BY <1>1, <1>3, <1>7 DEF IInv, SignalsAreNotLost, InTheWayOf
<1>15. TradesAreTimely'
  BY <1>1, <1>10 DEF IInv, TradesAreTimely
<1> QED BY <1>2, <1>8, <1>9, <1>11, <1>12, <1>13, <1>14, <1>15 DEF IInv

-----------------------------------------------------------------------------
\* A bar whose signal is not followed, although it asks for a trade, has an
\* order before it that stands in its way.
LEMMA RefusedToRead ==
  ASSUME IInv, next_bar < NBars - 1, ~MayRead
  PROVE  InTheWayOf(next_bar)
<1>1. CASE pos # NoPosition
  <2>1. pos.entry - 1 \in Holding
    BY <1>1 DEF Holding
  <2>2. pos.entry - 1 < next_bar
    BY <1>1, Numbers DEF IInv, PositionIsAged
  <2> QED BY <2>1, <2>2 DEF InTheWayOf
<1>2. CASE pending # NoOrder
  <2>1. pending.signal \in Waiting
    BY <1>2 DEF Waiting
  <2>2. pending.signal < next_bar
    BY <1>2 DEF IInv, OrderIsPast
  <2> QED BY <2>1, <2>2 DEF InTheWayOf
<1>3. CASE next_bar < cooldown_until
  <2>1. cooldown_until # -1
    BY <1>3, Numbers DEF IInv
  <2>2. PICK t \in Range(trades) : t.exit + Cooldown = cooldown_until
    BY <2>1 DEF IInv, CooldownCovers
  <2>3. t.entry - 1 < next_bar
    BY Numbers DEF IInv, CooldownCovers
  <2> QED BY <1>3, <2>2, <2>3 DEF InTheWayOf
<1> QED BY <1>1, <1>2, <1>3, Numbers DEF IInv, MayRead

LEMMA ReadSignalIInv == ASSUME IInv, ReadSignal PROVE IInv'
<1>1. /\ phase = "signal" /\ phase' = "age" /\ next_bar' = next_bar + 1
      /\ UNCHANGED << policy, latency, ts, pos, cooldown_until, cash, trades, skipped >>
  BY DEF ReadSignal
<1>2. /\ next_bar \in Int /\ 0 <= next_bar /\ next_bar < NBars /\ next_bar \in Bars
      /\ ts >= CloseAt(next_bar) /\ ts \in Int
  BY <1>1, Constants, Numbers DEF IInv, ClockAgrees, BarDue
<1>3. ts \in Nat
  <2>1. CloseAt(next_bar) >= 1
    BY <1>2, CloseMonotone, FirstClose, CloseType
  <2> QED BY <1>2, <2>1, CloseType
<1>4. ClockAgrees'
  BY <1>1, <1>2 DEF ClockAgrees, CloseAt
<1>5. Traded' = Traded /\ Refused' = Refused /\ Holding' = Holding
  BY <1>1 DEF Traded, Refused, Holding
<1>6. PositionIsAged' \/ Called
  <2> SUFFICES ASSUME ~Called, pos # NoPosition PROVE PositionIsAged'
    BY <1>1 DEF PositionIsAged
  <2>1. pending' = pending
    BY DEF ReadSignal
  <2>2. next_bar - pos.entry < MaxBars
    BY <1>1 DEF IInv, PositionIsAged
  <2>3. next_bar + 1 - pos.entry <= MaxBars
    BY <1>2, <2>2, Constants, Numbers DEF IInv
  <2> QED BY <1>1, <1>2, <2>1, <2>3, Numbers DEF IInv, PositionIsAged
<1>7. CooldownCovers'
  BY <1>1, <1>2, Numbers DEF IInv, CooldownCovers
<1>8. TradesAreTimely'
  BY <1>1 DEF IInv, TradesAreTimely
<1>9. \A x \in placed : x < next_bar
  BY DEF IInv, RecordsArePast
<1>10. CASE Called
  <2>1. /\ pos = NoPosition /\ pending = NoOrder /\ next_bar < NBars - 1
        /\ next_bar >= cooldown_until /\ Wanted(policy[next_bar]) \in Directions
    BY <1>10, WantedType DEF Called, MayRead
  <2>2. /\ pending' = [direction |-> Wanted(policy[next_bar]), from |-> ts + latency,
                       signal |-> next_bar]
        /\ placed' = placed \cup {next_bar}
    BY <1>10 DEF ReadSignal
  <2>3. pending' \in Orders /\ pending'.signal = next_bar
    BY <1>2, <1>3, <2>1, <2>2, Numbers DEF IInv, Orders
  <2>4. pending' # NoOrder
    BY <2>3, Absent
  <2>5. Waiting' = {next_bar} /\ Waiting = {} /\ Holding = {}
    BY <2>1, <2>3, <2>4 DEF Waiting, Holding
  <2>6. EventTypeOK'
    BY <1>1, <1>2, <2>2, <2>3, Constants DEF IInv, EventTypeOK
  <2>7. OrderIsPast'
    <3>1. \A t \in Range(trades) : next_bar >= t.exit + Cooldown
      BY <1>2, <2>1, Constants, Numbers DEF IInv, CooldownCovers
    <3> QED BY <1>1, <1>2, <2>1, <2>3, <3>1 DEF OrderIsPast
  <2>8. PositionIsAged'
    BY <1>1, <2>1 DEF PositionIsAged
  <2>9. placed = Traded \cup Refused
    BY <2>5 DEF IInv, OrdersAreAccounted
  <2>10. RecordsArePast'
    <3>1. \A x \in placed' : x < next_bar'
      <4>1. \A x \in placed : x \in Int
        BY Constants DEF IInv, EventTypeOK
      <4> QED BY <1>1, <1>2, <1>9, <2>2, <4>1
    <3> QED BY <1>5, <1>9, <2>5, <2>9, <3>1 DEF RecordsArePast
  <2>11. OrdersAreAccounted'
    <3>1. next_bar \notin Traded \cup Refused
      BY <1>2, <1>9, <2>9
    <3> QED BY <1>1, <1>5, <2>2, <2>5, <2>9, <3>1 DEF IInv, OrdersAreAccounted
  <2>12. SignalsAreNotLost'
    <3> SUFFICES ASSUME NEW c \in 0 .. next_bar - 1, c < NBars - 1,
                        Wanted(policy[c]) # "none", c \notin placed
                 PROVE  InTheWayOf(c)'
      BY <1>1, <1>2, <2>2 DEF SignalsAreNotLost
    <3>1. InTheWayOf(c)
      BY DEF IInv, SignalsAreNotLost
    <3> QED BY <1>1, <1>5, <2>5, <3>1 DEF InTheWayOf
  <2> QED BY <1>4, <1>7, <1>8, <2>6, <2>7, <2>8, <2>10, <2>11, <2>12 DEF IInv
<1>11. CASE ~Called
  <2>1. pending' = pending /\ placed' = placed
    BY <1>11 DEF ReadSignal
  <2>2. Waiting' = Waiting
    BY <2>1 DEF Waiting
  <2>3. EventTypeOK'
    BY <1>1, <1>2, <2>1, Constants DEF IInv, EventTypeOK
  <2>4. OrderIsPast'
    BY <1>1, <1>2, <2>1, Numbers DEF IInv, OrderIsPast
  <2>5. RecordsArePast'
    <3>1. \A x \in placed : x \in Int
      BY Constants DEF IInv, EventTypeOK
    <3> QED BY <1>1, <1>2, <1>5, <1>9, <2>1, <2>2, <3>1 DEF IInv, RecordsArePast
  <2>6. OrdersAreAccounted'
    BY <1>1, <1>5, <2>1, <2>2 DEF IInv, OrdersAreAccounted
  <2>7. SignalsAreNotLost'
    <3> SUFFICES ASSUME NEW c \in 0 .. next_bar, c < NBars - 1, Wanted(policy[c]) # "none",
                        c \notin placed
                 PROVE  InTheWayOf(c)
      BY <1>1, <1>2, <1>5, <2>1, <2>2 DEF SignalsAreNotLost, InTheWayOf
    <3>1. CASE c = next_bar
      <4>1. ~MayRead
        BY <1>11, <3>1 DEF Called
      <4> QED BY <3>1, <4>1, RefusedToRead
    <3>2. CASE c \in 0 .. next_bar - 1
      BY <3>2 DEF IInv, SignalsAreNotLost
    <3> QED BY <1>2, <3>1, <3>2
  <2> QED BY <1>4, <1>6, <1>7, <1>8, <1>11, <2>3, <2>4, <2>5, <2>6, <2>7 DEF IInv
<1> QED BY <1>10, <1>11

-----------------------------------------------------------------------------
LEMMA NextIInv == IInv /\ [EventNext]_eventVars => IInv'
<1> SUFFICES ASSUME IInv, [EventNext]_eventVars PROVE IInv'
  OBVIOUS
<1>1. CASE EventNext
  BY <1>1, TickIInv, RestingOrderIInv, NotExecutableIInv, RefuseIInv, FillIInv,
     AgeFlatIInv, AgeHoldIInv, AgeExitIInv, ReadSignalIInv, EndOfStreamIInv DEF EventNext
<1>2. CASE UNCHANGED eventVars
  <2>1. EventTypeOK' /\ ClockAgrees'
    BY <1>2 DEF eventVars, IInv, EventTypeOK, ClockAgrees, BarDue, CloseAt
  <2>2. phase' = "signal" /\ pos' # NoPosition => next_bar - pos.entry < MaxBars
    BY <1>2 DEF eventVars, IInv, PositionIsAged
  <2> QED BY <1>2, <2>1, <2>2, BooksKept DEF eventVars, IInv
<1> QED BY <1>1, <1>2

LEMMA Invariance == EventSpec => []IInv
BY InitIInv, NextIInv, PTL DEF EventSpec

\* Tier B's locals keep their types, for every policy, stream and risk block:
\* no trade has an entry or an exit outside the history, although exits are
\* numbered by the boundary the tick happens to be at.
THEOREM EventTypeCorrect == EventSpec => []EventTypeOK
<1>1. IInv => EventTypeOK
  BY DEF IInv
<1> QED BY <1>1, Invariance, PTL

\* Every order of Tier B leaves one record, whatever ticks, latency,
\* rejections and stops come between.
THEOREM OrdersAlwaysAccounted == EventSpec => []OrdersAreAccounted
<1>1. IInv => OrdersAreAccounted
  BY DEF IInv
<1> QED BY <1>1, Invariance, PTL

\* Between two ticks, however far apart, every bar boundary that has passed is
\* complete and no executable order waits.
THEOREM TicksAlwaysServed == EventSpec => []TicksAreServed
<1>1. IInv => TicksAreServed
  <2> SUFFICES ASSUME IInv, phase = "idle"
               PROVE  /\ pending # NoOrder => ts < pending.from
                      /\ \A b \in Bars : b < next_bar <=> ts >= CloseAt(b)
    BY DEF TicksAreServed
  <2>1. pending # NoOrder => ts < pending.from
    BY DEF IInv, ClockAgrees
  <2>2. ASSUME NEW b \in Bars, b < next_bar PROVE ts >= CloseAt(b)
    <3>1. b \in Int /\ next_bar - 1 \in Int /\ b <= next_bar - 1 /\ next_bar > 0 /\ ts \in Int
      BY <2>2, Constants, Numbers DEF IInv
    <3>2. ts >= CloseAt(next_bar - 1)
      BY <3>1 DEF IInv, ClockAgrees
    <3> QED BY <3>1, <3>2, CloseMonotone, CloseType
  <2>3. ASSUME NEW b \in Bars, ~(b < next_bar) PROVE ~(ts >= CloseAt(b))
    <3>1. b \in Int /\ next_bar \in Int /\ next_bar <= b /\ next_bar < NBars /\ ts \in Int
      BY <2>3, Constants, Numbers DEF IInv
    <3>2. ~(ts >= CloseAt(next_bar))
      BY <3>1 DEF IInv, ClockAgrees, BarDue
    <3> QED BY <3>1, <3>2, CloseMonotone, CloseType
  <2> QED BY <2>1, <2>2, <2>3
<1> QED BY <1>1, Invariance, PTL

\* A completed bar's signal is lost only to the order of an earlier bar that
\* was in its way when the bar was completed, for every latency and cooldown,
\* none included (event_engine.py:228-239).
THEOREM SignalsNeverLost == EventSpec => []SignalsAreNotLost
<1>1. IInv => SignalsAreNotLost
  BY DEF IInv
<1> QED BY <1>1, Invariance, PTL

\* Trades of Tier B keep the cooldown and max_bars as Tier A's do, but for
\* late fills and the end of the stream.
THEOREM TradesAlwaysTimely == EventSpec => []TradesAreTimely
<1>1. IInv => TradesAreTimely
  BY DEF IInv
<1> QED BY <1>1, Invariance, PTL

-----------------------------------------------------------------------------
(* The ledger: what a sequence of trades made.                             *)

\* h[q] is what the trades of s with an index in q made, in any order.
IsLedger(h, s) ==
  /\ h \in [SUBSET DOMAIN s -> Int]
  /\ h[{}] = 0
  /\ \A q \in SUBSET DOMAIN s : \A y \in q : h[q] = s[y].pnl + h[q \ {y}]

\* The fold of the community module sums the trades.
LEMMA LedgerSums ==
  ASSUME NEW s \in Seq(Trades)
  PROVE  \E h : IsLedger(h, s) /\ Ledger(s) = h[DOMAIN s]
<1> DEFINE D == DOMAIN s
           pick == [q \in (SUBSET D) \ {{}} |-> CHOOSE i \in q : TRUE]
           f == [i \in D |-> s[i].pnl]
           it == CHOOSE g : g = [q \in SUBSET D |->
                   IF q = {} THEN 0
                   ELSE g[q \ {CHOOSE i \in q : TRUE}] + s[CHOOSE i \in q : TRUE].pnl]
<1>1. IsFiniteSet(D)
  BY FS_Interval
<1>2. \A i \in D : s[i].pnl \in Int /\ f[i] = s[i].pnl
  <2>1. \A i \in D : s[i] \in Trades
    OBVIOUS
  <2>2. \A t \in Trades : t.pnl \in Int
    BY DEF Trades
  <2> QED BY <2>1, <2>2
<1>3. f \in [D -> Int]
  BY <1>2
<1>4. \A q \in (SUBSET D) \ {{}} : pick[q] = (CHOOSE i \in q : TRUE) /\ pick[q] \in q
  OBVIOUS
<1>5. pick \in [(SUBSET D) \ {{}} -> D]
  OBVIOUS
<1>6. Ledger(s) = it[D]
  BY DEF Ledger, FoldSeq, FoldFunction, FoldFunctionOnSet, MapThenFoldSet
<1> HIDE DEF f, pick
<1>7. PICK h \in [SUBSET D -> Int] : IsSum(h, D, f, pick)
  <2> HIDE DEF D
  <2> QED BY <1>1, <1>3, <1>4, <1>5, SumExists
<1>8. \A q \in SUBSET D : q # {} =>
        /\ h[q] = f[pick[q]] + h[q \ {pick[q]}]
        /\ pick[q] \in D
  BY <1>4, <1>7 DEF IsSum
<1>9. h = [q \in SUBSET D |-> IF q = {} THEN 0
             ELSE h[q \ {CHOOSE i \in q : TRUE}] + s[CHOOSE i \in q : TRUE].pnl]
  <2>1. ASSUME NEW q \in SUBSET D
        PROVE  h[q] = IF q = {} THEN 0
                 ELSE h[q \ {CHOOSE i \in q : TRUE}] + s[CHOOSE i \in q : TRUE].pnl
    <3>1. CASE q = {}
      BY <1>7, <3>1 DEF IsSum
    <3>2. CASE q # {}
      <4>1. h[q] = f[pick[q]] + h[q \ {pick[q]}] /\ pick[q] \in D
        BY <1>8, <3>2
      <4>2. h[q \ {pick[q]}] \in Int
        OBVIOUS
      <4>3. h[q] = h[q \ {pick[q]}] + s[pick[q]].pnl
        BY <1>2, <4>1, <4>2
      <4>4. pick[q] = CHOOSE i \in q : TRUE
        BY <1>4, <3>2
      <4> QED BY <3>2, <4>3, <4>4
    <3> QED BY <3>1, <3>2
  <2> QED BY <2>1
<1>10. it = [q \in SUBSET D |-> IF q = {} THEN 0
               ELSE it[q \ {CHOOSE i \in q : TRUE}] + s[CHOOSE i \in q : TRUE].pnl]
  BY <1>9
<1> HIDE DEF it
<1>11. it[{}] = h[{}] /\ h[{}] = 0
  BY <1>7, <1>10 DEF IsSum
<1>12. ASSUME NEW q \in SUBSET D, q # {}
       PROVE  \E x \in q : it[q \ {x}] = h[q \ {x}] => it[q] = h[q]
  <2>1. it[q] = it[q \ {pick[q]}] + s[pick[q]].pnl
    BY <1>4, <1>10, <1>12
  <2>2. h[q] = h[q \ {pick[q]}] + s[pick[q]].pnl
    BY <1>4, <1>9, <1>12
  <2>3. pick[q] \in q
    BY <1>4, <1>12
  <2> QED BY <2>1, <2>2, <2>3
<1>13. \A q \in SUBSET D : it[q] = h[q]
  <2>1. AgreeStepwise(it, h, D)
    BY <1>11, <1>12 DEF AgreeStepwise
  <2> HIDE DEF D
  <2> QED BY <1>1, <2>1, FoldUnique
<1>14. ASSUME NEW q \in SUBSET D, q # {}
       PROVE  \E x \in q : h[q] = f[x] + h[q \ {x}]
  BY <1>4, <1>8, <1>14
<1>15. \A q \in SUBSET D : \A y \in q : h[q] = f[y] + h[q \ {y}]
  <2>1. TakesOut(h, f, D)
    BY <1>14 DEF TakesOut
  <2>2. h \in [SUBSET D -> Int]
    BY <1>7
  <2> HIDE DEF D
  <2>3. TakesOutAny(h, f, D)
    BY <1>1, <1>3, <2>1, <2>2, SumRemoves
  <2> QED BY <2>3 DEF TakesOutAny
<1>16. \A q \in SUBSET D : \A y \in q : h[q] = s[y].pnl + h[q \ {y}]
  BY <1>2, <1>15
<1>17. IsLedger(h, s)
  BY <1>7, <1>11, <1>16 DEF IsLedger
<1> QED BY <1>6, <1>13, <1>17

LEMMA EmptyLedger == Ledger(<< >>) = 0
<1>1. << >> \in Seq(Trades) /\ DOMAIN << >> = {}
  OBVIOUS
<1> QED BY <1>1, LedgerSums DEF IsLedger

\* One more trade adds its result.
LEMMA LedgerGrows ==
  ASSUME NEW s \in Seq(Trades), NEW e \in Trades
  PROVE  Ledger(s) \in Int /\ Ledger(Append(s, e)) = Ledger(s) + e.pnl
<1> DEFINE more == Append(s, e)
           D == DOMAIN s
<1>1. /\ more \in Seq(Trades) /\ Len(s) \in Nat /\ D = 1 .. Len(s)
      /\ DOMAIN more = 1 .. Len(s) + 1
      /\ more[Len(s) + 1] = e
      /\ \A k \in D : more[k] = s[k]
  BY Appended
<1> HIDE DEF more
<1>2. PICK h : IsLedger(h, s) /\ Ledger(s) = h[D]
  BY LedgerSums
<1>3. PICK g : IsLedger(g, more) /\ Ledger(more) = g[DOMAIN more]
  BY <1>1, LedgerSums
<1> HIDE DEF D
<1>4. IsFiniteSet(D) /\ g[{}] = h[{}]
  BY <1>1, <1>2, <1>3, FS_Interval DEF IsLedger
<1>5. ASSUME NEW q \in SUBSET D, q # {}
      PROVE  \E x \in q : g[q \ {x}] = h[q \ {x}] => g[q] = h[q]
  <2>1. PICK x \in q : TRUE
    BY <1>5
  <2>2. q \in SUBSET DOMAIN more /\ x \in D
    BY <1>1
  <2>3. g[q] = more[x].pnl + g[q \ {x}]
    BY <1>3, <2>2 DEF IsLedger
  <2>4. h[q] = s[x].pnl + h[q \ {x}]
    BY <1>2 DEF IsLedger, D
  <2> QED BY <1>1, <2>2, <2>3, <2>4
<1>6. g[D] = h[D]
  <2>1. AgreeStepwise(g, h, D)
    BY <1>4, <1>5 DEF AgreeStepwise
  <2>2. \A q \in SUBSET D : g[q] = h[q]
    BY <1>4, <2>1, FoldUnique
  <2> QED BY <2>2
<1>7. Len(s) + 1 \in DOMAIN more /\ DOMAIN more \ {Len(s) + 1} = D
  BY <1>1
<1>8. g[DOMAIN more] = e.pnl + g[D]
  BY <1>1, <1>3, <1>7 DEF IsLedger
<1>9. h[D] \in Int /\ e.pnl \in Int
  BY <1>2 DEF IsLedger, D, Trades
<1> QED BY <1>2, <1>3, <1>6, <1>8, <1>9 DEF more

-----------------------------------------------------------------------------
(* The money of a run.                                                     *)

LEMMA CashInit == EventInit => CashIsLedger
<1> SUFFICES ASSUME EventInit PROVE CashIsLedger
  OBVIOUS
<1>1. cash = 0 /\ pos.costs = 0 /\ trades = << >>
  BY Absent DEF EventInit
<1>2. cash = Ledger(trades) - pos.costs
  BY <1>1, EmptyLedger
<1> QED BY <1>2 DEF CashIsLedger

\* A closed position's costs leave the cash for good, with its gross result.
LEMMA CashOnClose ==
  ASSUME EventTypeOK, cash = Ledger(trades) - pos.costs, pos # NoPosition,
         NEW funding \in Int, NEW reason \in {"stop", "max_bars", "end_of_data"}, NEW b \in Bars,
         ClosePosition(funding, reason, b)
  PROVE  cash' = Ledger(trades') - pos'.costs
<1>1. PICK gross \in Gross :
        /\ cash' = cash - funding - Fee + gross
        /\ trades' = Append(trades,
             [direction |-> pos.direction, entry |-> pos.entry, since |-> pos.since,
              exit |-> b, pnl |-> gross - (pos.costs + funding + Fee),
              costs |-> pos.costs + funding + Fee, reason |-> reason])
        /\ pos' = NoPosition
  BY DEF ClosePosition
<1> DEFINE e == [direction |-> pos.direction, entry |-> pos.entry, since |-> pos.since,
                 exit |-> b, pnl |-> gross - (pos.costs + funding + Fee),
                 costs |-> pos.costs + funding + Fee, reason |-> reason]
<1>2. pos \in Positions /\ pos.costs \in Int /\ gross \in Int /\ Fee \in Int
  BY Constants, Numbers
<1>3. e \in Trades /\ e.pnl = gross - (pos.costs + funding + Fee)
  BY <1>2 DEF Trades, Positions
<1>4. trades' = Append(trades, e) /\ trades \in Seq(Trades)
  BY <1>1 DEF EventTypeOK
<1> HIDE DEF e
<1>5. Ledger(trades) \in Int /\ Ledger(trades') = Ledger(trades) + e.pnl
  BY <1>3, <1>4, LedgerGrows
<1>6. pos'.costs = 0 /\ cash' = cash - funding - Fee + gross
  BY <1>1, Absent
<1>7. cash' = (Ledger(trades) - pos.costs) - funding - Fee + gross
  BY <1>6
<1> QED BY <1>2, <1>3, <1>5, <1>6, <1>7

LEMMA CashNext == IInv /\ CashIsLedger /\ [EventNext]_eventVars => CashIsLedger'
<1> SUFFICES ASSUME IInv, CashIsLedger, [EventNext]_eventVars
             PROVE  cash' = Ledger(trades') - pos'.costs
  BY DEF CashIsLedger
<1>1. cash = Ledger(trades) - pos.costs /\ EventTypeOK
  BY DEF CashIsLedger, IInv
<1>2. /\ Ledger(trades) \in Int /\ Fee \in Int /\ pos.costs \in Int
      /\ pos # NoPosition => FundingDue \in Int
  <2>1. Ledger(trades) \in Int
    <3>1. trades \in Seq(Trades)
      BY <1>1 DEF EventTypeOK
    <3>2. PICK h : IsLedger(h, trades) /\ Ledger(trades) = h[DOMAIN trades]
      BY <3>1, LedgerSums
    <3> QED BY <3>2 DEF IsLedger
  <2> QED BY <1>1, <2>1, Constants, Numbers, Absent DEF FundingDue
<1>3. CASE UNCHANGED << cash, trades, pos >>
  BY <1>1, <1>3
<1>4. CASE Fill
  <2>1. pos.costs = 0 /\ pos'.costs = Fee /\ trades' = trades /\ cash' = cash - Fee
    BY <1>4, Absent DEF Fill, Executable
  <2> QED BY <1>1, <1>2, <2>1
<1>5. CASE AgeHold
  <2>1. /\ pos # NoPosition /\ trades' = trades /\ cash' = cash - FundingDue
        /\ pos' = [pos EXCEPT !.costs = @ + FundingDue]
    BY <1>5 DEF AgeHold
  <2>2. pos'.costs = pos.costs + FundingDue
    BY <1>1, <2>1, Numbers DEF Positions
  <2> QED BY <1>1, <1>2, <2>1, <2>2
<1>6. CASE RestingOrder /\ ~ UNCHANGED << cash, trades, pos >>
  <2>1. pos # NoPosition /\ ClosePosition(0, "stop", Lesser(next_bar, NBars - 1))
    BY <1>6 DEF RestingOrder
  <2>2. Lesser(next_bar, NBars - 1) \in Bars
    BY <1>1, Constants, Numbers DEF Lesser
  <2> QED BY <1>1, <2>1, <2>2, CashOnClose
<1>7. CASE AgeExit
  <2>1. pos # NoPosition /\ ClosePosition(FundingDue, "max_bars", next_bar)
    BY <1>7 DEF AgeExit
  <2>2. next_bar \in Bars
    BY <1>1, <1>7, Constants, Numbers DEF AgeExit, Aging, BarDue
  <2> QED BY <1>1, <1>2, <2>1, <2>2, CashOnClose
<1>8. CASE EndOfStream /\ ~ UNCHANGED << cash, trades, pos >>
  <2>1. pos # NoPosition /\ ClosePosition(0, "end_of_data", LastBar)
    BY <1>8 DEF EndOfStream
  <2>2. LastBar \in Bars
    <3>1. 1 <= pos.entry /\ pos.entry <= next_bar /\ pos.entry \in Int
      BY <1>1, <2>1, Numbers DEF IInv, PositionIsAged
    <3> QED BY <1>1, <3>1, Constants, Numbers DEF Lesser, LastBar
  <2> QED BY <1>1, <2>1, <2>2, CashOnClose
<1>9. CASE (\E t \in 0 .. Horizon : Tick(t)) \/ NotExecutable \/ Refuse \/ AgeFlat \/ ReadSignal
  BY <1>3, <1>9 DEF Tick, NotExecutable, Refuse, AgeFlat, ReadSignal
<1> QED BY <1>3, <1>4, <1>5, <1>6, <1>7, <1>8, <1>9 DEF EventNext, eventVars

\* The money of a run adds up after any number of trades, whatever the fees,
\* the funding and the gross results are.
THEOREM CashAlwaysLedger == EventSpec => []CashIsLedger
BY Invariance, CashInit, CashNext, PTL DEF EventSpec
=============================================================================
