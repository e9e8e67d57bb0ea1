----------------------------- MODULE EventEngine -----------------------------
(***************************************************************************)
(* run_event_backtest of backtest/event_engine.py, the Tier B engine: a    *)
(* stream of ticks over the bars of a SignalPolicy.  One tick runs through *)
(* the phases "resting" (stop and target), "market" (a pending order),     *)
(* "age" and "signal" (once for each bar the tick completes) and, when no  *)
(* bar is left to complete, the pending order again.                       *)
(*                                                                         *)
(* Left to choice: whether a tick touches the stop or the target, whether  *)
(* an order is rejected, whether its size is tradable, and the gross       *)
(* result of a trade.  Commission is one Fee a side; funding is charged    *)
(* at every completed bar.  The equity curve is left out.                  *)
(***************************************************************************)
EXTENDS SignalBars, SequencesExt

CONSTANTS
  BarSpan,    \* time from one bar's close to the next
  Horizon,    \* bound on the tick times
  Latencies,  \* latency_s
  Fee,        \* commission of one side of a trade
  Funding,    \* cost of holding over a bar, for each direction
  Gross       \* gross results of a trade

ASSUME StreamAssumption ==
  /\ BarSpan \in Nat \ {0}
  /\ Horizon \in Nat
  /\ Latencies \subseteq Nat

ASSUME MoneyAssumption ==
  /\ Fee \in Nat
  /\ Funding \in [Directions -> Int]
  /\ Gross \subseteq Int

VARIABLES
  policy,          \* signal row of every bar, fixed
  latency,         \* latency_s, fixed
  ts,              \* time of the latest tick, -1 before the first
  phase,           \* what the tick loop does next
  next_bar,        \* the next bar boundary to complete
  pos,             \* the open position
  pending,         \* the market order on its way
  cooldown_until,
  cash,            \* relative to initial_equity
  trades,
  skipped,
  placed           \* history: the signal bars of the orders placed

eventVars == << policy, latency, ts, phase, next_bar, pos, pending,
                cooldown_until, cash, trades, skipped, placed >>

Lesser(a, b) == IF a < b THEN a ELSE b

NoTick == -1

NoPosition == [direction |-> "none", entry |-> -1, since |-> -1, costs |-> 0]

\* since is history: the bar under way when the order was filled, or refused.
Positions == [direction : Directions, entry : Bars, since : 0 .. NBars, costs : Int]

NoOrder == [direction |-> "none", from |-> -1, signal |-> -1]

Orders == [direction : Directions, from : Nat, signal : Bars]

Trades == [direction : Directions, entry : Bars, since : 0 .. NBars, exit : Bars,
           pnl : Int, costs : Int, reason : {"stop", "max_bars", "end_of_data"}]

Skips == [bar : Bars, direction : Directions, since : 0 .. NBars,
          reason : {"rejected", "atr_invalid", "no_lots"}]

CloseAt(b) == (b + 1) * BarSpan

EventInit ==
  /\ policy \in [Bars -> Inputs]
  /\ latency \in Latencies
  /\ ts = NoTick
  /\ phase = "idle"
  /\ next_bar = 0
  /\ pos = NoPosition
  /\ pending = NoOrder
  /\ cooldown_until = -1
  /\ cash = 0
  /\ trades = << >>
  /\ skipped = << >>
  /\ placed = {}

-----------------------------------------------------------------------------
(* Closing a position, for whatever reason, at bar b.                      *)

\* Mutant of ClosePosition: the exit commission leaves the trade's costs.
ClosePositionFeeless(funding, reason, b) ==
  \E gross \in Gross :
    LET costs == pos.costs + funding IN
      /\ cash' = cash - funding - Fee + gross
      /\ trades' = Append(trades,
           [direction |-> pos.direction, entry |-> pos.entry, since |-> pos.since,
            exit |-> b, pnl |-> gross - costs, costs |-> costs, reason |-> reason])
      /\ cooldown_until' = b + Cooldown
      /\ pos' = NoPosition

\* The position is closed at bar b after a last payment of funding.
ClosePosition(funding, reason, b) ==
  \E gross \in Gross :
    LET costs == pos.costs + funding + Fee IN
      /\ cash' = cash - funding - Fee + gross
      /\ trades' = Append(trades,
           [direction |-> pos.direction, entry |-> pos.entry, since |-> pos.since,
            exit |-> b, pnl |-> gross - costs, costs |-> costs, reason |-> reason])
      /\ cooldown_until' = b + Cooldown
      /\ pos' = NoPosition

-----------------------------------------------------------------------------
(* A tick arrives: the resting orders come first.                          *)

Tick(t) ==
  /\ phase = "idle"
  /\ t >= ts
  /\ ts' = t
  /\ phase' = "resting"
  /\ UNCHANGED << policy, latency, next_bar, pos, pending, cooldown_until, cash, trades, skipped, placed >>

RestingOrder ==
  /\ phase = "resting"
  /\ phase' = "market"
  /\ \/ UNCHANGED << pos, cooldown_until, cash, trades >>
     \/ /\ pos # NoPosition
        /\ ClosePosition(0, "stop", Lesser(next_bar, NBars - 1))
  /\ UNCHANGED << policy, latency, ts, next_bar, pending, skipped, placed >>

-----------------------------------------------------------------------------
(* The pending order, tried before and after the bars the tick completes.  *)

BarDue == next_bar < NBars /\ ts >= CloseAt(next_bar)

Tried ==
  \/ phase = "market" /\ phase' = "age"
  \/ phase = "age" /\ ~BarDue /\ phase' = "idle"

\* Mutant of Executable: the order is not tried again after the bars.
ExecutableBeforeBars ==
  phase = "market" /\ pending # NoOrder /\ pos = NoPosition /\ ts >= pending.from

Executable == pending # NoOrder /\ pos = NoPosition /\ ts >= pending.from

NotExecutable ==
  /\ ~Executable
  /\ Tried
  /\ UNCHANGED << policy, latency, ts, next_bar, pos, pending, cooldown_until, cash, trades, skipped, placed >>

Refuse ==
  /\ Executable
  /\ Tried
  /\ pending' = NoOrder
  /\ \E reason \in {"rejected"} \cup
         (IF policy[pending.signal].atr THEN {"no_lots"} ELSE {"atr_invalid"}) :
       skipped' = Append(skipped, [bar |-> pending.signal, direction |-> pending.direction,
                                   since |-> next_bar, reason |-> reason])
  /\ UNCHANGED << policy, latency, ts, next_bar, pos, cooldown_until, cash, trades, placed >>

Fill ==
  /\ Executable
  /\ Tried
  /\ policy[pending.signal].atr
  /\ pending' = NoOrder
  /\ cash' = cash - Fee
  /\ pos' = [direction |-> pending.direction, entry |-> Lesser(pending.signal + 1, NBars - 1),
             since |-> next_bar, costs |-> Fee]
  /\ UNCHANGED << policy, latency, ts, next_bar, cooldown_until, trades, skipped, placed >>

-----------------------------------------------------------------------------
(* A completed bar: funding and the time exit, then its signals.           *)

Aging ==
  /\ phase = "age"
  /\ BarDue
  /\ phase' = "signal"
  /\ UNCHANGED << policy, latency, ts, next_bar, pending, skipped, placed >>

AgeFlat ==
  /\ pos = NoPosition
  /\ UNCHANGED << pos, cooldown_until, cash, trades >>
  /\ Aging

Held == next_bar - pos.entry

FundingDue == Funding[pos.direction]

AgeHold ==
  /\ pos # NoPosition
  /\ Held < MaxBars
  /\ cash' = cash - FundingDue
  /\ pos' = [pos EXCEPT !.costs = @ + FundingDue]
  /\ UNCHANGED << cooldown_until, trades >>
  /\ Aging

AgeExit ==
  /\ pos # NoPosition
  /\ Held >= MaxBars
  /\ ClosePosition(FundingDue, "max_bars", next_bar)
  /\ Aging

\* Mutant of MayRead: the order on its way is forgotten.
MayReadWhilePending == pos = NoPosition /\ next_bar < NBars - 1 /\ next_bar >= cooldown_until

\* Mutant of MayRead: the cooldown is not waited for.
MayReadHot == pos = NoPosition /\ pending = NoOrder /\ next_bar < NBars - 1

\* Mutant of MayRead: the cooldown compared with >.
MayReadLate ==
  pos = NoPosition /\ pending = NoOrder /\ next_bar < NBars - 1 /\ next_bar > cooldown_until

MayRead ==
  pos = NoPosition /\ pending = NoOrder /\ next_bar < NBars - 1 /\ next_bar >= cooldown_until

Called == MayRead /\ Wanted(policy[next_bar]) # "none"

ReadSignal ==
  /\ phase = "signal"
  /\ phase' = "age"
  /\ next_bar' = next_bar + 1
  /\ pending' = IF Called
                THEN [direction |-> Wanted(policy[next_bar]), from |-> ts + latency,
                      signal |-> next_bar]
                ELSE pending
  /\ placed' = IF Called THEN placed \cup {next_bar} ELSE placed
  /\ UNCHANGED << policy, latency, ts, pos, cooldown_until, cash, trades, skipped >>

-----------------------------------------------------------------------------
(* The stream ends: an open position is closed; an order on its way is not *)
(* recorded anywhere.                                                      *)

\* Mutant of LastBar: the bar under way, complete or not.
LastBarUnderWay == next_bar

LastBar == Lesser(next_bar, NBars) - 1

EndOfStream ==
  /\ phase = "idle"
  /\ phase' = "done"
  /\ IF pos = NoPosition THEN UNCHANGED << pos, cooldown_until, cash, trades >>
     ELSE ClosePosition(0, "end_of_data", LastBar)
  /\ UNCHANGED << policy, latency, ts, next_bar, pending, skipped, placed >>

EventNext ==
  \/ \E t \in 0 .. Horizon : Tick(t)
  \/ RestingOrder
  \/ NotExecutable \/ Refuse \/ Fill
  \/ AgeFlat \/ AgeHold \/ AgeExit \/ ReadSignal
  \/ EndOfStream

EventSpec == EventInit /\ [][EventNext]_eventVars

-----------------------------------------------------------------------------
(* Safety.                                                                 *)

\* The type invariant of the engine's locals (event_engine.py:92-103).
EventTypeOK ==
  /\ policy \in [Bars -> Inputs]
  /\ latency \in Latencies
  /\ ts \in Nat \cup {NoTick}
  /\ phase \in {"idle", "resting", "market", "age", "signal", "done"}
  /\ next_bar \in 0 .. NBars
  /\ pos \in Positions \cup {NoPosition}
  /\ pending \in Orders \cup {NoOrder}
  /\ cooldown_until \in Int
  /\ cash \in Int
  /\ trades \in Seq(Trades)
  /\ skipped \in Seq(Skips)
  /\ placed \subseteq Bars

\* The signal bars whose orders became trades, were refused, are held, wait.
Traded == { t.entry - 1 : t \in Range(trades) }
Refused == { s.bar : s \in Range(skipped) }
Holding == { p.entry - 1 : p \in {pos} \ {NoPosition} }
Waiting == { o.signal : o \in {pending} \ {NoOrder} }

\* Every order placed is in one place at a time and leaves one record: none is
\* replaced by a later order, traded twice, both traded and refused, or filled
\* over another position (event_engine.py:134-137, 204-218 and 228-239).
OrdersAreAccounted ==
  /\ placed = Traded \cup Refused \cup Holding \cup Waiting
  /\ Holding = {} \/ Waiting = {}
  /\ (Traded \cup Refused) \cap (Holding \cup Waiting) = {}
  /\ Traded \cap Refused = {}
  /\ \A j, k \in DOMAIN trades : j < k => trades[j].entry < trades[k].entry
  /\ \A j, k \in DOMAIN skipped : j < k => skipped[j].bar < skipped[k].bar

\* Between two ticks no executable order waits and no bar is left to complete:
\* the second try after the bars serves the zero-latency orders they placed
\* (event_engine.py:198, 201 and 243).
TicksAreServed ==
  phase = "idle" =>
    /\ pending # NoOrder => ts < pending.from
    /\ \A b \in Bars : b < next_bar <=> ts >= CloseAt(b)

\* The order of an earlier bar was on its way when bar b was completed (and
\* refused later, or not yet tried), filled or still to be filled, or its trade
\* was held or resting.
InTheWayOf(b) ==
  \/ \E x \in Holding \cup Waiting : x < b
  \/ \E s \in Range(skipped) : s.bar < b /\ b < s.since
  \/ \E t \in Range(trades) :
       /\ t.entry - 1 < b
       /\ b < t.exit + Cooldown \/ (b = t.exit /\ t.reason = "end_of_data")

\* A completed bar that asked for a trade got its order, unless the order of
\* an earlier bar was in its way at that very bar: a refused order excuses the
\* bars completed while it was on its way and none after, a trade those until
\* it has rested (event_engine.py:228-239).
SignalsAreNotLost ==
  \A b \in 0 .. next_bar - 1 :
    b < NBars - 1 /\ Wanted(policy[b]) # "none" => b \in placed \/ InTheWayOf(b)

\* Trades of Tier B follow one another like those of Tier A, told by the
\* signal bar: it comes Cooldown bars or more after the exit before it.  A
\* late fill ages from its signal and may be closed at the bar it was filled
\* in; a fill at the last boundary of the stream has its exit one bar before
\* its entry (event_engine.py:168, 182, 216-218, 233 and 246-248).
TradesAreTimely ==
  /\ \A k \in DOMAIN trades :
       /\ trades[k].exit >= trades[k].entry \/ /\ trades[k].reason = "end_of_data"
                                               /\ trades[k].exit = trades[k].entry - 1
       /\ trades[k].exit - trades[k].entry <= MaxBars \/ trades[k].exit <= trades[k].since
       /\ k > 1 => trades[k].entry - 1 >= trades[k - 1].exit + Cooldown
  /\ \A t \in Range(trades) : pos # NoPosition => pos.entry - 1 >= t.exit + Cooldown

\* What a sequence of trades made.
Ledger(s) == FoldSeq(LAMBDA t, sum : sum + t.pnl, 0, s)

\* The money of a run adds up: cash is what the closed trades made, less what
\* the open position has cost so far (event_engine.py:108-125, 162-174 and
\* 210-215).
CashIsLedger == cash = Ledger(trades) - pos.costs
=============================================================================
