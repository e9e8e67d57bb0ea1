------------------------------ MODULE BarEngine ------------------------------
(***************************************************************************)
(* run_backtest of backtest/fast_engine.py, the Tier A engine: one         *)
(* position at a time over a given SignalPolicy.  The four parts of the    *)
(* loop body are the steps "open" (pending entry), "manage" (exits) and    *)
(* "close" (signals); marking to market changes nothing read later.        *)
(*                                                                         *)
(* Left to choice: whether a bar touches the stop or the target, and       *)
(* whether the size rounds to a tradable lot.  "stop" stands for the       *)
(* reasons sl and tp, whose order is a matter of prices.                   *)
(***************************************************************************)
EXTENDS SignalBars, Functions

VARIABLES
  policy,              \* signal row of every bar, fixed
  bar,                 \* i
  step,                \* the part of the loop body to run next
  pos,                 \* the open position
  pending_dir,         \* signal awaiting the next open, or "none"
  pending_signal_bar,
  cooldown_until,
  trades,              \* closed trades, in order
  skipped              \* skipped entries, in order

engineVars == << policy, bar, step, pos, pending_dir, pending_signal_bar,
                 cooldown_until, trades, skipped >>

NoPosition == [direction |-> "none", entry |-> -1]

Positions == [direction : Directions, entry : Bars]

Trades == [direction : Directions, entry : Bars, exit : Bars,
           reason : {"stop", "max_bars", "end_of_data"}]

Skips == [bar : Bars, direction : Directions, reason : {"atr_invalid", "no_lots"}]

EngineInit ==
  /\ policy \in [Bars -> Inputs]
  /\ bar = 0
  /\ step = "open"
  /\ pos = NoPosition
  /\ pending_dir = "none"
  /\ pending_signal_bar = -1
  /\ cooldown_until = -1
  /\ trades = << >>
  /\ skipped = << >>

-----------------------------------------------------------------------------
(* 1. The pending entry at the bar's open.                                 *)

EntryDue == pending_dir # "none" /\ pos = NoPosition /\ bar > cooldown_until

Opened ==
  /\ step = "open"
  /\ step' = "manage"
  /\ pending_dir' = "none"
  /\ UNCHANGED << policy, bar, pending_signal_bar, cooldown_until, trades >>

Enter ==
  /\ EntryDue
  /\ policy[pending_signal_bar].atr
  /\ pos' = [direction |-> pending_dir, entry |-> bar]
  /\ UNCHANGED skipped
  /\ Opened

SkipEntry ==
  /\ EntryDue
  /\ skipped' = Append(skipped,
       [bar |-> bar, direction |-> pending_dir,
        reason |-> IF policy[pending_signal_bar].atr THEN "no_lots" ELSE "atr_invalid"])
  /\ UNCHANGED pos
  /\ Opened

NoEntry ==
  /\ ~EntryDue
  /\ UNCHANGED << pos, skipped >>
  /\ Opened

-----------------------------------------------------------------------------
(* 2. The open position over the bar: stop and target come first, then the *)
(* time exit, then the end of the data.                                    *)

\* Mutant of TimeIsUp: max_bars compared with >.
TimeIsUpLate == bar - pos.entry > MaxBars

TimeIsUp == bar - pos.entry >= MaxBars

\* Mutant of IsLastBar: the last bar taken for one beyond it.
IsLastBarLate == bar = NBars

IsLastBar == bar = NBars - 1

ExitReasons ==
  {"stop"} \cup IF TimeIsUp THEN {"max_bars"}
                ELSE IF IsLastBar THEN {"end_of_data"} ELSE {}

MustExit == TimeIsUp \/ IsLastBar

Managed ==
  /\ step = "manage"
  /\ step' = "close"
  /\ UNCHANGED << policy, bar, pending_dir, pending_signal_bar, skipped >>

Exit ==
  /\ pos # NoPosition
  /\ \E reason \in ExitReasons :
       trades' = Append(trades, [direction |-> pos.direction, entry |-> pos.entry,
                                 exit |-> bar, reason |-> reason])
  /\ cooldown_until' = bar + Cooldown
  /\ pos' = NoPosition
  /\ Managed

Hold ==
  /\ pos = NoPosition \/ ~MustExit
  /\ UNCHANGED << pos, cooldown_until, trades >>
  /\ Managed

-----------------------------------------------------------------------------
(* 4. The signals at the bar's close.                                      *)

\* Mutant of MayRead: the cooldown compared with >.
MayReadLate == pos = NoPosition /\ bar < NBars - 1 /\ bar > cooldown_until

MayRead == pos = NoPosition /\ bar < NBars - 1 /\ bar >= cooldown_until

Close ==
  /\ step = "close"
  /\ IF MayRead /\ Wanted(policy[bar]) # "none"
     THEN pending_dir' = Wanted(policy[bar]) /\ pending_signal_bar' = bar
     ELSE UNCHANGED << pending_dir, pending_signal_bar >>
  /\ bar' = IF IsLastBar THEN bar ELSE bar + 1
  /\ step' = IF IsLastBar THEN "done" ELSE "open"
  /\ UNCHANGED << policy, pos, cooldown_until, trades, skipped >>

EngineNext == Enter \/ SkipEntry \/ NoEntry \/ Exit \/ Hold \/ Close

EngineSpec == EngineInit /\ [][EngineNext]_engineVars

-----------------------------------------------------------------------------
(* Safety.                                                                 *)

\* The engine's part of the type invariant (fast_engine.py:124-129).
EngineTypeOK ==
  /\ policy \in [Bars -> Inputs]
  /\ bar \in Bars
  /\ step \in {"open", "manage", "close", "done"}
  /\ pos \in Positions \cup {NoPosition}
  /\ pending_dir \in Directions \cup {"none"}
  /\ pending_signal_bar \in Bars \cup {-1}
  /\ cooldown_until \in -1 .. NBars + Cooldown
  /\ trades \in Seq(Trades)
  /\ skipped \in Seq(Skips)

\* What Tier A did about entries: <<bar, direction>> of every trade, of the
\* open position and of every skipped entry.
Attempts ==
  { << t.entry, t.direction >> : t \in Range(trades) }
    \cup { << s.bar, s.direction >> : s \in Range(skipped) }
    \cup { << p.entry, p.direction >> : p \in {pos} \ {NoPosition} }

FlatAtClose(b) ==
  /\ \A t \in Range(trades) : ~(t.entry <= b /\ b < t.exit)
  /\ pos # NoPosition => b < pos.entry

RestedAtClose(b) ==
  \A t \in Range(trades) : t.exit <= b => t.exit + Cooldown <= b

\* The entries the policy calls for, told from the trades alone: a bar that
\* closes flat and rested and asks for one direction is acted on at the next
\* bar that has opened.
DueEntries ==
  { << b + 1, Wanted(policy[b]) >> :
      b \in { c \in Bars : /\ c + 1 < bar \/ (c + 1 = bar /\ step # "open")
                           /\ Wanted(policy[c]) # "none"
                           /\ FlatAtClose(c)
                           /\ RestedAtClose(c) } }

\* Tier A enters, or records that it skipped, exactly the entries the policy
\* calls for, in the policy's direction and at the next bar: the gates on
\* pending_dir, pos and cooldown_until neither lose a signal nor invent or
\* repeat one (fast_engine.py:135 and 265).
EntriesAreExactlyDue == Attempts = DueEntries

\* Trades follow one another with more than Cooldown bars between an exit and
\* the next entry, last at most MaxBars, and carry the reason that ended them
\* (fast_engine.py:135, 212-217 and 253).
TradesAreSeparated ==
  /\ \A k \in DOMAIN trades :
       /\ trades[k].exit \in trades[k].entry .. trades[k].entry + MaxBars
       /\ trades[k].reason = "max_bars" => trades[k].exit = trades[k].entry + MaxBars
       /\ trades[k].reason = "end_of_data" => trades[k].exit = NBars - 1
       /\ k > 1 => trades[k].entry > trades[k - 1].exit + Cooldown
  /\ pos # NoPosition =>
       /\ bar - pos.entry <= MaxBars
       /\ \A t \in Range(trades) : pos.entry > t.exit + Cooldown

\* A backtest ends with no position and no entry still pending, so its last
\* equity is cash (fast_engine.py:215 and 265).
EndsFlat == step = "done" => pos = NoPosition /\ pending_dir = "none"
=============================================================================
