----------------------------- MODULE SignalBars -----------------------------
(***************************************************************************)
(* What Tier A and the exported EA are both given: a history of bars, one  *)
(* signal row per bar (SignalPolicy) and the bar counts of the risk block  *)
(* (RiskBlock).  Prices are left out: a stop that is or is not touched and *)
(* a size that is or is not tradable are choices of the engines' actions.  *)
(***************************************************************************)
EXTENDS Integers, Sequences

CONSTANTS
  NBars,      \* bars in the history, numbered from 0
  MaxBars,    \* risk.max_bars
  Cooldown,   \* risk.cooldown_bars
  MinBars,    \* MIN_BARS of the EA: bars it waits for before it looks
  Inputs      \* the signal rows that occur

Rows == [long : BOOLEAN, short : BOOLEAN, allow : BOOLEAN, atr : BOOLEAN]

ASSUME HistoryAssumption == NBars \in Nat \ {0}

ASSUME RiskAssumption == MaxBars \in Nat \ {0} /\ Cooldown \in Nat

\* export_ea adds a margin to a lookback of at least one bar.
ASSUME WarmupAssumption == MinBars \in Nat \ {0, 1}

ASSUME InputsAssumption == Inputs \subseteq Rows

Bars == 0 .. NBars - 1

Directions == {"long", "short"}

\* The direction a row asks for: a closed gate, both signals and neither
\* signal ask for no trade.
Wanted(row) ==
  IF row.allow /\ row.long # row.short
  THEN IF row.long THEN "long" ELSE "short"
  ELSE "none"
=============================================================================
