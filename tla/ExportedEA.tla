----------------------------- MODULE ExportedEA -----------------------------
(***************************************************************************)
(* The order management of the Expert Advisor that export_ea generates     *)
(* (_EA_TEMPLATE of mql5/exporter.py), run by the Strategy Tester.  OnTick *)
(* is NewBar on the first tick of a bar and LaterTick on the others;       *)
(* BrokerStop is the broker filling the stop or the target it holds.       *)
(* OrderSend may fail and lots may round to zero.  The terminal may have   *)
(* loaded bars from before the test: Bars() counts them, shift 1 reads     *)
(* the last of them on the first tick, and g_bar_index knows nothing of    *)
(* them.                                                                   *)
(***************************************************************************)
EXTENDS SignalBars

VARIABLES
  rows,                  \* signal row of every bar, fixed
  preloaded,             \* bars loaded from before the test, fixed
  position,              \* the broker's position of the symbol
  g_bar_index,           \* new bars seen
  g_cooldown_until_bar,
  g_entry_bar,
  g_pending_dir,
  trade_file             \* rows of evoquant_trades.csv

eaVars == << position, g_bar_index, g_cooldown_until_bar, g_entry_bar,
             g_pending_dir, trade_file >>

\* PositionSelect(_Symbol) is position.direction # "none"; "bar" is the bar,
\* numbered as in Tier A, whose first tick opened the position.
NoEaPosition == [direction |-> "none", bar |-> -1]

Selected(p) == p.direction # "none"

\* Bar -1 is the last one loaded from before the test.
EaBars == Bars \cup {-1}

\* More than MinBars preloaded bars open the warm-up gate as MinBars do.
EaInit ==
  /\ rows \in [EaBars -> Inputs]
  /\ preloaded \in 0 .. MinBars
  /\ position = NoEaPosition
  /\ g_bar_index = 0
  /\ g_cooldown_until_bar = -1
  /\ g_entry_bar = -1
  /\ g_pending_dir = "none"
  /\ trade_file = << >>

\* The bar being formed.
EaBar == g_bar_index - 1

-----------------------------------------------------------------------------
(* First tick of a bar: execute the direction decided one bar ago, then    *)
(* decide on the row of the bar that just closed.                          *)

OpenPosition ==
  \/ /\ position' = [direction |-> g_pending_dir, bar |-> EaBar']
     /\ g_entry_bar' = g_bar_index'
  \/ UNCHANGED << position, g_entry_bar >>

Execute ==
  IF g_pending_dir # "none" /\ ~Selected(position) /\ g_bar_index' > g_cooldown_until_bar
  THEN OpenPosition
  ELSE UNCHANGED << position, g_entry_bar >>

\* Bars(_Symbol, _Period) is preloaded + g_bar_index'.
MayDecide ==
  /\ preloaded + g_bar_index' >= MinBars
  /\ ~Selected(position')
  /\ g_bar_index' >= g_cooldown_until_bar

Decide(row) ==
  g_pending_dir' = IF row.atr THEN Wanted(row) ELSE "none"

\* Mutant of NewBar: the row of the bar being formed, shift 0.
NewBarShiftZero ==
  /\ g_bar_index < NBars
  /\ g_bar_index' = g_bar_index + 1
  /\ Execute
  /\ IF MayDecide THEN Decide(rows[EaBar']) ELSE g_pending_dir' = "none"
  /\ UNCHANGED << rows, preloaded, g_cooldown_until_bar, trade_file >>

\* Mutant of NewBar: the pending direction is not reset.
NewBarKeepsPending ==
  /\ g_bar_index < NBars
  /\ g_bar_index' = g_bar_index + 1
  /\ Execute
  /\ IF MayDecide /\ Wanted(rows[EaBar]) # "none" THEN Decide(rows[EaBar])
     ELSE UNCHANGED g_pending_dir
  /\ UNCHANGED << rows, preloaded, g_cooldown_until_bar, trade_file >>

NewBar ==
  /\ g_bar_index < NBars
  /\ g_bar_index' = g_bar_index + 1
  /\ Execute
  /\ IF MayDecide THEN Decide(rows[EaBar]) ELSE g_pending_dir' = "none"
  /\ UNCHANGED << rows, preloaded, g_cooldown_until_bar, trade_file >>

-----------------------------------------------------------------------------
(* The ticks in between.                                                   *)

\* Mutant of LaterTick: the cooldown is counted from the entry.
LaterTickFromEntry ==
  /\ Selected(position)
  /\ g_bar_index - g_entry_bar >= MaxBars
  /\ position' = NoEaPosition
  /\ g_cooldown_until_bar' = g_entry_bar + Cooldown
  /\ trade_file' = Append(trade_file, [direction |-> position.direction,
                                       entry |-> position.bar, exit |-> EaBar])
  /\ UNCHANGED << rows, preloaded, g_bar_index, g_entry_bar, g_pending_dir >>

\* ManagePosition and ClosePosition("max_bars"); an OrderSend that fails
\* leaves everything as it is.
LaterTick ==
  /\ Selected(position)
  /\ g_bar_index - g_entry_bar >= MaxBars
  /\ position' = NoEaPosition
  /\ g_cooldown_until_bar' = g_bar_index + Cooldown
  /\ trade_file' = Append(trade_file, [direction |-> position.direction,
                                       entry |-> position.bar, exit |-> EaBar])
  /\ UNCHANGED << rows, preloaded, g_bar_index, g_entry_bar, g_pending_dir >>

\* No code of the EA runs: no cooldown, no row.
BrokerStop ==
  /\ Selected(position)
  /\ position' = NoEaPosition
  /\ UNCHANGED << rows, preloaded, g_bar_index, g_cooldown_until_bar, g_entry_bar,
                  g_pending_dir, trade_file >>
=============================================================================
