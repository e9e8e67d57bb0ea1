------------------------------ MODULE EaParity ------------------------------
(***************************************************************************)
(* Tier A and the exported EA driven by the same bars.  Their rows agree   *)
(* from bar Lookback on; before it Tier A is warming up, while an EA with  *)
(* preloaded history may see more.  The first tick of a bar is one joint   *)
(* step; the later ticks of the bar and the broker's fills fall between    *)
(* Tier A's open and its close.                                            *)
(***************************************************************************)
EXTENDS BarEngine

CONSTANT Lookback      \* bars the features of Tier A look back

ASSUME LookbackAssumption == Lookback \in Nat

VARIABLES rows, preloaded, position, g_bar_index, g_cooldown_until_bar, g_entry_bar,
          g_pending_dir, trade_file

EA == INSTANCE ExportedEA

eaVars == << rows, preloaded, position, g_bar_index, g_cooldown_until_bar,
             g_entry_bar, g_pending_dir, trade_file >>

parityVars == << engineVars, eaVars >>

\* The rows of the EA, free only where Tier A has no history to look at.
Seen(early) == [b \in EA!EaBars |-> IF b < Lookback THEN early[b] ELSE policy[b]]

ParityInit ==
  /\ EngineInit
  /\ \E early \in [{b \in EA!EaBars : b < Lookback} -> Inputs] : rows = Seen(early)
  /\ EA!EaInit

BarOpens == (Enter \/ SkipEntry \/ NoEntry) /\ EA!NewBar

BarPasses == (Exit \/ Hold \/ Close) /\ UNCHANGED eaVars

\* A gap may fill the stop before the EA sees the first tick of a bar.
TickFills == step \in {"open", "manage"} /\ EA!BrokerStop /\ UNCHANGED engineVars

TickManages == step = "manage" /\ EA!LaterTick /\ UNCHANGED engineVars

ParityNext == BarOpens \/ BarPasses \/ TickFills \/ TickManages

ParitySpec == ParityInit /\ [][ParityNext]_parityVars

-----------------------------------------------------------------------------
(* Safety.                                                                 *)

\* Every variable has its type: Tier A's records, the EA's globals and its
\* CSV rows (fast_engine.py:124-129, exporter.py:272-279).
TypeOK ==
  /\ EngineTypeOK
  /\ rows \in [EA!EaBars -> Inputs]
  /\ preloaded \in 0 .. MinBars
  /\ position \in [direction : Directions, bar : Bars] \cup {EA!NoEaPosition}
  /\ g_bar_index \in 0 .. NBars
  /\ g_cooldown_until_bar \in -1 .. NBars + Cooldown
  /\ g_entry_bar \in -1 .. NBars
  /\ g_pending_dir \in Directions \cup {"none"}
  /\ trade_file \in Seq([direction : Directions, entry : Bars, exit : Bars])

\* The EA trades only behind Tier A.  When it holds a position decided on a
\* row that Tier A has too, Tier A acted on that row a bar earlier, in the same
\* direction, or could not: it was in a trade of its own at that row's close,
\* or resting from one.  No rejection, broker fill, time exit or preloaded
\* history on the EA's side makes it trade for any other reason
\* (exporter.py:313-334 against fast_engine.py:135 and 265).
EaTradesBehindTierA ==
  position # EA!NoEaPosition =>
    LET row == position.bar - 2
    IN  row >= Lookback =>
          \/ << row + 1, position.direction >> \in Attempts
          \/ ~FlatAtClose(row)
          \/ ~RestedAtClose(row)

\* A position of the EA was decided on the row two bars before the bar it was
\* opened in, with that row's direction; it is never opened in the first bar
\* of the test, whatever was loaded before (exporter.py:313-334).
EaActsTwoBarsLater ==
  position # EA!NoEaPosition =>
    /\ position.bar >= 1
    /\ Wanted(rows[position.bar - 2]) = position.direction
    /\ rows[position.bar - 2].atr

\* After a time exit of its own the EA stays out for more than Cooldown bars,
\* and no time exit comes before MaxBars, with broker fills and failed orders
\* in between (exporter.py:314, 367 and 384).
EaRestsAfterTimeExit ==
  /\ \A k \in DOMAIN trade_file :
       /\ trade_file[k].exit >= trade_file[k].entry + MaxBars
       /\ k > 1 => trade_file[k].entry > trade_file[k - 1].exit + Cooldown
  /\ position # EA!NoEaPosition =>
       \A t \in Range(trade_file) : position.bar > t.exit + Cooldown

\* The docstring of the exporter: signals are evaluated on the just-closed
\* bar and "entries are market orders on the next bar's open tick"
\* (exporter.py:5-6), as Tier A does.
EaEntersOnNextBar ==
  position # EA!NoEaPosition => Wanted(rows[position.bar - 1]) = position.direction
=============================================================================
