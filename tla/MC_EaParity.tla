---------------------------- MODULE MC_EaParity ----------------------------
(***************************************************************************)
(* Instance of EaParity for TLC: rows that ask for either direction, for   *)
(* both at once, behind a closed gate, and without a valid ATR.            *)
(***************************************************************************)
EXTENDS EaParity

Row(l, s, a, v) == [long |-> l, short |-> s, allow |-> a, atr |-> v]

Rare ==
  { Row(FALSE, TRUE, TRUE, TRUE), Row(TRUE, TRUE, TRUE, TRUE),
    Row(TRUE, FALSE, FALSE, TRUE), Row(TRUE, FALSE, TRUE, FALSE) }

SomeRows == Rare \cup { Row(TRUE, FALSE, TRUE, TRUE) }

Quiet == Row(TRUE, FALSE, FALSE, TRUE)

\* Bounds on the policies: most rows ask for "long"; up to three different
\* others occur among them, once each.  The last row, which neither engine
\* reads, is fixed, and Tier A's warm-up rows are quiet.  The preloaded
\* history is empty or just long enough for the EA to decide on its first
\* tick; the rows the EA alone sees ask for "long" or for nothing.
MCInit ==
  /\ EngineInit
  /\ policy[NBars - 1] \notin Rare
  /\ \A b \in Bars : b < Lookback => policy[b] = Quiet
  /\ \A b, c \in Bars : policy[b] = policy[c] /\ policy[b] \in Rare => b = c
  /\ \E r \in Rare : \A b \in Bars : policy[b] # r
  /\ ParityInit
  /\ preloaded \in {0, MinBars - 1}
  /\ \A b \in -1 .. Lookback - 1 : rows[b] \in { Quiet, rows[NBars - 1] }
  /\ preloaded = 0 => rows[-1] = Quiet

MCSpec == MCInit /\ [][ParityNext]_parityVars
=============================================================================
