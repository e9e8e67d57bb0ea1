--------------------------- MODULE MC_Stagnation ---------------------------
(***************************************************************************)
(* Signals for StagnationLadder, which MC_Toolkit runs: an infeasible      *)
(* population that drifts (1000, 999.5 in halves), one that comes closer,  *)
(* and feasible populations of two qualities and two coverages.            *)
(***************************************************************************)
EXTENDS StagnationLadder

Signal(v, f, h, c) == [violation |-> v, feasible |-> f, hv |-> h, coverage |-> c]

SomeSignals ==
  { Signal(2000, 0, 1, 1), Signal(1999, 0, 2, 2), Signal(1500, 0, 0, 1),
    Signal(0, 1, 1, 1), Signal(0, 1, 2, 2) }
=============================================================================
