----------------------------- MODULE MC_Island -----------------------------
(***************************************************************************)
(* Instance of IslandSearch for TLC: three feasible genomes in one cell,   *)
(* of which only steady dominates another (weak), and two infeasible ones, *)
(* one of them in a cell of its own.                                       *)
(***************************************************************************)
EXTENDS IslandSearch

CONSTANTS steady, bold, weak, near, far

SomeGenomes == {steady, bold, weak, near, far}
SomeCells == {"often", "rare"}
SomeViolation ==
  [g \in SomeGenomes |-> CASE g = near -> 1 [] g = far -> 2 [] OTHER -> 0]
SomeObjectives ==
  [g \in SomeGenomes |->
     CASE g = steady -> << 1, 3 >> [] g = bold -> << 3, 1 >> [] OTHER -> << 1, 2 >>]
SomeCellOf ==
  [g \in SomeGenomes |-> IF g = far THEN "rare" ELSE "often"]
=============================================================================
