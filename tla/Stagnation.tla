----------------------------- MODULE Stagnation -----------------------------
(***************************************************************************)
(* The stagnation controller of evoquant/search/stagnation.py, as          *)
(* operators on controller records.  A generation's signals are numbers:   *)
(* "feasible" counts the feasible members of the population (the code      *)
(* divides by its size, which is constant), and "violation" is the         *)
(* smallest total violation in units of which a thousandth still counts.   *)
(***************************************************************************)
EXTENDS Integers

CONSTANTS
  Patience,   \* stagnant generations before a rung fires
  Infinite    \* stands for float("inf") as a violation

ASSUME PatienceAssumption == Patience \in Nat \ {0}
ASSUME InfiniteAssumption == Infinite \in Nat \ {0}

\* LADDER, the escalation order; "none" stands for Python's None.
Ladder == << "LOCAL_REFINEMENT", "NOVELTY_INCREASE", "STRUCTURE_REPLACEMENT",
             "ISLAND_RESTART", "NO_EDGE_FOUND" >>
TopRung == 4

Interventions == {Ladder[i] : i \in 1 .. 5}

Signals == [hv : Nat, feasible : Nat, coverage : Nat, violation : Nat]

Controllers ==
  [ rung : 0 .. TopRung, stagnant : Nat,
    hv : Int, feasible : Int, coverage : Int, violation : Nat ]

FreshController ==
  [ rung |-> 0, stagnant |-> 0,
    hv |-> -1, feasible |-> -1, coverage |-> -1, violation |-> Infinite ]

Larger(a, b)  == IF a < b THEN b ELSE a
Smaller(a, b) == IF a < b THEN a ELSE b

\* More feasible members than ever, or the smallest violation down by at
\* least 0.1 % of the smallest so far.
TowardFeasibility(c, s) ==
  \/ s.feasible > c.feasible
  \/ 1000 * s.violation < 999 * c.violation

\* Mutant of QualityProgress: diversity counts among infeasible candidates too.
QualityOfAnything(c, s) == s.hv > c.hv \/ s.coverage > c.coverage

\* Once something is feasible, quality and diversity count as well.
QualityProgress(c, s) ==
  s.feasible > 0 /\ (s.hv > c.hv \/ s.coverage > c.coverage)

Improved(c, s) == TowardFeasibility(c, s) \/ QualityProgress(c, s)

\* Mutant of WithBests: the bests follow the last generation.
WithLast(c, s) ==
  [ c EXCEPT !.hv = s.hv, !.feasible = s.feasible,
             !.coverage = s.coverage, !.violation = s.violation ]

\* The bests so far, updated whether or not the generation was progress.
WithBests(c, s) ==
  [ c EXCEPT !.hv        = Larger(@, s.hv),
             !.feasible  = Larger(@, s.feasible),
             !.coverage  = Larger(@, s.coverage),
             !.violation = Smaller(@, s.violation) ]

Fires(c, s) == ~Improved(c, s) /\ c.stagnant + 1 >= Patience

\* Mutant of NextRung: the ladder is climbed past its top.
RungUncapped(c) == c.rung + 1

NextRung(c) == Smaller(c.rung + 1, TopRung)

\* The controller after observe(s) ...
Observed(c, s) ==
  LET b == WithBests(c, s) IN
  CASE Improved(c, s) -> [b EXCEPT !.rung = 0, !.stagnant = 0]
    [] Fires(c, s)    -> [b EXCEPT !.rung = NextRung(c), !.stagnant = 0]
    [] OTHER          -> [b EXCEPT !.stagnant = @ + 1]

\* ... and what observe(s) returns.
InterventionOf(c, s) == IF Fires(c, s) THEN Ladder[c.rung + 1] ELSE "none"
=============================================================================
