-------------------------- MODULE StagnationLadder --------------------------
(***************************************************************************)
(* StagnationController fed with one generation's signals after another. *)
(* "seen" and "drought" are history variables: they judge progress from    *)
(* the signals themselves, with none of the controller's running bests.    *)
(***************************************************************************)
EXTENDS Stagnation, Sequences, FiniteSets

CONSTANTS
  Inputs,          \* the signals a generation may produce
  MaxGenerations   \* bound: n_generations of the island that observes

ASSUME InputsAssumption ==
  /\ Inputs \subseteq Signals
  /\ \A s \in Inputs : s.violation = 0 <=> s.feasible > 0
  /\ \A s \in Inputs : 1000 * s.violation < 999 * Infinite

ASSUME GenerationsAssumption == MaxGenerations \in Nat

VARIABLES
  controller,  \* the controller
  log,         \* its log: interventions, and "progress_resumed"
  observed,    \* the generations observed
  seen,        \* history: the signals observed
  drought      \* history: generations observed since the last progress

ladderVars == << controller, log, observed, seen, drought >>

\* A signal that beats everything seen before, in the sense of the docs:
\* while nothing in the population is feasible only movement toward
\* feasibility counts.
BeatsAll(s) ==
  \/ \A t \in seen : s.feasible > t.feasible
  \/ \A t \in seen : 1000 * s.violation < 999 * t.violation
  \/ s.feasible > 0 /\ \/ \A t \in seen : s.hv > t.hv
                       \/ \A t \in seen : s.coverage > t.coverage

LadderInit ==
  /\ controller = FreshController
  /\ log = << >>
  /\ observed = 0
  /\ seen = {}
  /\ drought = 0

Entry(s) ==
  CASE Fires(controller, s) -> << InterventionOf(controller, s) >>
    [] Improved(controller, s) /\ (controller.stagnant # 0 \/ controller.rung # 0) ->
         << "progress_resumed" >>
    [] OTHER -> << >>

\* observe(s).
Observe(s) ==
  /\ observed < MaxGenerations
  /\ observed' = observed + 1
  /\ controller' = Observed(controller, s)
  /\ log' = log \o Entry(s)
  /\ seen' = seen \cup {s}
  /\ drought' = IF BeatsAll(s) THEN 0 ELSE drought + 1

LadderNext == \E s \in Inputs : Observe(s)

LadderSpec == LadderInit /\ [][LadderNext]_ladderVars

\* The property "terminal".
Terminal == \E i \in DOMAIN log : log[i] = "NO_EDGE_FOUND"

-----------------------------------------------------------------------------
LadderTypeOK ==
  /\ controller \in Controllers
  /\ controller.stagnant < Patience
  /\ log \in Seq(Interventions \cup {"progress_resumed"})
  /\ observed \in 0 .. MaxGenerations
  /\ seen \subseteq Inputs
  /\ drought \in Nat

\* The rung and the stagnant count measure the drought, and nothing else: as
\* long as the ladder is not exhausted, they say how many generations passed
\* without progress, where progress is judged from all signals ever seen.
LadderMeasuresDrought ==
  /\ controller.rung < TopRung => drought = controller.rung * Patience + controller.stagnant
  /\ controller.rung = TopRung => drought >= TopRung * Patience + controller.stagnant

\* An island without hope cannot evade NO_EDGE_FOUND by shuffling infeasible
\* variety: if nothing was feasible and all violations stayed within 0.1 % of
\* each other, the verdict comes after five rungs.
HopelessIslandStops ==
  (/\ \A s, t \in seen : s.feasible = 0 /\ 1000 * s.violation >= 999 * t.violation
   /\ observed > 5 * Patience)
  => Terminal
=============================================================================
