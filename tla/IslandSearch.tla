---------------------------- MODULE IslandSearch ----------------------------
(***************************************************************************)
(* One search island: the generational loop of evoquant/search/island.py   *)
(* with the ranking of nsga.py, the archive of map_elites.py and the       *)
(* stagnation controller.                                                  *)
(*                                                                         *)
(* A genome is a model value; its evaluation (cached under its hash, hence *)
(* a function of it) is its total violation, its objectives and the cell   *)
(* of its behaviour.  Which genome an operator or a random draw yields is  *)
(* left open.  Of the ranking the crowding distance and the tiebreak on    *)
(* the index are left open: they only choose among equals.                 *)
(***************************************************************************)
EXTENDS Stagnation, Sequences, FiniteSets, FiniteSetsExt, SequencesExt

CONSTANTS
  Genomes,         \* the strategies the search may come across
  Cells,           \* the behaviour cells of the archive
  Violation,       \* Violation[g]: the total violation of g
  Objectives,      \* Objectives[g]: its objectives, all maximised
  CellOf,          \* CellOf[g]: the cell its behaviour falls into
  PopulationSize,
  Generations,     \* n_generations
  RandomPercent    \* random_fraction at the start

ASSUME EvaluationAssumption ==
  /\ Violation \in [Genomes -> Nat]
  /\ Objectives \in [Genomes -> Seq(Nat)]
  /\ \A g, h \in Genomes : Len(Objectives[g]) = Len(Objectives[h])
  /\ \A g \in Genomes : Len(Objectives[g]) >= 2
  /\ CellOf \in [Genomes -> Cells]

ASSUME SizesAssumption ==
  /\ PopulationSize \in Nat \ {0, 1} /\ Generations \in Nat
  /\ RandomPercent \in 0 .. 100

VARIABLES
  pc,           \* where run() is: "init", "breed", "observe" or "done"
  generation,   \* the generations bred
  population,   \* how many members of the population are genome g
  archive,      \* the elites of the archive, at most one of a cell
  ctl,          \* the stagnation controller
  random,       \* config.random_fraction, in percent
  forced,       \* the operator pool a rung forced on the next generation
  outcome,
  evaluated,    \* the genomes with a lineage record
  recorded      \* the genomes with a candidate_evaluated event

vars == << pc, generation, population, archive, ctl, random, forced, outcome,
           evaluated, recorded >>

Phases == {"init", "breed", "observe", "done"}
Outcomes == {"RUNNING", "BUDGET_EXHAUSTED", "NO_EDGE_FOUND"}
Pools == {"none", "local", "structural"}

Members == {g \in Genomes : population[g] > 0}

-----------------------------------------------------------------------------
(***************************************************************************)
(* nsga.py                                                                 *)
(***************************************************************************)

Feasible(g) == Violation[g] = 0

ParetoDominates(g, h) ==
  /\ \A m \in DOMAIN Objectives[g] : Objectives[g][m] >= Objectives[h][m]
  /\ \E m \in DOMAIN Objectives[g] : Objectives[g][m] > Objectives[h][m]

\* constraint_dominates: a feasible candidate beats an infeasible one, among
\* infeasible ones the smaller violation wins, among feasible ones Pareto.
ConstraintDominates(g, h) ==
  IF Feasible(g) /\ Feasible(h)
  THEN ParetoDominates(g, h)
  ELSE Violation[g] < Violation[h]

\* fast_nondominated_sort on the feasible members: the i-th front is what is
\* undominated once the fronts before it are peeled off.
Fronts ==
  LET feasible == {g \in Members : Feasible(g)}
      upTo[i \in 0 .. Cardinality(feasible)] ==
        IF i = 0 THEN {}
        ELSE LET rest == feasible \ upTo[i - 1] IN
             upTo[i - 1] \cup
               {g \in rest : \A h \in rest : ~ParetoDominates(h, g)}
  IN [g \in feasible |->
        CHOOSE i \in DOMAIN upTo : g \in upTo[i] /\ g \notin upTo[i - 1]]

\* rank_population: what sorts strictly before what.
Outranks(g, h) ==
  CASE Feasible(g) /\ Feasible(h) -> Fronts[g] < Fronts[h]
    [] OTHER -> Violation[g] < Violation[h]

\* A multiset of genomes, by its counts, from a sequence of them.
Counts(s) == [g \in Genomes |-> Cardinality({i \in DOMAIN s : s[i] = g})]

\* Mutant of IsElite: the worst of the population are taken.
IsWorst(s) ==
  /\ \A g \in ToSet(s) : Counts(s)[g] <= population[g]
  /\ \A h \in {g \in Members : Counts(s)[g] < population[g]} :
       \A g \in ToSet(s) : ~Outranks(g, h)

\* s lists the first Len(s) members of a ranking of the population.
IsElite(s) ==
  /\ \A g \in ToSet(s) : Counts(s)[g] <= population[g]
  /\ \A h \in {g \in Members : Counts(s)[g] < population[g]} :
       \A g \in ToSet(s) : ~Outranks(h, g)

-----------------------------------------------------------------------------
(***************************************************************************)
(* map_elites.py                                                           *)
(***************************************************************************)

\* Mutant of TryInsert: the elite that is replaced stays.
TryInsertBeside(elites, g) ==
  IF \A e \in elites : CellOf[e] = CellOf[g] => ConstraintDominates(g, e)
  THEN elites \cup {g}
  ELSE elites

\* Mutant of TryInsert: the newcomer replaces whatever does not dominate it.
TryInsertNewest(elites, g) ==
  LET incumbents == {e \in elites : CellOf[e] = CellOf[g]} IN
  IF \A e \in incumbents : ~ConstraintDominates(e, g)
  THEN (elites \ incumbents) \cup {g}
  ELSE elites

\* try_insert: g takes a free cell, or the cell of an elite it dominates.
TryInsert(elites, g) ==
  LET incumbents == {e \in elites : CellOf[e] = CellOf[g]} IN
  IF \A e \in incumbents : ConstraintDominates(g, e)
  THEN (elites \ incumbents) \cup {g}
  ELSE elites

-----------------------------------------------------------------------------
(***************************************************************************)
(* The loop                                                                *)
(***************************************************************************)

\* _evaluate on the genomes of s, in order.
Evaluate(s) ==
  /\ archive' = FoldLeft(TryInsert, archive, s)
  /\ evaluated' = evaluated \cup ToSet(s)

\* _signals.  The hypervolume of whole-numbered points is the number of grid
\* points they dominate in the first two objectives.
CurrentSignals ==
  LET points == {<< Objectives[g][1], Objectives[g][2] >> : g \in Members}
  IN [ hv        |-> Cardinality(UNION {(1 .. p[1]) \X (1 .. p[2]) : p \in points}),
       feasible  |-> MapThenSumSet(LAMBDA g : population[g], {g \in Members : Feasible(g)}),
       coverage  |-> Cardinality(archive),
       violation |-> Min({Violation[g] : g \in Members}) ]

EliteCount == Larger(2, PopulationSize \div 4)

Init ==
  /\ pc = "init"
  /\ generation = 0
  /\ population = [g \in Genomes |-> 0]
  /\ archive = {}
  /\ ctl = FreshController
  /\ random = RandomPercent
  /\ forced = "none"
  /\ outcome = "RUNNING"
  /\ evaluated = {} /\ recorded = {}

\* What run() does once the outcome of the finished generation is known.
Continue(next) ==
  /\ outcome' = next
  /\ pc' = IF next = "RUNNING" THEN "breed" ELSE "done"

\* Mutant of BudgetOutcome: an exhausted budget is a neutral outcome.
BudgetOutcomeNeutral(lineage) ==
  IF generation < Generations THEN "RUNNING" ELSE "BUDGET_EXHAUSTED"

\* The budget backstop: after the last generation, NO_EDGE_FOUND unless the
\* lineage has a feasible candidate.
BudgetOutcome(lineage) ==
  CASE generation < Generations -> "RUNNING"
    [] \E g \in lineage : Feasible(g) -> "BUDGET_EXHAUSTED"
    [] OTHER -> "NO_EDGE_FOUND"

\* _init_population: random genomes, each evaluated and recorded.
InitPopulation ==
  /\ pc = "init"
  /\ \E s \in [1 .. PopulationSize -> Genomes] :
       /\ population' = Counts(s)
       /\ Evaluate(s)
       /\ recorded' = recorded \cup ToSet(s)
  /\ Continue(BudgetOutcome(evaluated'))
  /\ UNCHANGED << generation, ctl, random, forced >>

\* _next_generation: the elites and their children, evaluated and recorded in
\* that order.  A forced pool is used up, whether or not anything is mutated.
NextGeneration ==
  /\ pc = "breed"
  /\ pc' = "observe"
  /\ generation' = generation + 1
  /\ forced' = "none"
  /\ \E elites \in [1 .. EliteCount -> Genomes] :
       /\ IsElite(elites)
       /\ \E children \in [1 .. PopulationSize - EliteCount -> Genomes] :
            /\ population' = Counts(elites \o children)
            /\ Evaluate(elites \o children)
            /\ recorded' = recorded \cup ToSet(elites \o children)
  /\ UNCHANGED << ctl, random, outcome >>

\* The controller observes the generation and answers with "intervention".
Observes(intervention) ==
  /\ pc = "observe"
  /\ InterventionOf(ctl, CurrentSignals) = intervention
  /\ ctl' = Observed(ctl, CurrentSignals)

NoIntervention ==
  /\ Observes("none")
  /\ Continue(BudgetOutcome(evaluated))
  /\ UNCHANGED << generation, population, archive, random, forced, evaluated, recorded >>

\* LOCAL_REFINEMENT and STRUCTURE_REPLACEMENT choose the next operators.
ForcePool ==
  /\ \/ Observes("LOCAL_REFINEMENT") /\ forced' = "local"
     \/ Observes("STRUCTURE_REPLACEMENT") /\ forced' = "structural"
  /\ Continue(BudgetOutcome(evaluated))
  /\ UNCHANGED << generation, population, archive, random, evaluated, recorded >>

IncreaseNovelty ==
  /\ Observes("NOVELTY_INCREASE")
  /\ random' = Smaller(60, 2 * random)
  /\ Continue(BudgetOutcome(evaluated))
  /\ UNCHANGED << generation, population, archive, forced, evaluated, recorded >>

\* The members that are elites of the archive, each as often as it occurs.
Survivors ==
  LET kept == {s \in BoundedSeq(archive \cap Members, PopulationSize) :
                 \A g \in archive \cap Members : Counts(s)[g] = population[g]}
  IN CHOOSE s \in kept : TRUE

\* ISLAND_RESTART: survivors and fresh genomes are evaluated, not recorded,
\* before the backstop looks at the lineage.
Restart ==
  /\ Observes("ISLAND_RESTART")
  /\ \E fresh \in [1 .. PopulationSize - Len(Survivors) -> Genomes] :
       /\ population' = Counts(Survivors \o fresh)
       /\ Evaluate(Survivors \o fresh)
  /\ Continue(BudgetOutcome(evaluated'))
  /\ UNCHANGED << generation, random, forced, recorded >>

GiveUp ==
  /\ Observes("NO_EDGE_FOUND")
  /\ Continue("NO_EDGE_FOUND")
  /\ UNCHANGED << generation, population, archive, random, forced, evaluated, recorded >>

Next ==
  \/ InitPopulation \/ NextGeneration
  \/ NoIntervention \/ ForcePool \/ IncreaseNovelty \/ Restart \/ GiveUp

Spec == Init /\ [][Next]_vars

-----------------------------------------------------------------------------
(***************************************************************************)
(* Properties                                                              *)
(***************************************************************************)

\* What a full population may be: a multiset of PopulationSize genomes.
Populations == {Counts(s) : s \in [1 .. PopulationSize -> Genomes]}

TypeOK ==
  /\ pc \in Phases
  /\ generation \in 0 .. Generations
  /\ population \in [Genomes -> 0 .. PopulationSize]
  /\ pc # "init" => population \in Populations
  /\ Members \subseteq evaluated
  /\ archive \subseteq evaluated
  /\ \A g, h \in archive : CellOf[g] = CellOf[h] => g = h
  /\ ctl \in Controllers
  /\ random \in 0 .. 100
  /\ forced \in Pools
  /\ outcome \in Outcomes
  /\ evaluated \subseteq Genomes /\ recorded \subseteq evaluated

\* The archive never forgets: whatever was evaluated, in whatever order and by
\* whichever generation, its cell has an elite, and one it does not dominate.
ElitesAreUndominated ==
  \A g \in evaluated : \E e \in archive :
    CellOf[e] = CellOf[g] /\ ~ConstraintDominates(g, e)

\* Breeding never loses ground: the best member of the next generation is
\* feasible if one was, and else violates no more (elites are carried over).
BreedingKeepsBest ==
  [][ pc = "breed" => \A g \in Members : \E h \in Members' :
        ~ConstraintDominates(g, h) /\ Violation[h] <= Violation[g] ]_vars

\* A restart keeps the best: a member that constraint-dominates everything
\* else the island ever evaluated survives ISLAND_RESTART.
RestartKeepsBest ==
  [][ (pc = "observe" /\ population' # population) =>
        \A g \in Members :
          (\A h \in evaluated \ {g} : ConstraintDominates(g, h)) => g \in Members' ]_vars

\* No step of the search, neither breeding nor a restart, loses its best.
SearchKeepsBest == BreedingKeepsBest /\ RestartKeepsBest

\* The verdict is honest: running out of budget is reported only by an island
\* that found a feasible candidate, and an island that did find one gives up
\* only after it climbed the whole ladder.
VerdictIsHonest ==
  LET found == \E g \in evaluated : Feasible(g) IN
  /\ outcome = "BUDGET_EXHAUSTED" => found
  /\ outcome = "NO_EDGE_FOUND" /\ found => ctl.rung = TopRung /\ generation > 5 * Patience

-----------------------------------------------------------------------------
\* island.py: the memory store "receives a candidate_evaluated event [...] for
\* every evaluation".
EveryEvaluationIsRecorded == recorded = evaluated
=============================================================================
