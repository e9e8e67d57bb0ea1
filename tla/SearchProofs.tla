---------------------------- MODULE SearchProofs ----------------------------
(***************************************************************************)
(* Theorems about the stagnation controller and about the search island    *)
(* that runs under it, for every patience, every set of signals, every     *)
(* evaluation of the genomes and any number of generations.                *)
(*                                                                         *)
(* The ladder's inductive invariant says what the running bests are (the   *)
(* extremes of all signals seen, attained by one of them), so that the     *)
(* controller's comparisons with its bests agree with comparisons with the *)
(* history, and that the counters are exact until NO_EDGE_FOUND is logged. *)
(* The island's says that the population is a multiset of PopulationSize   *)
(* evaluated genomes, that the archive holds an undominated elite of every *)
(* cell ever visited, and that a rung stands for the generations it took.  *)
(***************************************************************************)
EXTENDS StagnationLadder, IslandSearch, SequenceTheorems, FoldLemmas, TLAPS

\* The running bests bound every signal seen, and one signal attains each.
BestsBound ==
  \A t \in seen : /\ t.hv <= controller.hv /\ t.feasible <= controller.feasible
                  /\ t.coverage <= controller.coverage /\ controller.violation <= t.violation

BestsAttained ==
  IF seen = {}
  THEN /\ controller.hv = -1 /\ controller.feasible = -1 /\ controller.coverage = -1
       /\ controller.violation = Infinite
  ELSE /\ \E t \in seen : t.hv = controller.hv
       /\ \E t \in seen : t.feasible = controller.feasible
       /\ \E t \in seen : t.coverage = controller.coverage
       /\ \E t \in seen : t.violation = controller.violation

\* Until NO_EDGE_FOUND was logged the counters are exact on the top rung too.
ExactUntilTerminal ==
  ~Terminal => drought = controller.rung * Patience + controller.stagnant

\* The signals seen leave an island without hope.
Hopeless ==
  \A s, t \in seen : s.feasible = 0 /\ 1000 * s.violation >= 999 * t.violation

\* Without hope only the first generation was progress.
HopelessDrought ==
  /\ seen = {} <=> observed = 0
  /\ Hopeless /\ observed > 0 => drought = observed - 1

LadderInv ==
  /\ LadderTypeOK
  /\ BestsBound
  /\ BestsAttained
  /\ LadderMeasuresDrought
  /\ ExactUntilTerminal
  /\ HopelessDrought

-----------------------------------------------------------------------------
LEMMA InputType ==
  ASSUME NEW s \in Inputs
  PROVE  /\ s \in Signals
         /\ s.hv \in Nat /\ s.feasible \in Nat /\ s.coverage \in Nat /\ s.violation \in Nat
         /\ s.violation < Infinite
<1>1. s \in Signals /\ 1000 * s.violation < 999 * Infinite
  BY InputsAssumption
<1>2. s.hv \in Nat /\ s.feasible \in Nat /\ s.coverage \in Nat /\ s.violation \in Nat
  BY <1>1 DEF Signals
<1>3. QED
  BY <1>1, <1>2, InfiniteAssumption

\* What observe() does to each field of the controller.
LEMMA ObservedFields ==
  ASSUME NEW c \in Controllers, NEW s \in Signals, c.stagnant < Patience
  PROVE  LET o == Observed(c, s) IN
         /\ o \in Controllers
         /\ o.hv = Larger(c.hv, s.hv)
         /\ o.feasible = Larger(c.feasible, s.feasible)
         /\ o.coverage = Larger(c.coverage, s.coverage)
         /\ o.violation = Smaller(c.violation, s.violation)
         /\ Improved(c, s) => o.rung = 0 /\ o.stagnant = 0
         /\ Fires(c, s) => o.rung = NextRung(c) /\ o.stagnant = 0
         /\ ~Improved(c, s) /\ ~Fires(c, s) =>
              o.rung = c.rung /\ o.stagnant = c.stagnant + 1
<1> DEFINE b == WithBests(c, s)
<1>1. /\ c.rung \in 0 .. TopRung /\ c.stagnant \in Nat
      /\ c.hv \in Int /\ c.feasible \in Int /\ c.coverage \in Int /\ c.violation \in Nat
      /\ s.hv \in Nat /\ s.feasible \in Nat /\ s.coverage \in Nat /\ s.violation \in Nat
  BY DEF Controllers, Signals
<1>2. /\ Larger(c.hv, s.hv) \in Int /\ Larger(c.feasible, s.feasible) \in Int
      /\ Larger(c.coverage, s.coverage) \in Int /\ Smaller(c.violation, s.violation) \in Nat
  BY <1>1 DEF Larger, Smaller
<1>3. NextRung(c) \in 0 .. TopRung
  BY <1>1 DEF NextRung, Smaller, TopRung
<1>4. /\ b \in Controllers
      /\ b.rung = c.rung /\ b.stagnant = c.stagnant
      /\ b.hv = Larger(c.hv, s.hv) /\ b.feasible = Larger(c.feasible, s.feasible)
      /\ b.coverage = Larger(c.coverage, s.coverage)
      /\ b.violation = Smaller(c.violation, s.violation)
  BY <1>1, <1>2 DEF WithBests, Controllers
<1> HIDE DEF b
<1>5. Observed(c, s) = CASE Improved(c, s) -> [b EXCEPT !.rung = 0, !.stagnant = 0]
                         [] Fires(c, s) -> [b EXCEPT !.rung = NextRung(c), !.stagnant = 0]
                         [] OTHER -> [b EXCEPT !.stagnant = @ + 1]
  BY DEF Observed, b
<1>6. CASE Improved(c, s)
  <2> DEFINE m == [b EXCEPT !.rung = 0]
  <2>1. Observed(c, s) = [m EXCEPT !.stagnant = 0]
    BY <1>5, <1>6 DEF Fires
  <2>2. /\ m \in Controllers /\ m.rung = 0
        /\ m.hv = b.hv /\ m.feasible = b.feasible
        /\ m.coverage = b.coverage /\ m.violation = b.violation
    BY <1>4 DEF Controllers, TopRung
  <2> HIDE DEF m
  <2>3. QED
    BY <1>4, <1>6, <2>1, <2>2 DEF Controllers, Fires
<1>7. CASE Fires(c, s)
  <2> DEFINE m == [b EXCEPT !.rung = NextRung(c)]
  <2>1. Observed(c, s) = [m EXCEPT !.stagnant = 0]
    BY <1>5, <1>7 DEF Fires
  <2>2. /\ m \in Controllers /\ m.rung = NextRung(c)
        /\ m.hv = b.hv /\ m.feasible = b.feasible
        /\ m.coverage = b.coverage /\ m.violation = b.violation
    BY <1>3, <1>4 DEF Controllers
  <2>3. ~Improved(c, s)
    BY <1>7 DEF Fires
  <2> HIDE DEF m
  <2>4. QED
    BY <1>4, <1>7, <2>1, <2>2, <2>3 DEF Controllers
<1>8. CASE ~Improved(c, s) /\ ~Fires(c, s)
  <2>1. Observed(c, s) = [b EXCEPT !.stagnant = @ + 1]
    BY <1>5, <1>8
  <2>2. QED
    BY <1>1, <1>4, <1>8, <2>1 DEF Controllers
<1>9. QED
  BY <1>6, <1>7, <1>8

\* The controller's bests judge progress as the whole history does.
LEMMA BestsJudgeHistory ==
  ASSUME LadderInv, NEW s \in Inputs
  PROVE  BeatsAll(s) <=> Improved(controller, s)
<1>1. /\ s.hv \in Nat /\ s.feasible \in Nat /\ s.coverage \in Nat /\ s.violation \in Nat
  BY InputType
<1>2. /\ controller.hv \in Int /\ controller.feasible \in Int /\ controller.coverage \in Int
      /\ controller.violation \in Nat
  BY DEF LadderInv, LadderTypeOK, Controllers
<1>3. \A t \in seen : /\ t.hv \in Nat /\ t.feasible \in Nat
                      /\ t.coverage \in Nat /\ t.violation \in Nat
  BY InputType DEF LadderInv, LadderTypeOK
<1>4. CASE seen = {}
  BY <1>1, <1>4 DEF LadderInv, BestsAttained, BeatsAll, Improved, TowardFeasibility
<1>5. CASE seen # {}
  <2>1. (\A t \in seen : s.feasible > t.feasible) <=> s.feasible > controller.feasible
    BY <1>1, <1>2, <1>3, <1>5 DEF LadderInv, BestsBound, BestsAttained
  <2>2. (\A t \in seen : 1000 * s.violation < 999 * t.violation)
          <=> 1000 * s.violation < 999 * controller.violation
    BY <1>1, <1>2, <1>3, <1>5 DEF LadderInv, BestsBound, BestsAttained
  <2>3. (\A t \in seen : s.hv > t.hv) <=> s.hv > controller.hv
    BY <1>1, <1>2, <1>3, <1>5 DEF LadderInv, BestsBound, BestsAttained
  <2>4. (\A t \in seen : s.coverage > t.coverage) <=> s.coverage > controller.coverage
    BY <1>1, <1>2, <1>3, <1>5 DEF LadderInv, BestsBound, BestsAttained
  <2>5. QED
    BY <2>1, <2>2, <2>3, <2>4
       DEF BeatsAll, Improved, TowardFeasibility, QualityProgress
<1>6. QED
  BY <1>4, <1>5

-----------------------------------------------------------------------------
LEMMA InitLadder == LadderInit => LadderInv
<1> SUFFICES ASSUME LadderInit PROVE LadderInv
  OBVIOUS
<1>1. /\ controller \in Controllers /\ controller.stagnant < Patience
  BY PatienceAssumption, InfiniteAssumption
     DEF LadderInit, FreshController, Controllers, TopRung
<1>2. LadderTypeOK
  BY <1>1, GenerationsAssumption DEF LadderInit, LadderTypeOK
<1>3. BestsBound /\ BestsAttained
  BY DEF LadderInit, BestsBound, BestsAttained, FreshController
<1>4. LadderMeasuresDrought /\ ExactUntilTerminal
  BY PatienceAssumption
     DEF LadderInit, LadderMeasuresDrought, ExactUntilTerminal, FreshController, TopRung
<1>5. HopelessDrought
  BY DEF LadderInit, HopelessDrought
<1>6. QED
  BY <1>2, <1>3, <1>4, <1>5 DEF LadderInv

\* What one call of observe appends to the log.
LEMMA EntryLog ==
  ASSUME LadderInv, NEW s \in Inputs, Observe(s)
  PROVE  /\ log' \in Seq(Interventions \cup {"progress_resumed"})
         /\ Terminal => Terminal'
         /\ Fires(controller, s) /\ controller.rung = TopRung => Terminal'
<1>1. log \in Seq(Interventions \cup {"progress_resumed"}) /\ controller.rung \in 0 .. TopRung
  BY DEF LadderInv, LadderTypeOK, Controllers
<1>2. Ladder[controller.rung + 1] \in Interventions
  BY <1>1 DEF Interventions, TopRung
<1>3. CASE Fires(controller, s)
  <2> DEFINE e == Ladder[controller.rung + 1]
  <2>1. log' = log \o << e >>
    <3>1. Entry(s) = << InterventionOf(controller, s) >>
      BY <1>3 DEF Entry, Fires
    <3>2. QED
      BY <1>3, <3>1 DEF Observe, InterventionOf
  <2>2. controller.rung = TopRung => e = "NO_EDGE_FOUND"
    BY DEF Ladder, TopRung
  <2> HIDE DEF e
  <2>3. e \in Interventions
    BY <1>2 DEF e
  <2>4. log' = Append(log, e)
    BY <1>1, <2>1, <2>3, AppendIsConcat
  <2>5. QED
    BY <1>1, <2>2, <2>3, <2>4 DEF Terminal
<1>4. CASE ~Fires(controller, s)
  <2>1. log' = log \o << "progress_resumed" >> \/ log' = log \o << >>
    BY <1>4 DEF Observe, Entry
  <2>2. log' = Append(log, "progress_resumed") \/ log' = log
    BY <1>1, <2>1, AppendIsConcat, ConcatEmptySeq
  <2>3. QED
    BY <1>1, <1>4, <2>2 DEF Terminal
<1>5. QED
  BY <1>3, <1>4

LEMMA Multiples ==
  ASSUME NEW r \in Nat
  PROVE  /\ (r + 1) * Patience = r * Patience + Patience
         /\ r * Patience \in Nat /\ 0 * Patience = 0
BY PatienceAssumption

LEMMA ObserveLadder ==
  ASSUME LadderInv, NEW s \in Inputs, Observe(s)
  PROVE  LadderInv'
<1>1. /\ controller \in Controllers /\ controller.stagnant < Patience /\ controller.stagnant \in Nat
      /\ controller.rung \in 0 .. TopRung /\ drought \in Nat /\ observed \in Nat
  BY GenerationsAssumption DEF LadderInv, LadderTypeOK, Controllers
<1>2. /\ s \in Signals /\ s.violation < Infinite
      /\ s.hv \in Nat /\ s.feasible \in Nat /\ s.coverage \in Nat /\ s.violation \in Nat
  BY InputType
<1>3. /\ controller' \in Controllers
      /\ controller'.hv = Larger(controller.hv, s.hv)
      /\ controller'.feasible = Larger(controller.feasible, s.feasible)
      /\ controller'.coverage = Larger(controller.coverage, s.coverage)
      /\ controller'.violation = Smaller(controller.violation, s.violation)
      /\ Improved(controller, s) => controller'.rung = 0 /\ controller'.stagnant = 0
      /\ Fires(controller, s) => controller'.rung = NextRung(controller) /\ controller'.stagnant = 0
      /\ ~Improved(controller, s) /\ ~Fires(controller, s) =>
           controller'.rung = controller.rung /\ controller'.stagnant = controller.stagnant + 1
  BY <1>1, <1>2, ObservedFields DEF Observe
<1>4. seen' = seen \cup {s}
  BY DEF Observe
<1>5. drought' = IF Improved(controller, s) THEN 0 ELSE drought + 1
  BY BestsJudgeHistory DEF Observe
<1>6. LadderTypeOK'
  <2>1. controller'.stagnant < Patience
    BY <1>1, <1>3, PatienceAssumption DEF Fires
  <2>2. drought' \in Nat
    BY <1>1, <1>5
  <2>3. observed' \in 0 .. MaxGenerations
    BY <1>1, GenerationsAssumption DEF Observe
  <2>4. seen' \subseteq Inputs
    BY <1>4 DEF LadderInv, LadderTypeOK
  <2>5. QED
    BY <1>3, <2>1, <2>2, <2>3, <2>4, EntryLog DEF LadderTypeOK
<1>7. BestsBound'
  <2>1. /\ controller.hv \in Int /\ controller.feasible \in Int /\ controller.coverage \in Int
        /\ controller.violation \in Nat
    BY <1>1 DEF Controllers
  <2>2. ASSUME NEW t \in seen'
        PROVE  /\ t.hv <= controller'.hv /\ t.feasible <= controller'.feasible
               /\ t.coverage <= controller'.coverage /\ controller'.violation <= t.violation
    <3>1. /\ t.hv \in Nat /\ t.feasible \in Nat /\ t.coverage \in Nat /\ t.violation \in Nat
      BY <1>6, InputType DEF LadderTypeOK
    <3>2. CASE t = s
      BY <1>2, <1>3, <2>1, <3>2 DEF Larger, Smaller
    <3>3. CASE t \in seen
      BY <1>2, <1>3, <2>1, <3>1, <3>3 DEF Larger, Smaller, LadderInv, BestsBound
    <3>4. QED
      BY <1>4, <3>2, <3>3
  <2>3. QED
    BY <2>2 DEF BestsBound
<1>8. BestsAttained'
  <2>1. /\ controller.hv \in Int /\ controller.feasible \in Int /\ controller.coverage \in Int
        /\ controller.violation \in Nat
    BY <1>1 DEF Controllers
  <2>2. s \in seen' /\ seen \subseteq seen'
    BY <1>4
  <2>3. CASE seen = {}
    <3>1. /\ controller'.hv = s.hv /\ controller'.feasible = s.feasible
          /\ controller'.coverage = s.coverage /\ controller'.violation = s.violation
      BY <1>2, <1>3, <2>3, InfiniteAssumption DEF LadderInv, BestsAttained, Larger, Smaller
    <3>2. QED
      BY <2>2, <3>1 DEF BestsAttained
  <2>4. CASE seen # {}
    <3>1. controller'.hv \in {controller.hv, s.hv} /\ controller'.feasible \in {controller.feasible, s.feasible}
      BY <1>3 DEF Larger
    <3>2. controller'.coverage \in {controller.coverage, s.coverage}
          /\ controller'.violation \in {controller.violation, s.violation}
      BY <1>3 DEF Larger, Smaller
    <3>3. QED
      BY <2>2, <2>4, <3>1, <3>2 DEF LadderInv, BestsAttained
  <2>5. QED
    BY <2>3, <2>4
<1>9. LadderMeasuresDrought' /\ ExactUntilTerminal'
  <2>1. CASE Improved(controller, s)
    BY <1>3, <1>5, <2>1, Multiples DEF LadderMeasuresDrought, ExactUntilTerminal, TopRung
  <2>2. CASE Fires(controller, s)
    <3>1. controller.stagnant = Patience - 1 /\ drought' = drought + 1
      BY <1>1, <1>5, <2>2, PatienceAssumption DEF Fires
    <3>2. CASE controller.rung < TopRung
      <4>1. controller'.rung = controller.rung + 1 /\ controller'.stagnant = 0
        BY <1>1, <1>3, <2>2, <3>2 DEF NextRung, Smaller, TopRung
      <4>2. drought' = (controller.rung + 1) * Patience
        <5>1. drought = controller.rung * Patience + controller.stagnant
          BY <3>2 DEF LadderInv, LadderMeasuresDrought
        <5>2. controller.rung \in Nat
          BY <1>1 DEF TopRung
        <5>3. QED
          BY <1>1, <3>1, <5>1, <5>2, Multiples, PatienceAssumption
      <4>3. drought' = controller'.rung * Patience + controller'.stagnant
        BY <1>1, <4>1, <4>2, Multiples DEF TopRung
      <4>4. QED
        BY <1>6, <4>3 DEF LadderMeasuresDrought, ExactUntilTerminal, LadderTypeOK
    <3>3. CASE controller.rung = TopRung
      <4>1. controller'.rung = TopRung /\ controller'.stagnant = 0
        BY <1>3, <2>2, <3>3 DEF NextRung, Smaller, TopRung
      <4>2. Terminal'
        BY <2>2, <3>3, EntryLog
      <4>3. drought >= TopRung * Patience + controller.stagnant /\ TopRung * Patience \in Nat
        BY <3>3, Multiples DEF LadderInv, LadderMeasuresDrought, TopRung
      <4>4. drought' >= TopRung * Patience + controller'.stagnant
        BY <1>1, <3>1, <4>1, <4>3
      <4>5. QED
        BY <4>1, <4>2, <4>4 DEF LadderMeasuresDrought, ExactUntilTerminal, TopRung
    <3>4. QED
      BY <1>1, <3>2, <3>3 DEF TopRung
  <2>3. CASE ~Improved(controller, s) /\ ~Fires(controller, s)
    <3>1. /\ controller'.rung = controller.rung /\ controller'.stagnant = controller.stagnant + 1
          /\ drought' = drought + 1
      BY <1>3, <1>5, <2>3
    <3>2. controller.rung \in Nat /\ controller.rung * Patience \in Nat /\ TopRung * Patience \in Nat
      BY <1>1, Multiples DEF TopRung
    <3>3. LadderMeasuresDrought'
      BY <1>1, <3>1, <3>2 DEF LadderInv, LadderMeasuresDrought
    <3>4. ExactUntilTerminal'
      BY <1>1, <3>1, <3>2, EntryLog DEF LadderInv, ExactUntilTerminal
    <3>5. QED
      BY <3>3, <3>4
  <2>4. QED
    BY <2>1, <2>2, <2>3
<1>10. HopelessDrought'
  <2>1. seen' # {} /\ observed' = observed + 1
    BY <1>4 DEF Observe
  <2>2. ASSUME Hopeless' PROVE drought' = observed' - 1
    <3>1. Hopeless
      BY <1>4, <2>2 DEF Hopeless
    <3>2. CASE seen = {}
      <4>1. BeatsAll(s)
        BY <3>2 DEF BeatsAll
      <4>2. observed = 0
        BY <3>2 DEF LadderInv, HopelessDrought
      <4>3. QED
        BY <2>1, <4>1, <4>2 DEF Observe
    <3>3. CASE seen # {}
      <4>1. PICK t \in seen : TRUE
        BY <3>3
      <4>2. t.violation \in Nat /\ t.feasible \in Nat /\ t.feasible = 0
        BY <2>2, <4>1, <1>4, InputType DEF LadderInv, LadderTypeOK, Hopeless
      <4>3. s.feasible = 0 /\ 1000 * s.violation >= 999 * t.violation
        BY <2>2, <1>4 DEF Hopeless
      <4>4. ~BeatsAll(s)
        BY <1>2, <4>2, <4>3 DEF BeatsAll
      <4>5. drought = observed - 1 /\ observed > 0
        BY <1>1, <3>1, <3>3 DEF LadderInv, HopelessDrought
      <4>6. QED
        BY <1>1, <2>1, <4>4, <4>5 DEF Observe
    <3>4. QED
      BY <3>2, <3>3
  <2>3. QED
    BY <1>1, <2>1, <2>2 DEF HopelessDrought
<1>11. QED
  BY <1>6, <1>7, <1>8, <1>9, <1>10 DEF LadderInv

LEMMA NextLadder == LadderInv /\ [LadderNext]_ladderVars => LadderInv'
<1> SUFFICES ASSUME LadderInv, [LadderNext]_ladderVars PROVE LadderInv'
  OBVIOUS
<1>1. CASE LadderNext
  BY <1>1, ObserveLadder DEF LadderNext
<1>2. CASE UNCHANGED ladderVars
  BY <1>2 DEF ladderVars, LadderInv, LadderTypeOK, BestsBound, BestsAttained, LadderMeasuresDrought,
              ExactUntilTerminal, HopelessDrought, Hopeless, Terminal
<1>3. QED
  BY <1>1, <1>2

LEMMA LadderInvariance == LadderSpec => []LadderInv
BY InitLadder, NextLadder, PTL DEF LadderSpec

\* An island whose signals leave no hope has logged NO_EDGE_FOUND after five
\* rungs, whatever the patience.
LEMMA HopelessFromIInv == LadderInv => HopelessIslandStops
<1> SUFFICES ASSUME LadderInv, Hopeless, observed > 5 * Patience, ~Terminal
             PROVE  FALSE
  BY DEF HopelessIslandStops, Hopeless
<1>1. /\ controller.rung \in 0 .. 4 /\ controller.stagnant \in Nat /\ controller.stagnant < Patience
      /\ observed \in Nat /\ Patience \in Nat \ {0}
  BY PatienceAssumption, GenerationsAssumption DEF LadderInv, LadderTypeOK, Controllers, TopRung
<1>2. drought = observed - 1
  BY <1>1 DEF LadderInv, HopelessDrought
<1>3. drought = controller.rung * Patience + controller.stagnant
  BY DEF LadderInv, ExactUntilTerminal
<1>4. controller.rung * Patience <= 4 * Patience
  BY <1>1
<1>5. QED
  BY <1>1, <1>2, <1>3, <1>4

-----------------------------------------------------------------------------
\* The controller is well typed: its rung stays on the ladder and its
\* stagnant count below the patience (observe).
THEOREM LadderTypeCorrect == LadderSpec => []LadderTypeOK
<1>1. LadderInv => LadderTypeOK
  BY DEF LadderInv
<1>2. QED
  BY <1>1, LadderInvariance, PTL

\* The controller, which remembers four running bests, measures the number of
\* generations without progress as judged from the whole history (observe).
THEOREM LadderAlwaysMeasures == LadderSpec => []LadderMeasuresDrought
<1>1. LadderInv => LadderMeasuresDrought
  BY DEF LadderInv
<1>2. QED
  BY <1>1, LadderInvariance, PTL

\* No island without hope evades NO_EDGE_FOUND for more than five rungs, by
\* whatever variety it shuffles (the docstring of observe).
THEOREM HopelessAlwaysStops == LadderSpec => []HopelessIslandStops
BY HopelessFromIInv, LadderInvariance, PTL

-----------------------------------------------------------------------------
(* The island: its populations.                                            *)

LEMMA IslandSizes ==
  /\ PopulationSize \in Nat /\ PopulationSize >= 2
  /\ EliteCount \in Nat /\ EliteCount >= 2 /\ EliteCount <= PopulationSize
  /\ Generations \in Nat /\ RandomPercent \in 0 .. 100
  /\ Patience \in Nat /\ Patience >= 1
<1>1. PopulationSize \in Nat /\ PopulationSize >= 2
  BY SizesAssumption
<1>2. PopulationSize \div 4 \in Nat /\ PopulationSize \div 4 <= PopulationSize
  BY <1>1
<1>3. EliteCount \in Nat /\ EliteCount >= 2 /\ EliteCount <= PopulationSize
  BY <1>1, <1>2 DEF EliteCount, Larger
<1> QED BY <1>1, <1>3, SizesAssumption, PatienceAssumption

\* A genome's evaluation.
LEMMA Evaluations ==
  /\ \A g \in Genomes : /\ Violation[g] \in Nat /\ CellOf[g] \in Cells
                         /\ Objectives[g] \in Seq(Nat)
                         /\ Objectives[g][1] \in Nat /\ Objectives[g][2] \in Nat
  /\ \A g, h \in Genomes : DOMAIN Objectives[g] = DOMAIN Objectives[h]
<1>1. ASSUME NEW g \in Genomes
      PROVE  /\ Violation[g] \in Nat /\ CellOf[g] \in Cells
             /\ Objectives[g] \in Seq(Nat)
             /\ Objectives[g][1] \in Nat /\ Objectives[g][2] \in Nat
  <2>1. Objectives[g] \in Seq(Nat) /\ Len(Objectives[g]) >= 2
    BY EvaluationAssumption
  <2> QED BY <2>1, EvaluationAssumption
<1>2. ASSUME NEW g \in Genomes, NEW h \in Genomes
      PROVE  DOMAIN Objectives[g] = DOMAIN Objectives[h]
  <2>1. Len(Objectives[g]) = Len(Objectives[h])
    BY EvaluationAssumption
  <2> QED BY <1>1, <2>1
<1> QED BY <1>1, <1>2

\* The members of a counted sequence are its elements.
LEMMA CountsType ==
  ASSUME NEW n \in Nat, NEW s \in [1 .. n -> Genomes]
  PROVE  /\ Counts(s) \in [Genomes -> 0 .. n]
         /\ \A g \in Genomes : Counts(s)[g] > 0 <=> g \in ToSet(s)
         /\ \A g \in Genomes : /\ Counts(s)[g] = Cardinality({i \in 1 .. n : s[i] = g})
                               /\ IsFiniteSet({i \in 1 .. n : s[i] = g})
         /\ ToSet(s) \subseteq Genomes /\ IsFiniteSet(ToSet(s))
<1>1. ASSUME NEW g \in Genomes
      PROVE  /\ IsFiniteSet({i \in 1 .. n : s[i] = g})
             /\ Cardinality({i \in 1 .. n : s[i] = g}) \in 0 .. n
             /\ Cardinality({i \in 1 .. n : s[i] = g}) > 0 <=> g \in ToSet(s)
  <2> DEFINE I == {i \in 1 .. n : s[i] = g}
  <2>1. IsFiniteSet(1 .. n) /\ Cardinality(1 .. n) = n
    BY FS_Interval
  <2>2. I \in SUBSET (1 .. n)
    OBVIOUS
  <2>3. g \in ToSet(s) <=> I # {}
    BY DEF ToSet
  <2> HIDE DEF I
  <2>8. \A T \in SUBSET (1 .. n) : IsFiniteSet(T) /\ Cardinality(T) <= Cardinality(1 .. n)
    BY <2>1, FS_Subset
  <2>7. IsFiniteSet(I) /\ Cardinality(I) <= n
    BY <2>1, <2>2, <2>8
  <2>4. IsFiniteSet(I) /\ Cardinality(I) <= n /\ Cardinality(I) \in Nat
    BY <2>7, FS_CardinalityType
  <2>5. Cardinality(I) = 0 <=> I = {}
    BY <2>4, FS_EmptySet
  <2>6. /\ IsFiniteSet(I) /\ Cardinality(I) \in 0 .. n
        /\ Cardinality(I) > 0 <=> g \in ToSet(s)
    BY <2>3, <2>4, <2>5
  <2> QED BY <2>6 DEF I
<1>2. DOMAIN s = 1 .. n
  OBVIOUS
<1>3. \A g \in Genomes : Counts(s)[g] = Cardinality({i \in 1 .. n : s[i] = g})
  BY <1>2 DEF Counts
<1>4. Counts(s) \in [Genomes -> 0 .. n]
  BY <1>1, <1>2 DEF Counts
<1>5. \A g \in Genomes : Counts(s)[g] > 0 <=> g \in ToSet(s)
  BY <1>1, <1>3
<1>6. ToSet(s) \subseteq Genomes
  BY DEF ToSet
<1>7. IsFiniteSet(ToSet(s))
  <2>1. s \in Surjection(1 .. n, ToSet(s))
    BY DEF Surjection, ToSet
  <2>2. IsFiniteSet(1 .. n)
    BY FS_Interval
  <2> QED BY <2>1, <2>2, FS_Surjection
<1> QED BY <1>1, <1>3, <1>4, <1>5, <1>6, <1>7

\* One sequence after another.
LEMMA Concatenated ==
  ASSUME NEW m \in Nat, NEW n \in Nat,
         NEW s \in [1 .. m -> Genomes], NEW t \in [1 .. n -> Genomes]
  PROVE  /\ s \o t \in [1 .. (m + n) -> Genomes]
         /\ ToSet(s \o t) = ToSet(s) \cup ToSet(t)
<1>1. s \in Seq(Genomes) /\ t \in Seq(Genomes) /\ Len(s) = m /\ Len(t) = n
  OBVIOUS
<1>2. s \o t \in Seq(Genomes) /\ Len(s \o t) = m + n
  BY <1>1, ConcatProperties
<1>3. s \o t \in [1 .. (m + n) -> Genomes]
  BY <1>2, LenProperties
<1>4. \A i \in 1 .. (m + n) : (s \o t)[i] = IF i <= m THEN s[i] ELSE t[i - m]
  BY <1>1
<1>5. ASSUME NEW i \in 1 .. (m + n) PROVE (s \o t)[i] \in ToSet(s) \cup ToSet(t)
  <2>1. CASE i <= m
    <3>1. i \in 1 .. m
      BY <2>1
    <3> QED BY <1>4, <2>1, <3>1 DEF ToSet
  <2>2. CASE ~(i <= m)
    <3>1. i - m \in 1 .. n
      BY <2>2
    <3> QED BY <1>4, <2>2, <3>1 DEF ToSet
  <2> QED BY <2>1, <2>2
<1>6. ASSUME NEW i \in 1 .. m PROVE s[i] \in ToSet(s \o t)
  <2>1. i \in 1 .. (m + n) /\ i <= m
    OBVIOUS
  <2>2. (s \o t)[i] = s[i]
    BY <1>4, <2>1
  <2> HIDE DEF ToSet
  <2> QED BY <1>3, <2>1, <2>2 DEF ToSet
<1>7. ASSUME NEW i \in 1 .. n PROVE t[i] \in ToSet(s \o t)
  <2>1. m + i \in 1 .. (m + n) /\ ~(m + i <= m) /\ (m + i) - m = i
    OBVIOUS
  <2>2. (s \o t)[m + i] = t[i]
    BY <1>4, <2>1
  <2> QED BY <1>3, <2>1, <2>2 DEF ToSet
<1>8. ToSet(s \o t) \subseteq ToSet(s) \cup ToSet(t)
  BY <1>3, <1>5 DEF ToSet
<1>9. ToSet(s) \subseteq ToSet(s \o t) /\ ToSet(t) \subseteq ToSet(s \o t)
  BY <1>6, <1>7 DEF ToSet
<1> QED BY <1>3, <1>8, <1>9

-----------------------------------------------------------------------------
(* The island: domination and the archive.                                 *)

\* elites is what try_insert may leave of the candidates in lineage.
ArchiveOf(elites, lineage) ==
  /\ elites \subseteq lineage
  /\ \A g, h \in elites : CellOf[g] = CellOf[h] => g = h
  /\ \A g \in lineage : \E e \in elites :
       CellOf[e] = CellOf[g] /\ ~ConstraintDominates(g, e)

LEMMA ParetoOrder ==
  /\ \A g \in Genomes : ~ParetoDominates(g, g)
  /\ \A f, g, h \in Genomes :
       ParetoDominates(f, g) /\ ParetoDominates(g, h) => ParetoDominates(f, h)
<1>1. ASSUME NEW g \in Genomes PROVE ~ParetoDominates(g, g)
  <2>1. \A m \in DOMAIN Objectives[g] : Objectives[g][m] \in Nat
    BY Evaluations
  <2> QED BY <2>1 DEF ParetoDominates
<1>2. ASSUME NEW f \in Genomes, NEW g \in Genomes, NEW h \in Genomes,
             ParetoDominates(f, g), ParetoDominates(g, h)
      PROVE  ParetoDominates(f, h)
  <2>1. /\ DOMAIN Objectives[f] = DOMAIN Objectives[g]
        /\ DOMAIN Objectives[g] = DOMAIN Objectives[h]
    BY Evaluations
  <2> DEFINE M == DOMAIN Objectives[f]
  <2>8. ASSUME NEW x \in Genomes PROVE \A m \in DOMAIN Objectives[x] : Objectives[x][m] \in Nat
    BY Evaluations
  <2>2. \A m \in M : /\ Objectives[f][m] \in Nat /\ Objectives[g][m] \in Nat
                     /\ Objectives[h][m] \in Nat
    BY <2>1, <2>8
  <2>3. PICK k \in M : Objectives[f][k] > Objectives[g][k]
    BY <1>2 DEF ParetoDominates
  <2>4. \A m \in M : Objectives[f][m] >= Objectives[g][m]
    BY <1>2 DEF ParetoDominates
  <2>5. \A m \in M : Objectives[g][m] >= Objectives[h][m]
    BY <1>2, <2>1 DEF ParetoDominates
  <2> HIDE DEF M
  <2>6. \A m \in M : Objectives[f][m] >= Objectives[h][m]
    BY <2>2, <2>4, <2>5
  <2>7. Objectives[f][k] > Objectives[h][k]
    BY <2>2, <2>3, <2>5
  <2> QED BY <2>6, <2>7 DEF M, ParetoDominates
<1> QED BY <1>1, <1>2

LEMMA ConstraintOrder ==
  /\ \A g \in Genomes : ~ConstraintDominates(g, g)
  /\ \A f, g, h \in Genomes :
       ConstraintDominates(f, g) /\ ConstraintDominates(g, h) => ConstraintDominates(f, h)
<1>1. \A g \in Genomes : Violation[g] \in Nat
  BY Evaluations
<1>2. \A g \in Genomes : ~ConstraintDominates(g, g)
  BY <1>1, ParetoOrder DEF ConstraintDominates, Feasible
<1>3. ASSUME NEW f \in Genomes, NEW g \in Genomes, NEW h \in Genomes,
             ConstraintDominates(f, g), ConstraintDominates(g, h)
      PROVE  ConstraintDominates(f, h)
  <2>1. CASE Feasible(f) /\ Feasible(g) /\ Feasible(h)
    BY <1>3, <2>1, ParetoOrder DEF ConstraintDominates
  <2>2. CASE ~(Feasible(f) /\ Feasible(g) /\ Feasible(h))
    <3>1. Violation[f] <= Violation[g] /\ Violation[g] <= Violation[h]
      BY <1>1, <1>3 DEF ConstraintDominates, Feasible
    <3>2. Violation[f] < Violation[h]
      BY <1>1, <1>3, <2>2, <3>1 DEF ConstraintDominates, Feasible
    <3>3. ~(Feasible(f) /\ Feasible(h))
      BY <1>1, <3>2 DEF Feasible
    <3> QED BY <3>2, <3>3 DEF ConstraintDominates
  <2> QED BY <2>1, <2>2
<1> QED BY <1>2, <1>3

\* One candidate more, and the archive still is one of all candidates.
LEMMA InsertKeepsArchive ==
  ASSUME NEW L \in SUBSET Genomes, NEW E, ArchiveOf(E, L), NEW g \in Genomes
  PROVE  ArchiveOf(TryInsert(E, g), L \cup {g})
<1> DEFINE incumbents == {e \in E : CellOf[e] = CellOf[g]}
<1>1. E \subseteq Genomes /\ E \subseteq L
  BY DEF ArchiveOf
<1>2. CASE \A e \in incumbents : ConstraintDominates(g, e)
  <2> DEFINE N == (E \ incumbents) \cup {g}
  <2>1. TryInsert(E, g) = N
    BY <1>2 DEF TryInsert
  <2>2. N \subseteq L \cup {g}
    BY <1>1
  <2>3. \A x, y \in N : CellOf[x] = CellOf[y] => x = y
    BY DEF ArchiveOf
  <2>4. ASSUME NEW x \in L
        PROVE  \E e \in N : CellOf[e] = CellOf[x] /\ ~ConstraintDominates(x, e)
    <3>1. PICK e \in E : CellOf[e] = CellOf[x] /\ ~ConstraintDominates(x, e)
      BY DEF ArchiveOf
    <3>2. CASE e \in incumbents
      <4>1. ConstraintDominates(g, e) /\ CellOf[g] = CellOf[x]
        BY <1>2, <3>1, <3>2
      <4>2. ~ConstraintDominates(x, g)
        BY <1>1, <3>1, <4>1, ConstraintOrder
      <4> QED BY <4>1, <4>2
    <3>3. CASE e \notin incumbents
      BY <3>1, <3>3
    <3> QED BY <3>2, <3>3
  <2>5. \E e \in N : CellOf[e] = CellOf[g] /\ ~ConstraintDominates(g, e)
    BY ConstraintOrder
  <2> HIDE DEF N
  <2> QED BY <2>1, <2>2, <2>3, <2>4, <2>5 DEF ArchiveOf
<1>3. CASE ~(\A e \in incumbents : ConstraintDominates(g, e))
  <2>1. TryInsert(E, g) = E
    BY <1>3 DEF TryInsert
  <2>2. \E e \in E : CellOf[e] = CellOf[g] /\ ~ConstraintDominates(g, e)
    BY <1>3
  <2> QED BY <2>1, <2>2 DEF ArchiveOf
<1> QED BY <1>2, <1>3

\* _evaluate inserts the genomes of a sequence one by one.
LEMMA EvaluationRuns ==
  ASSUME NEW n \in Nat, NEW s \in [1 .. n -> Genomes], NEW E \in SUBSET Genomes
  PROVE  \E run \in [0 .. n -> SUBSET Genomes] :
           /\ run[0] = E /\ run[n] = FoldLeft(TryInsert, E, s)
           /\ \A i \in 1 .. n : run[i] = TryInsert(run[i - 1], s[i])
<1> DEFINE V == SUBSET Genomes
           D == 1 .. n
           step == [p \in V \X Genomes |-> TryInsert(p[1], p[2])]
           Recursion(it) ==
             it = [q \in SUBSET D |->
                     IF q = {} THEN E ELSE TryInsert(it[q \ {Max(q)}], s[Max(q)])]
           it == CHOOSE it : Recursion(it)
<1>1. FoldLeft(TryInsert, E, s) = it[D]
  <2>1. DOMAIN s = D
    OBVIOUS
  <2> QED BY <2>1 DEF FoldLeft, MapThenFoldSet
<1>2. \A v \in V : \A g \in Genomes : TryInsert(v, g) \in V
  BY DEF TryInsert
<1>3. step \in [V \X Genomes -> V]
  BY <1>2
<1>4. \A v \in V : \A g \in Genomes : step[<< v, g >>] = TryInsert(v, g)
  OBVIOUS
<1>5. \A q \in SUBSET D : q # {} => Max(q) \in q
  BY MaxIndex
<1> HIDE DEF step
<1>6. PICK h \in [SUBSET D -> V] : IsFoldLeft(h, n, E, s, step)
  BY <1>3, FoldLeftExists
<1>7. \A q \in SUBSET D :
        h[q] = IF q = {} THEN E ELSE TryInsert(h[q \ {Max(q)}], s[Max(q)])
  <2> TAKE q \in SUBSET D
  <2>1. CASE q = {}
    BY <1>6, <2>1 DEF IsFoldLeft
  <2>2. CASE q # {}
    <3>1. h[q] = step[<< h[q \ {Max(q)}], s[Max(q)] >>]
      BY <1>6, <2>2 DEF IsFoldLeft
    <3>2. h[q \ {Max(q)}] \in V /\ s[Max(q)] \in Genomes
      BY <1>5, <2>2
    <3> QED BY <1>4, <2>2, <3>1, <3>2
  <2> QED BY <2>1, <2>2
<1>8. Recursion(h)
  BY <1>7
<1>9. Recursion(it)
  BY <1>8
<1>10. \A q \in SUBSET D :
         it[q] = IF q = {} THEN E ELSE TryInsert(it[q \ {Max(q)}], s[Max(q)])
  BY <1>9
<1> HIDE DEF it, Recursion
<1>11. \A q \in SUBSET D : it[q] \in V
  <2>1. IsFiniteSet(D)
    BY FS_Interval
  <2>2. it[{}] \in V
    BY <1>10
  <2>3. ASSUME NEW q \in SUBSET D, q # {}
        PROVE  \E x \in q : it[q \ {x}] \in V => it[q] \in V
    <3>1. Max(q) \in q /\ s[Max(q)] \in Genomes
      BY <1>5, <2>3
    <3>3. it[q] = TryInsert(it[q \ {Max(q)}], s[Max(q)])
      BY <1>10, <2>3
    <3> HIDE DEF V
    <3>2. it[q \ {Max(q)}] \in V => it[q] \in V
      BY <1>2, <3>1, <3>3
    <3> QED BY <3>1, <3>2
  <2> HIDE DEF D, V
  <2> QED BY <2>1, <2>2, <2>3, FoldType
<1>12. IsFoldLeft(it, n, E, s, step)
  <2> SUFFICES ASSUME NEW q \in SUBSET D
               PROVE  it[q] = IF q = {} THEN E ELSE step[<< it[q \ {Max(q)}], s[Max(q)] >>]
    BY DEF IsFoldLeft
  <2>1. CASE q = {}
    BY <1>10, <2>1
  <2>2. CASE q # {}
    <3>1. it[q] = TryInsert(it[q \ {Max(q)}], s[Max(q)])
      BY <1>10, <2>2
    <3>2. it[q \ {Max(q)}] \in V /\ s[Max(q)] \in Genomes
      BY <1>5, <1>11, <2>2
    <3> QED BY <1>4, <2>2, <3>1, <3>2
  <2> QED BY <2>1, <2>2
<1>13. PICK run \in [0 .. n -> V] :
         IsRun(run, n, E, s, step, it)
  <2>1. E \in V
    OBVIOUS
  <2> HIDE DEF V
  <2> QED BY <1>3, <1>12, <2>1, FoldLeftRuns
<1>14. ASSUME NEW i \in 1 .. n PROVE run[i] = TryInsert(run[i - 1], s[i])
  <2>1. i - 1 \in 0 .. n
    OBVIOUS
  <2>2. run[i - 1] \in V /\ s[i] \in Genomes
    BY <2>1
  <2> QED BY <1>4, <1>13, <2>2 DEF IsRun
<1> QED BY <1>1, <1>13, <1>14 DEF IsRun

\* _evaluate keeps the archive one of all the candidates evaluated.
LEMMA EvaluateKeepsArchive ==
  ASSUME NEW n \in Nat, NEW s \in [1 .. n -> Genomes], NEW L \in SUBSET Genomes,
         NEW E, ArchiveOf(E, L)
  PROVE  ArchiveOf(FoldLeft(TryInsert, E, s), L \cup ToSet(s))
<1> DEFINE after(i) == L \cup {s[j] : j \in 1 .. i}
<1>0. E \in SUBSET Genomes
  BY DEF ArchiveOf
<1>1. PICK run \in [0 .. n -> SUBSET Genomes] :
        /\ run[0] = E /\ run[n] = FoldLeft(TryInsert, E, s)
        /\ \A i \in 1 .. n : run[i] = TryInsert(run[i - 1], s[i])
  BY <1>0, EvaluationRuns
<1> DEFINE S == {i \in Nat : i <= n => ArchiveOf(run[i], after(i))}
<1>2. 0 \in S
  <2>1. after(0) = L
    OBVIOUS
  <2> QED BY <1>1, <2>1
<1>3. ASSUME NEW i \in Nat, i \in S PROVE i + 1 \in S
  <2> SUFFICES ASSUME i + 1 <= n PROVE ArchiveOf(run[i + 1], after(i + 1))
    OBVIOUS
  <2>1. ArchiveOf(run[i], after(i)) /\ i + 1 \in 1 .. n /\ (i + 1) - 1 = i
    BY <1>3
  <2>2. s[i + 1] \in Genomes /\ run[i + 1] = TryInsert(run[i], s[i + 1])
    BY <1>1, <2>1
  <2>3. after(i) \in SUBSET Genomes
    BY <2>1
  <2>4. after(i + 1) = after(i) \cup {s[i + 1]}
    OBVIOUS
  <2> HIDE DEF after
  <2> QED BY <2>1, <2>2, <2>3, <2>4, InsertKeepsArchive
<1>4. ArchiveOf(run[n], after(n))
  <2> HIDE DEF S, after
  <2>1. n \in S
    BY <1>2, <1>3, Induction
  <2> QED BY <2>1 DEF S
<1>5. after(n) = L \cup ToSet(s)
  BY DEF ToSet
<1> HIDE DEF after
<1> QED BY <1>1, <1>4, <1>5

-----------------------------------------------------------------------------
(* The island: its signals.                                                *)

LEMMA PopulationMembers ==
  ASSUME population \in Populations
  PROVE  /\ population \in [Genomes -> 0 .. PopulationSize]
         /\ Members \subseteq Genomes /\ IsFiniteSet(Members) /\ Members # {}
<1>1. PICK s \in [1 .. PopulationSize -> Genomes] : population = Counts(s)
  BY DEF Populations
<1>2. PopulationSize \in Nat /\ 1 \in 1 .. PopulationSize
  BY IslandSizes
<1>3. population \in [Genomes -> 0 .. PopulationSize]
  BY <1>1, <1>2, CountsType
<1>4. \A g \in Genomes : population[g] > 0 <=> g \in ToSet(s)
  BY <1>1, <1>2, CountsType
<1>5. ToSet(s) \subseteq Genomes /\ IsFiniteSet(ToSet(s))
  BY <1>2, CountsType
<1>6. Members = ToSet(s)
  BY <1>4, <1>5 DEF Members
<1>7. s[1] \in ToSet(s)
  BY <1>2 DEF ToSet
<1> QED BY <1>3, <1>5, <1>6, <1>7

\* The hypervolume is the size of a finite set.
LEMMA HypervolumeType ==
  ASSUME NEW M \in SUBSET Genomes, IsFiniteSet(M)
  PROVE  LET points == {<< Objectives[g][1], Objectives[g][2] >> : g \in M} IN
         Cardinality(UNION {(1 .. p[1]) \X (1 .. p[2]) : p \in points}) \in Nat
<1> DEFINE points == {<< Objectives[g][1], Objectives[g][2] >> : g \in M}
           boxes == {(1 .. p[1]) \X (1 .. p[2]) : p \in points}
           box == [g \in M |-> (1 .. Objectives[g][1]) \X (1 .. Objectives[g][2])]
<1>0. boxes = {box[g] : g \in M}
  <2>1. ASSUME NEW b \in boxes PROVE \E g \in M : b = box[g]
    <3>1. PICK p \in points : b = (1 .. p[1]) \X (1 .. p[2])
      OBVIOUS
    <3>2. PICK g \in M : p = << Objectives[g][1], Objectives[g][2] >>
      OBVIOUS
    <3> QED BY <3>1, <3>2
  <2>2. ASSUME NEW g \in M PROVE box[g] \in boxes
    <3>1. << Objectives[g][1], Objectives[g][2] >> \in points
      OBVIOUS
    <3> HIDE DEF points
    <3> QED BY <3>1
  <2> HIDE DEF boxes, box
  <2> QED BY <2>1, <2>2
<1>1. box \in Surjection(M, boxes)
  <2>1. DOMAIN box = M /\ box = [g \in M |-> box[g]]
    OBVIOUS
  <2> HIDE DEF box, boxes
  <2> QED BY <1>0, <2>1 DEF Surjection
<1>2. \A b \in boxes : IsFiniteSet(b)
  <2> SUFFICES ASSUME NEW g \in M
               PROVE  IsFiniteSet((1 .. Objectives[g][1]) \X (1 .. Objectives[g][2]))
    OBVIOUS
  <2> DEFINE x == Objectives[g][1]
             y == Objectives[g][2]
  <2>1. x \in Nat /\ y \in Nat
    BY Evaluations
  <2> HIDE DEF x, y
  <2>2. IsFiniteSet(1 .. x) /\ IsFiniteSet(1 .. y)
    BY <2>1, FS_Interval
  <2>3. IsFiniteSet((1 .. x) \X (1 .. y))
    BY <2>2, FS_Product
  <2> QED BY <2>3 DEF x, y
<1> HIDE DEF boxes, box
<1>3. IsFiniteSet(boxes)
  BY <1>1, FS_Surjection
<1>4. IsFiniteSet(UNION boxes)
  BY <1>2, <1>3, FS_UNION
<1>5. Cardinality(UNION boxes) \in Nat
  BY <1>4, FS_CardinalityType
<1> QED BY <1>5 DEF boxes

\* The number of feasible members is a natural number.
LEMMA FeasibleCountType ==
  ASSUME NEW F \in SUBSET Genomes, IsFiniteSet(F),
         population \in [Genomes -> 0 .. PopulationSize]
  PROVE  MapThenSumSet(LAMBDA g : population[g], F) \in Nat
<1> DEFINE first(q) == CHOOSE x \in q : TRUE
           Recursion(it) ==
             it = [q \in SUBSET F |->
                     IF q = {} THEN 0 ELSE population[first(q)] + it[q \ {first(q)}]]
           it == CHOOSE it : Recursion(it)
           pick == [q \in (SUBSET F) \ {{}} |-> first(q)]
           count == [g \in F |-> population[g]]
<1>1. \A q \in SUBSET F : q # {} => first(q) \in q
  OBVIOUS
<1>2. \A g \in F : population[g] \in Nat
  OBVIOUS
<1>3. count \in [F -> Int]
  BY <1>2
<1>4. \A g \in F : count[g] = population[g]
  OBVIOUS
<1>5. \A q \in (SUBSET F) \ {{}} : pick[q] = first(q)
  OBVIOUS
<1>6. \A q \in (SUBSET F) \ {{}} : pick[q] \in q
  BY <1>1
<1>7. pick \in [(SUBSET F) \ {{}} -> F]
  BY <1>1
<1> HIDE DEF first, pick, count
<1>8. PICK h \in [SUBSET F -> Int] : IsSum(h, F, count, pick)
  BY <1>3, <1>6, <1>7, SumExists
<1>9. ASSUME NEW q \in SUBSET F
      PROVE  h[q] = IF q = {} THEN 0 ELSE population[first(q)] + h[q \ {first(q)}]
  <2>1. CASE q = {}
    BY <1>8, <2>1 DEF IsSum
  <2>2. CASE q # {}
    <3>1. h[q] = count[first(q)] + h[q \ {first(q)}]
      BY <1>5, <1>8, <2>2 DEF IsSum
    <3>2. count[first(q)] = population[first(q)]
      BY <1>1, <1>4, <2>2
    <3> QED BY <2>2, <3>1, <3>2
  <2> QED BY <2>1, <2>2
<1>10. Recursion(it)
  <2>1. Recursion(h)
    BY <1>9
  <2> QED BY <2>1
<1>11. \A q \in SUBSET F :
         it[q] = IF q = {} THEN 0 ELSE population[first(q)] + it[q \ {first(q)}]
  BY <1>10
<1> HIDE DEF it, Recursion
<1>12. it[F] \in Nat
  <2>1. {} \in SUBSET F
    OBVIOUS
  <2>2. it[{}] = 0
    BY <1>11, <2>1
  <2>3. it[{}] \in Nat
    BY <2>2
  <2>4. ASSUME NEW q \in SUBSET F, q # {}
        PROVE  \E x \in q : it[q \ {x}] \in Nat => it[q] \in Nat
    <3>1. first(q) \in q /\ population[first(q)] \in Nat
      BY <1>1, <1>2, <2>4
    <3>2. it[q] = population[first(q)] + it[q \ {first(q)}]
      BY <1>11, <2>4
    <3>3. it[q \ {first(q)}] \in Nat => it[q] \in Nat
      BY <3>1, <3>2
    <3> QED BY <3>1, <3>3
  <2>5. \A q \in SUBSET F : it[q] \in Nat
    BY <2>3, <2>4, FoldType
  <2> QED BY <2>5
<1>13. MapThenSumSet(LAMBDA g : population[g], F) = it[F]
  BY DEF MapThenSumSet, MapThenFoldSet, it, Recursion, first
<1> QED BY <1>12, <1>13 DEF MapThenSumSet, MapThenFoldSet

LEMMA SignalsType ==
  ASSUME population \in Populations, IsFiniteSet(archive)
  PROVE  CurrentSignals \in Signals
<1>1. /\ population \in [Genomes -> 0 .. PopulationSize]
      /\ Members \in SUBSET Genomes /\ IsFiniteSet(Members) /\ Members # {}
  BY PopulationMembers
<1>2. CurrentSignals.hv \in Nat
  BY <1>1, HypervolumeType DEF CurrentSignals
<1>3. CurrentSignals.feasible \in Nat
  <2> DEFINE F == {g \in Members : Feasible(g)}
  <2>1. F \in SUBSET Genomes /\ IsFiniteSet(F)
    BY <1>1, FS_Subset
  <2> HIDE DEF F
  <2>2. MapThenSumSet(LAMBDA g : population[g], F) \in Nat
    BY <1>1, <2>1, FeasibleCountType
  <2> QED BY <2>2 DEF CurrentSignals, F
<1>4. CurrentSignals.coverage \in Nat
  BY FS_CardinalityType DEF CurrentSignals
<1>5. CurrentSignals.violation \in Nat
  <2> DEFINE W == {Violation[g] : g \in Members}
  <2>1. W \in SUBSET Nat /\ W # {}
    BY <1>1, Evaluations
  <2> HIDE DEF W
  <2>2. \E x \in W : \A y \in W : x <= y
    BY <2>1, Smallest
  <2>3. Min(W) \in Nat
    BY <2>1, <2>2 DEF Min
  <2> QED BY <2>3 DEF CurrentSignals, W
<1>6. CurrentSignals = [ hv |-> CurrentSignals.hv, feasible |-> CurrentSignals.feasible,
                         coverage |-> CurrentSignals.coverage,
                         violation |-> CurrentSignals.violation ]
  BY DEF CurrentSignals
<1> QED BY <1>2, <1>3, <1>4, <1>5, <1>6 DEF Signals

-----------------------------------------------------------------------------
(* The island: its inductive invariant.                                    *)

\* The generations the controller has observed.
Seen == IF pc = "observe" THEN generation - 1 ELSE generation

\* Where run() is, what it has bred and whether it has a verdict.
LoopAgrees ==
  /\ pc = "init" => generation = 0
  /\ pc = "breed" => generation < Generations
  /\ pc = "observe" => generation >= 1
  /\ pc = "done" <=> outcome # "RUNNING"

\* A rung stands for Patience generations each, and the first one is progress.
RungIsEarned ==
  /\ ctl.stagnant < Patience
  /\ Seen = 0 => ctl = FreshController
  /\ Seen > 0 => ctl.rung * Patience + ctl.stagnant < Seen

IslandInv ==
  /\ TypeOK
  /\ ArchiveOf(archive, evaluated) /\ IsFiniteSet(evaluated)
  /\ LoopAgrees
  /\ RungIsEarned
  /\ VerdictIsHonest

LEMMA InitIsland == Init => IslandInv
<1> SUFFICES ASSUME Init PROVE IslandInv
  OBVIOUS
<1>1. PopulationSize \in Nat /\ Generations \in Nat /\ RandomPercent \in 0 .. 100
      /\ Patience \in Nat /\ Patience >= 1
  BY IslandSizes
<1>2. ctl \in Controllers /\ ctl.stagnant = 0
  BY InfiniteAssumption DEF Init, FreshController, Controllers, TopRung
<1>3. Members = {}
  BY DEF Init, Members
<1>4. TypeOK
  BY <1>1, <1>2, <1>3 DEF Init, TypeOK, Phases, Pools, Outcomes
<1>5. ArchiveOf(archive, evaluated) /\ IsFiniteSet(evaluated)
  BY FS_EmptySet DEF Init, ArchiveOf
<1>6. LoopAgrees
  BY DEF Init, LoopAgrees
<1>7. RungIsEarned
  BY <1>1, <1>2 DEF Init, RungIsEarned, Seen
<1>8. VerdictIsHonest
  BY DEF Init, VerdictIsHonest
<1> QED BY <1>4, <1>5, <1>6, <1>7, <1>8 DEF IslandInv

\* A full population, evaluated.
LEMMA EvaluateStep ==
  ASSUME IslandInv, NEW s \in [1 .. PopulationSize -> Genomes],
         population' = Counts(s), Evaluate(s)
  PROVE  /\ population' \in Populations /\ population' \in [Genomes -> 0 .. PopulationSize]
         /\ Members' = ToSet(s)
         /\ evaluated' = evaluated \cup ToSet(s)
         /\ Members' \subseteq evaluated' /\ archive' \subseteq evaluated'
         /\ evaluated' \subseteq Genomes /\ IsFiniteSet(evaluated')
         /\ \A g, h \in archive' : CellOf[g] = CellOf[h] => g = h
         /\ ArchiveOf(archive, evaluated)'
         /\ evaluated \subseteq evaluated'
<1>0. PopulationSize \in Nat
  BY IslandSizes
<1>1. /\ population' \in [Genomes -> 0 .. PopulationSize]
      /\ \A g \in Genomes : population'[g] > 0 <=> g \in ToSet(s)
      /\ ToSet(s) \subseteq Genomes /\ IsFiniteSet(ToSet(s))
  BY <1>0, CountsType
<1>2. population' \in Populations
  BY DEF Populations
<1>3. Members' = ToSet(s)
  BY <1>1 DEF Members
<1>4. /\ evaluated \subseteq Genomes /\ IsFiniteSet(evaluated)
      /\ ArchiveOf(archive, evaluated)
  BY DEF IslandInv, TypeOK
<1>5. evaluated' = evaluated \cup ToSet(s) /\ archive' = FoldLeft(TryInsert, archive, s)
  BY DEF Evaluate
<1>6. ArchiveOf(archive', evaluated')
  <2>1. ArchiveOf(FoldLeft(TryInsert, archive, s), evaluated \cup ToSet(s))
    BY <1>0, <1>4, EvaluateKeepsArchive
  <2> QED BY <1>5, <2>1
<1>7. IsFiniteSet(evaluated')
  BY <1>1, <1>4, <1>5, FS_Union
<1>8. archive' \subseteq evaluated' /\ \A g, h \in archive' : CellOf[g] = CellOf[h] => g = h
  BY <1>6 DEF ArchiveOf
<1>9. ArchiveOf(archive, evaluated)'
  BY <1>6 DEF ArchiveOf, ConstraintDominates, Feasible, ParetoDominates
<1> QED BY <1>1, <1>2, <1>3, <1>4, <1>5, <1>7, <1>8, <1>9

\* What the budget backstop decides.
LEMMA ContinueStep ==
  ASSUME IslandInv, NEW L, Continue(BudgetOutcome(L))
  PROVE  /\ pc' \in {"breed", "done"} /\ outcome' \in Outcomes
         /\ pc' = "breed" => generation < Generations
         /\ pc' = "done" <=> outcome' # "RUNNING"
         /\ outcome' = "BUDGET_EXHAUSTED" => \E g \in L : Feasible(g)
         /\ outcome' = "NO_EDGE_FOUND" => ~(\E g \in L : Feasible(g))
<1> DEFINE o == BudgetOutcome(L)
<1>1. /\ o \in Outcomes
      /\ o = "RUNNING" => generation < Generations
      /\ o = "BUDGET_EXHAUSTED" => \E g \in L : Feasible(g)
      /\ o = "NO_EDGE_FOUND" => ~(\E g \in L : Feasible(g))
  BY DEF BudgetOutcome, Outcomes
<1>2. outcome' = o /\ pc' = IF o = "RUNNING" THEN "breed" ELSE "done"
  BY DEF Continue
<1> HIDE DEF o
<1> QED BY <1>1, <1>2

\* What the controller does with the signals of a generation.
LEMMA ObservesStep ==
  ASSUME IslandInv, NEW i, Observes(i)
  PROVE  /\ ctl' \in Controllers /\ ctl'.stagnant < Patience
         /\ ctl'.rung * Patience + ctl'.stagnant < generation
         /\ i = "NO_EDGE_FOUND" => ctl'.rung = TopRung /\ generation > 5 * Patience
<1> DEFINE s == CurrentSignals
<1>1. /\ pc = "observe" /\ InterventionOf(ctl, s) = i /\ ctl' = Observed(ctl, s)
  BY DEF Observes
<1>2. s \in Signals
  <2>1. IsFiniteSet(archive)
    <3>1. IsFiniteSet(evaluated) /\ archive \in SUBSET evaluated
      BY DEF IslandInv, ArchiveOf
    <3>2. \A T \in SUBSET evaluated : IsFiniteSet(T)
      BY <3>1, FS_Subset
    <3> QED BY <3>1, <3>2
  <2>2. population \in Populations
    BY <1>1 DEF IslandInv, TypeOK
  <2> QED BY <2>1, <2>2, SignalsType
<1>3. /\ ctl \in Controllers /\ ctl.stagnant < Patience
      /\ generation \in Nat /\ generation >= 1 /\ Seen = generation - 1
  BY <1>1, IslandSizes DEF IslandInv, TypeOK, LoopAgrees, RungIsEarned, Seen
<1>4. /\ ctl.rung \in 0 .. 4 /\ ctl.stagnant \in Nat /\ ctl.feasible \in Int
      /\ s.feasible \in Nat
  BY <1>2, <1>3 DEF Controllers, Signals, TopRung
<1>5. Patience \in Nat /\ Patience >= 1
  BY IslandSizes
<1>6. ~Improved(ctl, s) => ctl.rung * Patience + ctl.stagnant < generation - 1
  <2>1. Seen = 0 => Improved(ctl, s)
    BY <1>4 DEF IslandInv, RungIsEarned, FreshController, Improved, TowardFeasibility
  <2> QED BY <1>3, <2>1 DEF IslandInv, RungIsEarned
<1> HIDE DEF s
<1>7. LET o == Observed(ctl, s) IN
      /\ o \in Controllers
      /\ Improved(ctl, s) => o.rung = 0 /\ o.stagnant = 0
      /\ Fires(ctl, s) => o.rung = NextRung(ctl) /\ o.stagnant = 0
      /\ ~Improved(ctl, s) /\ ~Fires(ctl, s) =>
           o.rung = ctl.rung /\ o.stagnant = ctl.stagnant + 1
  BY <1>2, <1>3, ObservedFields
<1>8. CASE Improved(ctl, s)
  <2>1. i = "none"
    BY <1>1, <1>8 DEF InterventionOf, Fires
  <2> QED BY <1>1, <1>3, <1>5, <1>7, <1>8, <2>1
<1>9. CASE Fires(ctl, s)
  <2>1. ~Improved(ctl, s) /\ ctl.stagnant + 1 >= Patience
    BY <1>9 DEF Fires
  <2>2. ctl.rung * Patience + Patience < generation
    BY <1>3, <1>4, <1>5, <1>6, <2>1
  <2>3. ctl'.rung = (IF ctl.rung < 4 THEN ctl.rung + 1 ELSE 4) /\ ctl'.stagnant = 0
    BY <1>1, <1>4, <1>7, <1>9 DEF NextRung, Smaller, TopRung
  <2>4. ctl'.rung * Patience < generation
    BY <1>3, <1>4, <1>5, <2>2, <2>3
  <2>5. i = Ladder[ctl.rung + 1]
    BY <1>1, <1>9 DEF InterventionOf
  <2>6. i = "NO_EDGE_FOUND" => ctl.rung = 4
    BY <1>4, <2>5 DEF Ladder
  <2>7. ctl' \in Controllers /\ ctl'.stagnant < Patience
    BY <1>1, <1>5, <1>7, <2>3
  <2>10. ctl'.rung \in Int /\ ctl'.rung * Patience \in Int
    BY <1>4, <1>5, <2>3
  <2>8. ctl'.rung * Patience + ctl'.stagnant < generation
    BY <2>3, <2>4, <2>10
  <2>9. ctl.rung = 4 => ctl'.rung = TopRung /\ generation > 5 * Patience
    BY <1>3, <1>5, <2>2, <2>3 DEF TopRung
  <2> QED BY <2>6, <2>7, <2>8, <2>9
<1>10. CASE ~Improved(ctl, s) /\ ~Fires(ctl, s)
  <2>1. i = "none"
    BY <1>1, <1>10 DEF InterventionOf
  <2>2. ctl.stagnant + 1 < Patience
    BY <1>4, <1>5, <1>10 DEF Fires
  <2>3. ctl'.rung = ctl.rung /\ ctl'.stagnant = ctl.stagnant + 1 /\ ctl' \in Controllers
    BY <1>1, <1>7, <1>10
  <2>4. ctl.rung * Patience + (ctl.stagnant + 1) < generation
    BY <1>3, <1>4, <1>5, <1>6, <1>10
  <2> QED BY <2>1, <2>2, <2>3, <2>4
<1> QED BY <1>8, <1>9, <1>10

\* The members of the population that survive a restart.
LEMMA SurvivorsAreKept ==
  ASSUME IslandInv, pc # "init"
  PROVE  /\ Survivors \in Seq(Genomes) /\ Len(Survivors) <= PopulationSize
         /\ \A g \in archive \cap Members : g \in ToSet(Survivors)
<1> DEFINE A == archive \cap Members
           kept == {s \in BoundedSeq(A, PopulationSize) :
                      \A g \in A : Counts(s)[g] = population[g]}
<1>1. population \in Populations /\ PopulationSize \in Nat
  BY IslandSizes DEF IslandInv, TypeOK
<1>2. A \subseteq Genomes /\ A \subseteq Members
  BY DEF Members
<1>3. PICK p \in [1 .. PopulationSize -> Genomes] : population = Counts(p)
  BY <1>1 DEF Populations
<1> DEFINE I == {i \in 1 .. PopulationSize : p[i] \in A}
<1>4. IsFiniteSet(I) /\ Cardinality(I) <= PopulationSize /\ Cardinality(I) \in Nat
  <2>1. IsFiniteSet(1 .. PopulationSize) /\ Cardinality(1 .. PopulationSize) = PopulationSize
    BY <1>1, FS_Interval
  <2>2. \A T \in SUBSET (1 .. PopulationSize) :
          IsFiniteSet(T) /\ Cardinality(T) <= Cardinality(1 .. PopulationSize)
    BY <2>1, FS_Subset
  <2>3. I \in SUBSET (1 .. PopulationSize)
    OBVIOUS
  <2> HIDE DEF I
  <2>4. IsFiniteSet(I) /\ Cardinality(I) <= PopulationSize
    BY <2>1, <2>2, <2>3
  <2> QED BY <2>4, FS_CardinalityType
<1> DEFINE m == Cardinality(I)
<1>5. PICK f \in Bijection(1 .. m, I) : TRUE
  <2> HIDE DEF I
  <2>1. ExistsBijection(1 .. Cardinality(I), I)
    BY <1>4, FS_CardinalityType
  <2> QED BY <2>1 DEF ExistsBijection
<1>6. m \in Nat /\ m <= PopulationSize
  BY <1>4
<1> HIDE DEF m
<1>7. /\ f \in [1 .. m -> I]
      /\ \A i, j \in 1 .. m : f[i] = f[j] => i = j
      /\ \A k \in I : \E i \in 1 .. m : f[i] = k
  <2> HIDE DEF I
  <2> QED BY DEF Bijection, Injection, Surjection, IsInjective
<1> DEFINE t == [j \in 1 .. m |-> p[f[j]]]
<1>8. t \in [1 .. m -> A]
  BY <1>7
<1>9. ASSUME NEW g \in A PROVE Counts(t)[g] = population[g]
  <2> DEFINE J == {j \in 1 .. m : t[j] = g}
             H == {i \in 1 .. PopulationSize : p[i] = g}
             b == [j \in J |-> f[j]]
  <2>1. b \in [J -> H]
    BY <1>7
  <2>2. \A i, j \in J : b[i] = b[j] => i = j
    BY <1>7
  <2>3. ASSUME NEW h \in H PROVE \E j \in J : b[j] = h
    <3>1. h \in I
      OBVIOUS
    <3>2. PICK j \in 1 .. m : f[j] = h
      BY <1>7, <3>1
    <3>3. j \in J
      BY <3>2
    <3> QED BY <3>2, <3>3
  <2>4. IsFiniteSet(J)
    <3>1. J \in SUBSET (1 .. m)
      OBVIOUS
    <3>2. IsFiniteSet(1 .. m)
      BY <1>6, FS_Interval
    <3>3. \A T \in SUBSET (1 .. m) : IsFiniteSet(T)
      BY <3>2, FS_Subset
    <3> QED BY <3>1, <3>3
  <2>5. Counts(p)[g] = Cardinality(H)
    BY <1>1, <1>2, CountsType
  <2>6. t \in [1 .. m -> Genomes]
    BY <1>2, <1>8
  <2> HIDE DEF t
  <2>7. Counts(t)[g] = Cardinality(J)
    BY <1>2, <1>6, <2>6, CountsType
  <2> HIDE DEF J, H, b
  <2>8. b \in Bijection(J, H)
    BY <2>1, <2>2, <2>3 DEF Bijection, Injection, Surjection, IsInjective
  <2>9. Cardinality(H) = Cardinality(J)
    BY <2>4, <2>8, FS_Bijection DEF ExistsBijection
  <2> QED BY <1>3, <2>5, <2>7, <2>9
<1>10. t \in kept
  <2> HIDE DEF t, A, I
  <2>1. t \in BoundedSeq(A, PopulationSize)
    BY <1>1, <1>6, <1>8 DEF BoundedSeq, SeqOf
  <2> QED BY <1>9, <2>1
<1>11. Survivors \in kept
  <2>1. kept # {}
    BY <1>10
  <2> QED BY <2>1 DEF Survivors
<1> HIDE DEF A, t, I
<1>12. PICK n \in 0 .. PopulationSize : Survivors \in [1 .. n -> A]
  BY <1>11 DEF BoundedSeq, SeqOf
<1>13. Survivors \in [1 .. n -> Genomes] /\ n \in Nat /\ n <= PopulationSize
  BY <1>1, <1>2, <1>12
<1>14. Survivors \in Seq(Genomes) /\ Len(Survivors) <= PopulationSize
  BY <1>13
<1>15. ASSUME NEW g \in A PROVE g \in ToSet(Survivors)
  <2>1. g \in Genomes /\ population[g] > 0
    BY <1>2 DEF Members
  <2>2. Counts(Survivors)[g] = population[g]
    BY <1>11
  <2>3. Counts(Survivors)[g] > 0 <=> g \in ToSet(Survivors)
    BY <1>13, <2>1, CountsType
  <2> QED BY <2>1, <2>2, <2>3
<1> QED BY <1>14, <1>15 DEF A

\* What an action that breeds nothing leaves of the invariant.
LEMMA ObservedKeeps ==
  ASSUME IslandInv, NEW i, Observes(i), i # "NO_EDGE_FOUND",
         Continue(BudgetOutcome(evaluated)), random' \in 0 .. 100, forced' \in Pools,
         UNCHANGED << generation, population, archive, evaluated, recorded >>
  PROVE  IslandInv'
<1>1. /\ ctl' \in Controllers /\ ctl'.stagnant < Patience
      /\ ctl'.rung * Patience + ctl'.stagnant < generation
  BY ObservesStep
<1>2. /\ pc' \in {"breed", "done"} /\ outcome' \in Outcomes
      /\ pc' = "breed" => generation < Generations
      /\ pc' = "done" <=> outcome' # "RUNNING"
      /\ outcome' = "BUDGET_EXHAUSTED" => \E g \in evaluated : Feasible(g)
      /\ outcome' = "NO_EDGE_FOUND" => ~(\E g \in evaluated : Feasible(g))
  BY ContinueStep
<1>3. pc = "observe" /\ generation \in Nat /\ generation >= 1
  BY IslandSizes DEF Observes, IslandInv, TypeOK, LoopAgrees
<1>4. Members' = Members /\ Seen' = generation
  BY <1>2 DEF Members, Seen
<1>5. TypeOK'
  BY <1>1, <1>2, <1>3, <1>4 DEF IslandInv, TypeOK, Phases
<1>6. ArchiveOf(archive, evaluated)' /\ IsFiniteSet(evaluated')
  <2>1. ArchiveOf(archive, evaluated) /\ IsFiniteSet(evaluated)
    BY DEF IslandInv
  <2> QED BY <2>1 DEF ArchiveOf, ConstraintDominates, Feasible, ParetoDominates
<1>7. LoopAgrees'
  BY <1>2, <1>3 DEF LoopAgrees
<1>8. RungIsEarned'
  BY <1>1, <1>3, <1>4 DEF RungIsEarned
<1>9. VerdictIsHonest'
  BY <1>2 DEF VerdictIsHonest, Feasible
<1> QED BY <1>5, <1>6, <1>7, <1>8, <1>9 DEF IslandInv

LEMMA GiveUpKeeps == ASSUME IslandInv, GiveUp PROVE IslandInv'
<1>1. /\ Observes("NO_EDGE_FOUND") /\ Continue("NO_EDGE_FOUND")
      /\ UNCHANGED << generation, population, archive, random, forced, evaluated, recorded >>
  BY DEF GiveUp
<1>2. /\ ctl' \in Controllers /\ ctl'.stagnant < Patience
      /\ ctl'.rung * Patience + ctl'.stagnant < generation
      /\ ctl'.rung = TopRung /\ generation > 5 * Patience
  BY <1>1, ObservesStep
<1>3. pc' = "done" /\ outcome' = "NO_EDGE_FOUND"
  BY <1>1 DEF Continue
<1>4. pc = "observe" /\ generation \in Nat /\ generation >= 1
  BY <1>1, IslandSizes DEF Observes, IslandInv, TypeOK, LoopAgrees
<1>5. Members' = Members /\ Seen' = generation
  BY <1>1, <1>3 DEF Members, Seen
<1>6. TypeOK'
  BY <1>1, <1>2, <1>3, <1>4, <1>5 DEF IslandInv, TypeOK, Phases, Outcomes
<1>7. ArchiveOf(archive, evaluated)' /\ IsFiniteSet(evaluated')
  <2>1. ArchiveOf(archive, evaluated) /\ IsFiniteSet(evaluated)
    BY DEF IslandInv
  <2> QED BY <1>1, <2>1 DEF ArchiveOf, ConstraintDominates, Feasible, ParetoDominates
<1>8. LoopAgrees'
  BY <1>3 DEF LoopAgrees
<1>9. RungIsEarned'
  BY <1>2, <1>4, <1>5 DEF RungIsEarned
<1>10. VerdictIsHonest'
  BY <1>1, <1>2, <1>3 DEF VerdictIsHonest
<1> QED BY <1>6, <1>7, <1>8, <1>9, <1>10 DEF IslandInv

LEMMA RestartKeeps == ASSUME IslandInv, Restart PROVE IslandInv'
<1>1. /\ Observes("ISLAND_RESTART") /\ Continue(BudgetOutcome(evaluated'))
      /\ UNCHANGED << generation, random, forced, recorded >>
  BY DEF Restart
<1>2. /\ ctl' \in Controllers /\ ctl'.stagnant < Patience
      /\ ctl'.rung * Patience + ctl'.stagnant < generation
  BY <1>1, ObservesStep
<1>3. pc = "observe" /\ generation \in Nat /\ generation >= 1
  BY <1>1, IslandSizes DEF Observes, IslandInv, TypeOK, LoopAgrees
<1>4. PICK fresh \in [1 .. PopulationSize - Len(Survivors) -> Genomes] :
        population' = Counts(Survivors \o fresh) /\ Evaluate(Survivors \o fresh)
  BY DEF Restart
<1> DEFINE s == Survivors \o fresh
<1>5. s \in [1 .. PopulationSize -> Genomes]
  <2> DEFINE m == Len(Survivors)
             n == PopulationSize - m
  <2>1. PopulationSize \in Nat /\ Survivors \in Seq(Genomes) /\ m <= PopulationSize
    BY <1>3, IslandSizes, SurvivorsAreKept
  <2>2. m \in Nat /\ n \in Nat /\ m + n = PopulationSize /\ Survivors \in [1 .. m -> Genomes]
    BY <2>1, LenProperties
  <2>3. fresh \in [1 .. n -> Genomes]
    OBVIOUS
  <2> HIDE DEF m, n
  <2>4. s \in [1 .. (m + n) -> Genomes]
    BY <2>2, <2>3, Concatenated
  <2> QED BY <2>2, <2>4
<1>6. population' = Counts(s) /\ Evaluate(s)
  BY <1>4
<1> HIDE DEF s
<1>7. /\ population' \in Populations /\ population' \in [Genomes -> 0 .. PopulationSize]
      /\ Members' \subseteq evaluated' /\ archive' \subseteq evaluated'
      /\ evaluated' \subseteq Genomes /\ IsFiniteSet(evaluated')
      /\ \A g, h \in archive' : CellOf[g] = CellOf[h] => g = h
      /\ ArchiveOf(archive, evaluated)'
      /\ evaluated \subseteq evaluated'
  BY <1>5, <1>6, EvaluateStep
<1>8. /\ pc' \in {"breed", "done"} /\ outcome' \in Outcomes
      /\ pc' = "breed" => generation < Generations
      /\ pc' = "done" <=> outcome' # "RUNNING"
      /\ outcome' = "BUDGET_EXHAUSTED" => \E g \in evaluated' : Feasible(g)
      /\ outcome' = "NO_EDGE_FOUND" => ~(\E g \in evaluated' : Feasible(g))
  BY <1>1, ContinueStep
<1>9. TypeOK'
  <2>1. population' \in Populations'
    BY <1>7 DEF Populations, Counts
  <2> QED BY <1>1, <1>2, <1>3, <1>7, <1>8, <2>1 DEF IslandInv, TypeOK, Phases
<1>10. LoopAgrees'
  BY <1>1, <1>3, <1>8 DEF LoopAgrees
<1>11. RungIsEarned'
  <2>1. Seen' = generation
    BY <1>1, <1>8 DEF Seen
  <2> QED BY <1>2, <1>3, <2>1 DEF RungIsEarned
<1>12. VerdictIsHonest'
  BY <1>8 DEF VerdictIsHonest, Feasible
<1> QED BY <1>7, <1>9, <1>10, <1>11, <1>12 DEF IslandInv

LEMMA InitPopulationKeeps == ASSUME IslandInv, InitPopulation PROVE IslandInv'
<1>1. /\ pc = "init" /\ Continue(BudgetOutcome(evaluated'))
      /\ UNCHANGED << generation, ctl, random, forced >>
  BY DEF InitPopulation
<1>2. PICK s \in [1 .. PopulationSize -> Genomes] :
        population' = Counts(s) /\ Evaluate(s) /\ recorded' = recorded \cup ToSet(s)
  BY DEF InitPopulation
<1>3. /\ population' \in Populations /\ population' \in [Genomes -> 0 .. PopulationSize]
      /\ evaluated' = evaluated \cup ToSet(s)
      /\ Members' \subseteq evaluated' /\ archive' \subseteq evaluated'
      /\ evaluated' \subseteq Genomes /\ IsFiniteSet(evaluated')
      /\ \A g, h \in archive' : CellOf[g] = CellOf[h] => g = h
      /\ ArchiveOf(archive, evaluated)'
  BY <1>2, EvaluateStep
<1>4. /\ pc' \in {"breed", "done"} /\ outcome' \in Outcomes
      /\ pc' = "breed" => generation < Generations
      /\ pc' = "done" <=> outcome' # "RUNNING"
      /\ outcome' = "BUDGET_EXHAUSTED" => \E g \in evaluated' : Feasible(g)
      /\ outcome' = "NO_EDGE_FOUND" => ~(\E g \in evaluated' : Feasible(g))
  BY <1>1, ContinueStep
<1>5. TypeOK'
  <2>1. population' \in Populations'
    BY <1>3 DEF Populations, Counts
  <2>2. recorded' \subseteq evaluated'
    BY <1>2, <1>3 DEF IslandInv, TypeOK
  <2> QED BY <1>1, <1>3, <1>4, <2>1, <2>2 DEF IslandInv, TypeOK, Phases
<1>6. LoopAgrees'
  BY <1>1, <1>4 DEF LoopAgrees
<1>7. RungIsEarned'
  <2>1. generation = 0 /\ Seen = 0 /\ Seen' = 0
    BY <1>1, <1>4 DEF IslandInv, LoopAgrees, Seen
  <2> QED BY <1>1, <2>1 DEF IslandInv, RungIsEarned
<1>8. VerdictIsHonest'
  BY <1>4 DEF VerdictIsHonest, Feasible
<1> QED BY <1>3, <1>5, <1>6, <1>7, <1>8 DEF IslandInv

\* A bred population: elites of the old one and their children.
LEMMA BredPopulation ==
  ASSUME NEW elites \in [1 .. EliteCount -> Genomes],
         NEW children \in [1 .. PopulationSize - EliteCount -> Genomes]
  PROVE  /\ elites \o children \in [1 .. PopulationSize -> Genomes]
         /\ ToSet(elites) \subseteq ToSet(elites \o children)
<1> DEFINE m == EliteCount
           n == PopulationSize - EliteCount
<1>1. m \in Nat /\ n \in Nat /\ m + n = PopulationSize
  BY IslandSizes
<1>2. elites \in [1 .. m -> Genomes] /\ children \in [1 .. n -> Genomes]
  OBVIOUS
<1> HIDE DEF m, n
<1>3. /\ elites \o children \in [1 .. (m + n) -> Genomes]
      /\ ToSet(elites \o children) = ToSet(elites) \cup ToSet(children)
  BY <1>1, <1>2, Concatenated
<1> QED BY <1>1, <1>3

LEMMA NextGenerationKeeps == ASSUME IslandInv, NextGeneration PROVE IslandInv'
<1>1. /\ pc = "breed" /\ pc' = "observe" /\ generation' = generation + 1
      /\ forced' = "none" /\ UNCHANGED << ctl, random, outcome >>
  BY DEF NextGeneration
<1>2. PICK elites \in [1 .. EliteCount -> Genomes],
           children \in [1 .. PopulationSize - EliteCount -> Genomes] :
        /\ population' = Counts(elites \o children)
        /\ Evaluate(elites \o children)
        /\ recorded' = recorded \cup ToSet(elites \o children)
  BY DEF NextGeneration
<1> DEFINE s == elites \o children
<1>3. s \in [1 .. PopulationSize -> Genomes]
  BY BredPopulation
<1>4. population' = Counts(s) /\ Evaluate(s) /\ recorded' = recorded \cup ToSet(s)
  BY <1>2
<1> HIDE DEF s
<1>5. /\ population' \in Populations /\ population' \in [Genomes -> 0 .. PopulationSize]
      /\ evaluated' = evaluated \cup ToSet(s)
      /\ Members' \subseteq evaluated' /\ archive' \subseteq evaluated'
      /\ evaluated' \subseteq Genomes /\ IsFiniteSet(evaluated')
      /\ \A g, h \in archive' : CellOf[g] = CellOf[h] => g = h
      /\ ArchiveOf(archive, evaluated)'
  BY <1>3, <1>4, EvaluateStep
<1>6. /\ generation \in Nat /\ generation < Generations /\ Generations \in Nat
      /\ outcome = "RUNNING" /\ Seen = generation
  BY <1>1, IslandSizes DEF IslandInv, TypeOK, LoopAgrees, Seen
<1>7. TypeOK'
  <2>1. population' \in Populations'
    BY <1>5 DEF Populations, Counts
  <2>2. recorded' \subseteq evaluated'
    BY <1>4, <1>5 DEF IslandInv, TypeOK
  <2> QED BY <1>1, <1>5, <1>6, <2>1, <2>2 DEF IslandInv, TypeOK, Phases, Pools
<1>8. LoopAgrees'
  BY <1>1, <1>6 DEF LoopAgrees
<1>9. RungIsEarned'
  <2>1. Seen' = Seen
    BY <1>1, <1>6 DEF Seen
  <2> QED BY <1>1, <2>1 DEF IslandInv, RungIsEarned
<1>10. VerdictIsHonest'
  BY <1>1, <1>6 DEF VerdictIsHonest
<1> QED BY <1>5, <1>7, <1>8, <1>9, <1>10 DEF IslandInv

LEMMA NextIsland == ASSUME IslandInv, [Next]_vars PROVE IslandInv'
<1>1. CASE InitPopulation
  BY <1>1, InitPopulationKeeps
<1>2. CASE NextGeneration
  BY <1>2, NextGenerationKeeps
<1>3. CASE NoIntervention
  <2>1. random \in 0 .. 100 /\ forced \in Pools
    BY DEF IslandInv, TypeOK
  <2> QED BY <1>3, <2>1, ObservedKeeps DEF NoIntervention
<1>4. CASE ForcePool
  <2>1. random \in 0 .. 100
    BY DEF IslandInv, TypeOK
  <2>2. PICK i \in {"LOCAL_REFINEMENT", "STRUCTURE_REPLACEMENT"} :
          Observes(i) /\ forced' \in Pools
    BY <1>4 DEF ForcePool, Pools
  <2> QED BY <1>4, <2>1, <2>2, ObservedKeeps DEF ForcePool
<1>5. CASE IncreaseNovelty
  <2>1. Smaller(60, 2 * random) \in 0 .. 100 /\ forced \in Pools
    BY DEF IslandInv, TypeOK, Smaller
  <2> QED BY <1>5, <2>1, ObservedKeeps DEF IncreaseNovelty
<1>6. CASE Restart
  BY <1>6, RestartKeeps
<1>7. CASE GiveUp
  BY <1>7, GiveUpKeeps
<1>8. CASE UNCHANGED vars
  <2>1. Members' = Members /\ Seen' = Seen
    BY <1>8 DEF vars, Members, Seen
  <2>2. TypeOK'
    BY <1>8, <2>1 DEF vars, IslandInv, TypeOK
  <2>3. ArchiveOf(archive, evaluated)' /\ IsFiniteSet(evaluated')
    <3>1. ArchiveOf(archive, evaluated) /\ IsFiniteSet(evaluated)
      BY DEF IslandInv
    <3> QED BY <1>8, <3>1 DEF vars, ArchiveOf, ConstraintDominates, Feasible, ParetoDominates
  <2>4. LoopAgrees' /\ RungIsEarned'
    BY <1>8, <2>1 DEF vars, IslandInv, LoopAgrees, RungIsEarned
  <2>5. VerdictIsHonest'
    BY <1>8 DEF vars, IslandInv, VerdictIsHonest, Feasible
  <2> QED BY <2>2, <2>3, <2>4, <2>5 DEF IslandInv
<1> QED BY <1>1, <1>2, <1>3, <1>4, <1>5, <1>6, <1>7, <1>8 DEF Next

THEOREM IslandInvariance == Spec => []IslandInv
<1>1. Init => IslandInv
  BY InitIsland
<1>2. IslandInv /\ [Next]_vars => IslandInv'
  BY NextIsland
<1> QED BY <1>1, <1>2, PTL DEF Spec

\* The island is well typed; in particular its population is at all times a
\* multiset of PopulationSize genomes, all of them evaluated (run,
\* _next_generation and _apply_intervention).
THEOREM IslandTypeCorrect == Spec => []TypeOK
<1>1. IslandInv => TypeOK
  BY DEF IslandInv
<1> QED BY <1>1, IslandInvariance, PTL

\* The archive never forgets: the cell of every genome ever evaluated has an
\* elite that the genome does not dominate (try_insert under _evaluate).
THEOREM ElitesStayUndominated == Spec => []ElitesAreUndominated
<1>1. IslandInv => ElitesAreUndominated
  BY DEF IslandInv, ArchiveOf, ElitesAreUndominated
<1> QED BY <1>1, IslandInvariance, PTL

\* No island reports an exhausted budget without a feasible candidate, and none
\* that found one gives up before it climbed the whole ladder (run, observe).
THEOREM VerdictAlwaysHonest == Spec => []VerdictIsHonest
<1>1. IslandInv => VerdictIsHonest
  BY DEF IslandInv
<1> QED BY <1>1, IslandInvariance, PTL

-----------------------------------------------------------------------------
(* The island never loses its best.                                        *)

\* A finite set of genomes has an undominated one.
LEMMA UndominatedExists ==
  ASSUME NEW F \in SUBSET Genomes, IsFiniteSet(F)
  PROVE  \A q \in SUBSET F : q # {} => \E g \in q : \A h \in q : ~ParetoDominates(h, g)
<1> DEFINE Top(q, g) == \A h \in q : ~ParetoDominates(h, g)
           G == {q \in SUBSET F : q # {} => \E g \in q : Top(q, g)}
<1>1. {} \in G
  OBVIOUS
<1>2. ASSUME NEW q \in SUBSET F, q # {}, \A x \in q : q \ {x} \in G
      PROVE  q \in G
  <2>1. PICK x \in q : TRUE
    BY <1>2
  <2>2. CASE q = {x}
    <3>1. Top(q, x)
      BY <2>2, ParetoOrder
    <3> QED BY <3>1
  <2>3. CASE q # {x}
    <3>1. q \ {x} \in G /\ q \ {x} # {}
      BY <1>2, <2>3
    <3>2. PICK m \in q \ {x} : Top(q \ {x}, m)
      BY <3>1
    <3>3. CASE ParetoDominates(x, m)
      <4>1. \A h \in q \ {x} : ~ParetoDominates(h, x)
        BY <3>2, <3>3, ParetoOrder
      <4>2. Top(q, x)
        BY <4>1, ParetoOrder
      <4> QED BY <4>2
    <3>4. CASE ~ParetoDominates(x, m)
      <4>1. Top(q, m)
        BY <3>2, <3>4
      <4> QED BY <4>1
    <3> QED BY <3>3, <3>4
  <2> QED BY <2>2, <2>3
<1> HIDE DEF G
<1>3. SUBSET F \subseteq G
  BY <1>1, <1>2, SubsetInduction
<1> QED BY <1>3 DEF G

\* Peeling fronts off F reaches every member, and reaches a member after
\* whatever dominates it.
LEMMA PeelingRanks ==
  ASSUME NEW F \in SUBSET Genomes, IsFiniteSet(F), NEW n \in Nat, n = Cardinality(F),
         NEW up \in [0 .. n -> SUBSET F], up[0] = {},
         \A i \in 1 .. n :
           up[i] = up[i - 1] \cup
             {g \in F \ up[i - 1] : \A h \in F \ up[i - 1] : ~ParetoDominates(h, g)}
  PROVE  /\ \A g \in F : \E i \in 1 .. n : g \in up[i] /\ g \notin up[i - 1]
         /\ \A g, h \in F : \A i, j \in 1 .. n :
              (/\ ParetoDominates(g, h)
               /\ g \in up[i] /\ g \notin up[i - 1]
               /\ h \in up[j] /\ h \notin up[j - 1]) => i < j
<1>1. \A q \in SUBSET F : /\ IsFiniteSet(q) /\ Cardinality(q) <= n /\ Cardinality(q) \in Nat
                          /\ Cardinality(q) = n => q = F
  BY FS_Subset, FS_CardinalityType
<1>2. ASSUME NEW i \in 1 .. n
      PROVE  /\ up[i - 1] \in SUBSET F /\ up[i] \in SUBSET F /\ up[i - 1] \subseteq up[i]
             /\ up[i - 1] # F => Cardinality(up[i - 1]) < Cardinality(up[i])
  <2>1. i - 1 \in 0 .. n /\ i \in 0 .. n
    OBVIOUS
  <2>2. up[i - 1] \in SUBSET F /\ up[i] \in SUBSET F /\ up[i - 1] \subseteq up[i]
    BY <2>1
  <2>3. ASSUME up[i - 1] # F PROVE up[i] # up[i - 1]
    <3>1. F \ up[i - 1] # {} /\ F \ up[i - 1] \in SUBSET F
      BY <2>2, <2>3
    <3>2. PICK g \in F \ up[i - 1] : \A h \in F \ up[i - 1] : ~ParetoDominates(h, g)
      BY <3>1, UndominatedExists
    <3>3. g \in up[i]
      BY <3>2
    <3> QED BY <3>3
  <2>4. ASSUME up[i - 1] # F PROVE Cardinality(up[i - 1]) < Cardinality(up[i])
    <3>1. IsFiniteSet(up[i])
      BY <1>1, <2>2
    <3>2. \A T \in SUBSET up[i] : /\ Cardinality(T) <= Cardinality(up[i])
                                  /\ Cardinality(up[i]) = Cardinality(T) => up[i] = T
      BY <3>1, FS_Subset
    <3>3. Cardinality(up[i]) \in Nat /\ Cardinality(up[i - 1]) \in Nat
      BY <1>1, <2>2
    <3> QED BY <2>2, <2>3, <2>4, <3>2, <3>3
  <2> QED BY <2>2, <2>4
<1>3. \A j \in 0 .. n : \A i \in 0 .. j : up[i] \subseteq up[j]
  <2> DEFINE S == {j \in Nat : j <= n => \A i \in 0 .. j : up[i] \subseteq up[j]}
  <2>1. 0 \in S
    OBVIOUS
  <2>2. ASSUME NEW j \in Nat, j \in S PROVE j + 1 \in S
    <3> SUFFICES ASSUME j + 1 <= n, NEW i \in 0 .. (j + 1) PROVE up[i] \subseteq up[j + 1]
      OBVIOUS
    <3>1. j + 1 \in 1 .. n /\ (j + 1) - 1 = j
      OBVIOUS
    <3>2. up[j] \subseteq up[j + 1]
      BY <1>2, <3>1
    <3>3. CASE i = j + 1
      BY <3>3
    <3>4. CASE i # j + 1
      <4>1. i \in 0 .. j
        BY <3>4
      <4> QED BY <2>2, <3>1, <3>2, <4>1
    <3> QED BY <3>3, <3>4
  <2> HIDE DEF S
  <2>3. Nat \subseteq S
    BY <2>1, <2>2, Induction
  <2> QED BY <2>3 DEF S
<1>4. up[n] = F
  <2> DEFINE S == {i \in Nat : i <= n => up[i] = F \/ Cardinality(up[i]) >= i}
  <2>1. 0 \in S
    BY <1>1
  <2>2. ASSUME NEW i \in Nat, i \in S PROVE i + 1 \in S
    <3> SUFFICES ASSUME i + 1 <= n PROVE up[i + 1] = F \/ Cardinality(up[i + 1]) >= i + 1
      OBVIOUS
    <3>1. i + 1 \in 1 .. n /\ (i + 1) - 1 = i
      OBVIOUS
    <3>2. /\ up[i] \in SUBSET F /\ up[i + 1] \in SUBSET F /\ up[i] \subseteq up[i + 1]
          /\ up[i] # F => Cardinality(up[i]) < Cardinality(up[i + 1])
      BY <1>2, <3>1
    <3>3. Cardinality(up[i]) \in Nat /\ Cardinality(up[i + 1]) \in Nat
      BY <1>1, <3>2
    <3>4. up[i] = F \/ Cardinality(up[i]) >= i
      BY <2>2
    <3>5. CASE up[i] = F
      BY <3>2, <3>5
    <3>6. CASE up[i] # F
      BY <3>2, <3>3, <3>4, <3>6
    <3> QED BY <3>5, <3>6
  <2> HIDE DEF S
  <2>3. n \in S
    BY <2>1, <2>2, Induction
  <2>4. up[n] \in SUBSET F
    OBVIOUS
  <2>5. Cardinality(up[n]) <= n /\ Cardinality(up[n]) \in Nat
    BY <1>1, <2>4
  <2> QED BY <1>1, <2>3, <2>4, <2>5 DEF S
<1>5. ASSUME NEW g \in F PROVE \E i \in 1 .. n : g \in up[i] /\ g \notin up[i - 1]
  <2> DEFINE T == {i \in 0 .. n : g \in up[i]}
  <2>1. T \in SUBSET Nat /\ n \in T
    BY <1>4
  <2> HIDE DEF T
  <2>2. PICK i \in T : \A j \in T : i <= j
    BY <2>1, Smallest
  <2>3. i \in 0 .. n /\ g \in up[i]
    BY <2>2 DEF T
  <2>4. i # 0
    BY <2>3
  <2>5. i \in 1 .. n /\ i - 1 \in 0 .. n /\ i - 1 < i
    BY <2>3, <2>4
  <2>6. i - 1 \notin T
    BY <2>2, <2>5
  <2> QED BY <2>3, <2>5, <2>6 DEF T
<1>6. ASSUME NEW g \in F, NEW h \in F, NEW i \in 1 .. n, NEW j \in 1 .. n,
             ParetoDominates(g, h), g \notin up[i - 1], h \in up[j], h \notin up[j - 1]
      PROVE  i < j
  <2>1. g \in up[j - 1]
    BY <1>6
  <2>2. ~(j - 1 <= i - 1)
    <3>1. SUFFICES ASSUME j - 1 <= i - 1 PROVE FALSE
      OBVIOUS
    <3>2. i - 1 \in 0 .. n /\ j - 1 \in 0 .. (i - 1)
      BY <3>1
    <3>3. up[j - 1] \subseteq up[i - 1]
      BY <1>3, <3>2
    <3> QED BY <1>6, <2>1, <3>3
  <2> QED BY <2>2
<1> QED BY <1>5, <1>6

\* fast_nondominated_sort puts a member before all that it dominates.
LEMMA FrontsOrder ==
  ASSUME population \in Populations
  PROVE  \A g, h \in Members :
           Feasible(g) /\ Feasible(h) /\ ParetoDominates(g, h) => Fronts[g] < Fronts[h]
<1> DEFINE F == {g \in Members : Feasible(g)}
           n == Cardinality(F)
           Peel(d) == d \cup {g \in F \ d : \A h \in F \ d : ~ParetoDominates(h, g)}
           Recursion(up) == up = [i \in 0 .. n |-> IF i = 0 THEN {} ELSE Peel(up[i - 1])]
           up == CHOOSE up : Recursion(up)
           D == 0 .. n
           FrontOf(g) == CHOOSE i \in DOMAIN up : g \in up[i] /\ g \notin up[i - 1]
<1>1. F \in SUBSET Genomes /\ IsFiniteSet(F)
  <2>1. Members \subseteq Genomes /\ IsFiniteSet(Members)
    BY PopulationMembers
  <2>2. \A T \in SUBSET Members : IsFiniteSet(T)
    BY <2>1, FS_Subset
  <2> QED BY <2>1, <2>2
<1> HIDE DEF F
<1>2. n \in Nat
  BY <1>1, FS_CardinalityType
<1>3. Fronts = [g \in F |-> FrontOf(g)]
  BY DEF Fronts, F
<1> HIDE DEF n
<1>4. \E run : Recursion(run)
  <2> DEFINE V == SUBSET F
             step == [v \in V |-> Peel(v)]
             base == {}
  <2>1. base \in V
    OBVIOUS
  <2>2. step \in [V -> V]
    OBVIOUS
  <2>3. \A v \in V : step[v] = Peel(v)
    OBVIOUS
  <2> HIDE DEF V, step, base, Peel
  <2>4. PICK run \in [0 .. n -> V] : IsIteration(run, n, base, step)
    BY <1>2, <2>1, <2>2, IterationExists
  <2>5. ASSUME NEW i \in 0 .. n PROVE run[i] = IF i = 0 THEN {} ELSE Peel(run[i - 1])
    <3>1. CASE i = 0
      BY <2>4, <3>1 DEF IsIteration, base
    <3>2. CASE i # 0
      <4>1. i \in 1 .. n /\ i - 1 \in 0 .. n
        BY <1>2, <3>2
      <4>2. run[i - 1] \in V /\ run[i] = step[run[i - 1]]
        BY <2>4, <4>1 DEF IsIteration
      <4> QED BY <2>3, <3>2, <4>2
    <3> QED BY <3>1, <3>2
  <2>6. run = [i \in 0 .. n |-> run[i]]
    OBVIOUS
  <2>7. Recursion(run)
    BY <2>5, <2>6
  <2> QED BY <2>7
<1>5. Recursion(up)
  BY <1>4
<1> HIDE DEF up
<1>6. DOMAIN up = D /\ \A i \in D : up[i] = IF i = 0 THEN {} ELSE Peel(up[i - 1])
  BY <1>5
<1>7. \A i \in D : up[i] \in SUBSET F
  <2> DEFINE S == {i \in Nat : i <= n => up[i] \in SUBSET F}
  <2>1. 0 \in S
    BY <1>2, <1>6
  <2>2. ASSUME NEW i \in Nat, i \in S PROVE i + 1 \in S
    <3> SUFFICES ASSUME i + 1 <= n PROVE up[i + 1] \in SUBSET F
      OBVIOUS
    <3>1. i + 1 \in D /\ i + 1 # 0 /\ (i + 1) - 1 = i /\ up[i] \in SUBSET F
      BY <1>2, <2>2
    <3>2. up[i + 1] = Peel(up[i])
      BY <1>6, <3>1
    <3> QED BY <3>1, <3>2
  <2> HIDE DEF S
  <2>3. Nat \subseteq S
    BY <2>1, <2>2, Induction
  <2> QED BY <1>2, <2>3 DEF S
<1>8. up \in [0 .. n -> SUBSET F]
  <2>1. up = [i \in 0 .. n |-> up[i]]
    BY <1>5
  <2> QED BY <1>7, <2>1
<1>9. up[0] = {}
  BY <1>2, <1>6
<1>10. \A i \in 1 .. n :
         up[i] = up[i - 1] \cup
           {g \in F \ up[i - 1] : \A h \in F \ up[i - 1] : ~ParetoDominates(h, g)}
  <2> TAKE i \in 1 .. n
  <2>1. i \in D /\ i # 0
    BY <1>2
  <2> QED BY <1>6, <2>1
<1>11. n = Cardinality(F)
  BY DEF n
<1>12. /\ \A g \in F : \E i \in 1 .. n : g \in up[i] /\ g \notin up[i - 1]
       /\ \A g, h \in F : \A i, j \in 1 .. n :
            (/\ ParetoDominates(g, h)
             /\ g \in up[i] /\ g \notin up[i - 1]
             /\ h \in up[j] /\ h \notin up[j - 1]) => i < j
  BY <1>1, <1>2, <1>8, <1>9, <1>10, <1>11, PeelingRanks
<1>13. ASSUME NEW g \in F
       PROVE  FrontOf(g) \in 1 .. n /\ g \in up[FrontOf(g)] /\ g \notin up[FrontOf(g) - 1]
  <2>4. PICK i \in 1 .. n : g \in up[i] /\ g \notin up[i - 1]
    BY <1>12
  <2>5. i \in DOMAIN up
    BY <1>2, <1>6
  <2>1. \E j \in DOMAIN up : g \in up[j] /\ g \notin up[j - 1]
    BY <2>4, <2>5
  <2>2. FrontOf(g) \in D /\ g \in up[FrontOf(g)] /\ g \notin up[FrontOf(g) - 1]
    BY <1>6, <2>1
  <2> HIDE DEF FrontOf
  <2>3. FrontOf(g) # 0
    BY <1>9, <2>2
  <2> QED BY <1>2, <2>2, <2>3
<1> HIDE DEF FrontOf
<1>14. ASSUME NEW g \in Members, NEW h \in Members,
              Feasible(g), Feasible(h), ParetoDominates(g, h)
       PROVE  Fronts[g] < Fronts[h]
  <2>1. g \in F /\ h \in F
    BY <1>14 DEF F
  <2>2. FrontOf(g) < FrontOf(h)
    BY <1>12, <1>13, <1>14, <2>1
  <2> QED BY <1>3, <2>1, <2>2
<1> QED BY <1>14

\* Breeding carries over at least one elite, and nobody outranks it.
LEMMA BreedingStep ==
  ASSUME IslandInv, NextGeneration, NEW g \in Members
  PROVE  \E h \in Members' : ~ConstraintDominates(g, h) /\ Violation[h] <= Violation[g]
<1>1. PICK elites \in [1 .. EliteCount -> Genomes],
           children \in [1 .. PopulationSize - EliteCount -> Genomes] :
        /\ IsElite(elites)
        /\ population' = Counts(elites \o children) /\ Evaluate(elites \o children)
  BY DEF NextGeneration
<1> DEFINE s == elites \o children
<1>2. s \in [1 .. PopulationSize -> Genomes] /\ ToSet(elites) \subseteq ToSet(s)
  BY BredPopulation
<1>3. Members' = ToSet(s)
  BY <1>1, <1>2, EvaluateStep
<1> HIDE DEF s
<1>4. population \in Populations
  BY DEF IslandInv, TypeOK, NextGeneration
<1>5. Members \subseteq Genomes /\ population \in [Genomes -> 0 .. PopulationSize]
  BY <1>4, PopulationMembers
<1>6. CASE g \in ToSet(elites)
  <2>1. g \in Members' /\ ~ConstraintDominates(g, g) /\ Violation[g] <= Violation[g]
    BY <1>2, <1>3, <1>5, <1>6, ConstraintOrder, Evaluations
  <2> QED BY <2>1
<1>7. CASE g \notin ToSet(elites)
  <2> DEFINE e == elites[1]
  <2>1. EliteCount \in Nat /\ 1 \in 1 .. EliteCount /\ PopulationSize \in Nat
    BY IslandSizes
  <2>2. e \in ToSet(elites) /\ e \in Genomes
    BY <2>1 DEF ToSet
  <2> HIDE DEF e
  <2>3. /\ Counts(elites) \in [Genomes -> 0 .. EliteCount]
        /\ \A x \in Genomes : Counts(elites)[x] > 0 <=> x \in ToSet(elites)
    BY <2>1, CountsType
  <2>4. e \in Members
    <3>1. Counts(elites)[e] <= population[e] /\ Counts(elites)[e] > 0
      BY <1>1, <2>2, <2>3 DEF IsElite
    <3>2. Counts(elites)[e] \in Nat /\ population[e] \in Nat
      BY <1>5, <2>1, <2>2, <2>3
    <3> QED BY <2>2, <3>1, <3>2 DEF Members
  <2>5. Counts(elites)[g] < population[g]
    <3>1. population[g] > 0 /\ g \in Genomes /\ ~(Counts(elites)[g] > 0)
      BY <1>5, <1>7, <2>3 DEF Members
    <3>2. Counts(elites)[g] \in Nat /\ population[g] \in Nat
      BY <1>5, <2>1, <2>3, <3>1
    <3> QED BY <3>1, <3>2
  <2>6. ~Outranks(g, e)
    BY <1>1, <2>2, <2>5 DEF IsElite
  <2>7. Violation[g] \in Nat /\ Violation[e] \in Nat
    BY <1>5, <2>2, Evaluations
  <2>8. CASE Feasible(g) /\ Feasible(e)
    <3>1. ~(Fronts[g] < Fronts[e])
      BY <2>6, <2>8 DEF Outranks
    <3>2. ~ParetoDominates(g, e)
      BY <1>4, <2>4, <2>8, <3>1, FrontsOrder
    <3>3. ~ConstraintDominates(g, e) /\ Violation[e] <= Violation[g]
      BY <2>7, <2>8, <3>2 DEF ConstraintDominates, Feasible
    <3> QED BY <1>2, <1>3, <2>2, <3>3
  <2>9. CASE ~(Feasible(g) /\ Feasible(e))
    <3>1. ~(Violation[g] < Violation[e])
      BY <2>6, <2>9 DEF Outranks
    <3>2. ~ConstraintDominates(g, e) /\ Violation[e] <= Violation[g]
      BY <2>7, <2>9, <3>1 DEF ConstraintDominates
    <3> QED BY <1>2, <1>3, <2>2, <3>2
  <2> QED BY <2>8, <2>9
<1> QED BY <1>6, <1>7

\* A member that dominates all else is its cell's elite, so a restart keeps it.
LEMMA RestartStep ==
  ASSUME IslandInv, Restart, NEW g \in Members,
         \A h \in evaluated \ {g} : ConstraintDominates(g, h)
  PROVE  g \in Members'
<1>1. PICK fresh \in [1 .. PopulationSize - Len(Survivors) -> Genomes] :
        population' = Counts(Survivors \o fresh) /\ Evaluate(Survivors \o fresh)
  BY DEF Restart
<1>2. pc = "observe"
  BY DEF Restart, Observes
<1> DEFINE s == Survivors \o fresh
           m == Len(Survivors)
           n == PopulationSize - m
<1>3. /\ Survivors \in Seq(Genomes) /\ m <= PopulationSize /\ PopulationSize \in Nat
      /\ \A x \in archive \cap Members : x \in ToSet(Survivors)
  BY <1>2, IslandSizes, SurvivorsAreKept
<1>4. m \in Nat /\ n \in Nat /\ m + n = PopulationSize /\ Survivors \in [1 .. m -> Genomes]
  BY <1>3, LenProperties
<1>5. fresh \in [1 .. n -> Genomes]
  OBVIOUS
<1> HIDE DEF m, n
<1>6. /\ s \in [1 .. (m + n) -> Genomes]
      /\ ToSet(s) = ToSet(Survivors) \cup ToSet(fresh)
  BY <1>4, <1>5, Concatenated
<1>7. Members' = ToSet(s)
  <2>1. s \in [1 .. PopulationSize -> Genomes]
    BY <1>4, <1>6
  <2>2. population' = Counts(s) /\ Evaluate(s)
    BY <1>1
  <2> HIDE DEF s
  <2> QED BY <2>1, <2>2, EvaluateStep
<1>8. g \in archive
  <2>1. g \in evaluated
    BY DEF IslandInv, TypeOK
  <2>2. PICK e \in archive : ~ConstraintDominates(g, e)
    BY <2>1 DEF IslandInv, ArchiveOf
  <2>3. e \in evaluated
    BY DEF IslandInv, ArchiveOf
  <2> QED BY <2>2, <2>3
<1> QED BY <1>3, <1>6, <1>7, <1>8

\* No generation and no restart loses the best candidate: breeding always
\* carries over a member that violates no more and is not dominated, and
\* ISLAND_RESTART keeps the one that dominates everything else
\* (_next_generation, _apply_intervention).
THEOREM SearchAlwaysKeepsBest == Spec => SearchKeepsBest
<1> DEFINE Carries == \A g \in Members : \E h \in Members' :
             ~ConstraintDominates(g, h) /\ Violation[h] <= Violation[g]
           Survives == \A g \in Members :
             (\A h \in evaluated \ {g} : ConstraintDominates(g, h)) => g \in Members'
<1>1. ASSUME IslandInv, Next, pc = "breed" PROVE Carries
  <2>1. NextGeneration
    BY <1>1 DEF Next, InitPopulation, NextGeneration, NoIntervention, ForcePool,
                IncreaseNovelty, Restart, GiveUp, Observes
  <2> QED BY <1>1, <2>1, BreedingStep
<1>2. ASSUME IslandInv, Next, pc = "observe", population' # population PROVE Survives
  <2>1. Restart
    BY <1>2 DEF Next, InitPopulation, NextGeneration, NoIntervention, ForcePool,
                IncreaseNovelty, GiveUp
  <2> QED BY <1>2, <2>1, RestartStep
<1> HIDE DEF Carries, Survives
<1>3. IslandInv /\ [Next]_vars =>
        /\ [ pc = "breed" => Carries ]_vars
        /\ [ (pc = "observe" /\ population' # population) => Survives ]_vars
  BY <1>1, <1>2
<1>4. Spec => /\ [][ pc = "breed" => Carries ]_vars
              /\ [][ (pc = "observe" /\ population' # population) => Survives ]_vars
  BY <1>3, IslandInvariance, PTL DEF Spec
<1> QED BY <1>4 DEF SearchKeepsBest, BreedingKeepsBest, RestartKeepsBest, Carries, Survives
=============================================================================
