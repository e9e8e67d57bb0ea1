---------------------------- MODULE WalkForward ----------------------------
(***************************************************************************)
(* generate_nested_walk_forward of evoquant/data/splits.py, one action per *)
(* loop iteration, and validate_plan, which judges what was generated.     *)
(*                                                                         *)
(* The layout of a history of n bars, oldest first:                        *)
(*    ... training | purge | test 0 | test 1 | ... | purge | lockbox       *)
(* Every outer fold trains on what lies before its test, less the purge    *)
(* and less an embargo after each earlier test; inside it, inner folds     *)
(* repeat the construction with validation blocks at its tail.             *)
(***************************************************************************)
EXTENDS IndexRanges, Sequences

CONSTANTS
  Lengths,   \* how many bars a history may have
  Configs    \* the split configurations

\* SplitConfig.__post_init__.
SplitConfigs ==
  [ n_outer : Nat \ {0}, outer_test : Nat \ {0},
    n_inner : Nat \ {0}, inner_val  : Nat \ {0},
    lockbox : Nat \ {0}, min_train  : Nat \ {0},
    purge   : Nat,       embargo    : Nat ]

ASSUME LengthsAssumption == Lengths \subseteq Nat
ASSUME ConfigsAssumption == Configs \subseteq SplitConfigs

VARIABLES
  n,        \* the length of the history
  cfg,      \* the configuration
  pc,       \* where the generator is, or how it ended
  k,        \* the outer fold under construction
  j,        \* the inner fold under construction
  cuts,     \* the embargo windows already cut from "ranges"
  ranges,   \* the training ranges under construction
  train,    \* the finished training ranges of outer fold k
  inner,    \* the finished inner folds of outer fold k
  folds     \* the finished outer folds

vars == << n, cfg, pc, k, j, cuts, ranges, train, inner, folds >>

Ends == {"accepted", "rejected", "invariant_error"}

-----------------------------------------------------------------------------
LockboxStart == n - cfg.lockbox
FirstTestStart == LockboxStart - cfg.purge - cfg.n_outer * cfg.outer_test

TestStart(f) == FirstTestStart + f * cfg.outer_test
Test(f) == Span(TestStart(f), TestStart(f + 1))

\* Mutant of TrainEnd: training runs up to the test, without a purge.
TrainEndUnpurged(f) == TestStart(f)

TrainEnd(f) == TestStart(f) - cfg.purge

\* The blocks that validate inside outer fold f.
FirstValStart(f) == TrainEnd(f) - cfg.n_inner * cfg.inner_val
ValStart(f, i) == FirstValStart(f) + i * cfg.inner_val
Val(f, i) == Span(ValStart(f, i), ValStart(f, i + 1))

\* _embargo_cuts: the bars after a block that later training may not use.
Embargo(block) == Span(block.stop, block.stop + cfg.embargo)

\* With no embargo there is nothing to cut.
CutsOf(earlier) == IF cfg.embargo > 0 THEN earlier ELSE 0

\* Mutant of Clipped: inner training starts from the whole history again.
Unclipped(R, stop) == {Span(0, stop)}

\* The part of the outer training set R before "stop".
Clipped(R, stop) ==
  { Span(r.start, IF r.stop < stop THEN r.stop ELSE stop) :
      r \in {s \in R : Intersects(s, Span(0, stop))} }

-----------------------------------------------------------------------------
Init ==
  /\ n \in Lengths
  /\ cfg \in Configs
  /\ pc = "layout"
  /\ k = 0 /\ j = 0 /\ cuts = 0
  /\ ranges = {} /\ train = {}
  /\ inner = << >> /\ folds = << >>

Reject ==
  /\ pc' = "rejected"
  /\ UNCHANGED << n, cfg, k, j, cuts, ranges, train, inner, folds >>

StartOuter(f) ==
  /\ pc' = "outer"
  /\ k' = f /\ cuts' = 0
  /\ ranges' = {Span(0, TrainEnd(f))}

StartInner(i, R) ==
  /\ pc' = "inner"
  /\ j' = i /\ cuts' = 0
  /\ ranges' = Clipped(R, ValStart(k, i) - cfg.purge)

\* The lockbox must exist and the first outer fold must have its minimum of
\* training bars.
LayoutFits ==
  /\ IsSpan(Span(LockboxStart, n))
  /\ FirstTestStart >= cfg.min_train + cfg.purge

RejectLayout == pc = "layout" /\ ~LayoutFits /\ Reject

BeginFolds ==
  /\ pc = "layout" /\ LayoutFits
  /\ StartOuter(0)
  /\ UNCHANGED << n, cfg, j, train, inner, folds >>

\* One embargo window is cut from the training of outer fold k.
CutOuter ==
  /\ pc = "outer"
  /\ cuts < CutsOf(k)
  /\ ranges' = Subtract(ranges, Embargo(Test(cuts)))
  /\ cuts' = cuts + 1
  /\ UNCHANGED << n, cfg, pc, k, j, train, inner, folds >>

\* Mutant of OuterFits: the room for the validation blocks is not checked.
OuterFitsAnyTail == Cardinality(Bars(NonEmpty(ranges))) >= cfg.min_train

\* total_len of the training ranges (which are disjoint) and the room for the
\* inner validation blocks.
OuterFits ==
  /\ Cardinality(Bars(NonEmpty(ranges))) >= cfg.min_train
  /\ FirstValStart(k) >= cfg.purge + 1

OuterIsCut == pc = "outer" /\ cuts = CutsOf(k)

RejectOuter == OuterIsCut /\ ~OuterFits /\ Reject

FinishOuter ==
  /\ OuterIsCut /\ OuterFits
  /\ train' = NonEmpty(ranges)
  /\ inner' = << >>
  /\ StartInner(0, train')
  /\ UNCHANGED << n, cfg, k, folds >>

\* One embargo window, after an earlier validation block, is cut from the
\* training of inner fold j.
CutInner ==
  /\ pc = "inner"
  /\ cuts < CutsOf(j)
  /\ ranges' = Subtract(ranges, Embargo(Val(k, cuts)))
  /\ cuts' = cuts + 1
  /\ UNCHANGED << n, cfg, pc, k, j, train, inner, folds >>

WithInner == Append(inner, [train |-> NonEmpty(ranges), val |-> Val(k, j)])

InnerIsCut == pc = "inner" /\ cuts = CutsOf(j)

NextInner ==
  /\ InnerIsCut /\ j + 1 < cfg.n_inner
  /\ inner' = WithInner
  /\ StartInner(j + 1, train)
  /\ UNCHANGED << n, cfg, k, train, folds >>

WithFold == Append(folds, [train |-> train, test |-> Test(k), inner |-> WithInner])

FoldIsBuilt == InnerIsCut /\ j + 1 = cfg.n_inner

NextOuter ==
  /\ FoldIsBuilt /\ k + 1 < cfg.n_outer
  /\ folds' = WithFold
  /\ StartOuter(k + 1)
  /\ UNCHANGED << n, cfg, j, train, inner >>

FinishFolds ==
  /\ FoldIsBuilt /\ k + 1 = cfg.n_outer
  /\ folds' = WithFold
  /\ pc' = "validate"
  /\ UNCHANGED << n, cfg, k, j, cuts, ranges, train, inner >>

-----------------------------------------------------------------------------
(***************************************************************************)
(* validate_plan: the assertions it makes of the finished plan.            *)
(***************************************************************************)

\* Purge: every range of R ends at least a purge before "start".
Purged(R, start) == \A r \in R : r.stop + cfg.purge <= start

Avoids(R, s) == \A r \in R : ~Intersects(r, s)

\* Tests are ordered and do not overlap.
ValidTests ==
  \A f \in DOMAIN folds : f > 1 => folds[f].test.start >= folds[f-1].test.stop

ValidTraining(f) ==
  /\ Purged(folds[f].train, folds[f].test.start)
  /\ Avoids(folds[f].train, folds[f].test)
  /\ \A e \in 1 .. CutsOf(f - 1) : Avoids(folds[f].train, Embargo(folds[e].test))

ValidInner(f, i) ==
  LET fold == folds[f].inner[i] IN
  /\ fold.val.stop + cfg.purge <= folds[f].test.start
  /\ Purged(fold.train, fold.val.start)
  /\ Avoids(fold.train, fold.val)
  /\ Avoids(fold.train, folds[f].test)
  /\ \A e \in 1 .. CutsOf(i - 1) : Avoids(fold.train, Embargo(folds[f].inner[e].val))

\* Every range a search may see.
ResearchRanges ==
  UNION { {folds[f].test} \cup folds[f].train
            \cup UNION { {folds[f].inner[i].val} \cup folds[f].inner[i].train :
                           i \in DOMAIN folds[f].inner } :
          f \in DOMAIN folds }

ValidResearch ==
  \A r \in ResearchRanges :
    /\ ~Intersects(r, Span(LockboxStart, n))
    /\ 0 <= r.start /\ r.stop <= n
    /\ r.stop <= LockboxStart - cfg.purge

ValidPlan ==
  /\ ValidTests
  /\ \A f \in DOMAIN folds :
       /\ ValidTraining(f)
       /\ \A i \in DOMAIN folds[f].inner : ValidInner(f, i)
  /\ ValidResearch

Validate ==
  /\ pc = "validate"
  /\ pc' = IF ValidPlan THEN "accepted" ELSE "invariant_error"
  /\ UNCHANGED << n, cfg, k, j, cuts, ranges, train, inner, folds >>

Next ==
  \/ RejectLayout \/ BeginFolds
  \/ CutOuter \/ RejectOuter \/ FinishOuter
  \/ CutInner \/ NextInner \/ NextOuter \/ FinishFolds
  \/ Validate

Spec == Init /\ [][Next]_vars

-----------------------------------------------------------------------------
(***************************************************************************)
(* Properties                                                              *)
(***************************************************************************)

InnerFolds == [train : SUBSET Spans, val : Spans]
OuterFolds == [train : SUBSET Spans, test : Spans, inner : Seq(InnerFolds)]

TypeOK ==
  /\ n \in Lengths /\ cfg \in Configs
  /\ pc \in {"layout", "outer", "inner", "validate"} \cup Ends
  /\ k \in 0 .. cfg.n_outer - 1
  /\ j \in 0 .. cfg.n_inner - 1
  /\ cuts \in Nat
  /\ ranges \subseteq Spans /\ train \subseteq Spans
  /\ inner \in Seq(InnerFolds)
  /\ folds \in Seq(OuterFolds)

\* The generator never builds a plan its own validator refuses: with a legal
\* configuration generate_nested_walk_forward returns a plan or raises
\* SplitConfigError, never SplitInvariantError.
GeneratorIsSound == pc # "invariant_error"

\* The bars outer fold f (from 1) may train on: everything a purge or more
\* before its test, except a full embargo after every earlier test.
TrainableBars(f) ==
  (0 .. TrainEnd(f - 1) - 1)
    \ {b \in Nat : \E e \in 0 .. f - 2 :
         TestStart(e + 1) <= b /\ b < TestStart(e + 1) + cfg.embargo}

\* subtract_ranges loses no bar and keeps none it should cut: a finished
\* outer fold trains on exactly the bars the purge and the embargo leave.
OuterTrainingIsExact ==
  \A f \in DOMAIN folds : Bars(folds[f].train) = TrainableBars(f)

\* The training ranges of a fold are non-empty and pairwise disjoint, so that
\* total_len counts bars and no bar is trained on twice.
DisjointSpans(R) ==
  \A r, s \in R : r.start < r.stop /\ (r # s => Indices(r) \cap Indices(s) = {})

RangesAreDisjoint ==
  \A f \in DOMAIN folds :
    /\ DisjointSpans(folds[f].train)
    /\ \A i \in DOMAIN folds[f].inner : DisjointSpans(folds[f].inner[i].train)

\* What validate_plan does not look at: an inner fold always has something to
\* train on, and only bars its outer fold may train on, so that neither an
\* outer embargo window nor any later test leaks into it.
InnerTrainingNests ==
  \A f \in DOMAIN folds : \A i \in DOMAIN folds[f].inner :
    LET own == Bars(folds[f].inner[i].train) IN
    own # {} /\ own \subseteq Bars(folds[f].train)

-----------------------------------------------------------------------------
\* splits.py: the inner folds are "inside outer train", a validation block is
\* "block j of the inner-validation tail of the outer train".
ValidationInsideOuterTrain ==
  \A f \in DOMAIN folds : \A i \in DOMAIN folds[f].inner :
    Indices(folds[f].inner[i].val) \subseteq Bars(folds[f].train)
=============================================================================
