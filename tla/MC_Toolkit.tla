----------------------------- MODULE MC_Toolkit -----------------------------
(***************************************************************************)
(* Instances of the components that the search calls as libraries: the     *)
(* feature language, the regime router, the memory, the cost model, the    *)
(* split generator (whose Init, Next and vars are meant below) and the     *)
(* stagnation controller.  They share no state, so a behaviour exercises   *)
(* one of them, chosen at the start (desk), and leaves the others where    *)
(* they began.                                                             *)
(***************************************************************************)
EXTENDS FeatureStreams, RegimeRouter, EventMemory, CostModel, MC_Splits, MC_Stagnation

VARIABLE desk

-----------------------------------------------------------------------------
(* Features: every operator over prices with a gap, a flat stretch and a   *)
(* reversal; expressions with nested windows, with a NaN inside a window   *)
(* and ill-typed ones.                                                     *)

Bar(o, h, l, c) == [open |-> o, high |-> h, low |-> l, close |-> c, volume |-> h - l]

SomeCandles == { Bar(4, 5, 3, 4), Bar(4, 9, 4, 8), Bar(2, 3, 1, 1) }

Node(op, period, args) ==
  [op |-> op, period |-> period, args |-> args, value |-> 0, unit |-> "none"]

Leaf(op) == Node(op, 0, << >>)

Const(v, u) == [Leaf("constant") EXCEPT !.value = v, !.unit = u]

Over(op, period) == << Leaf("close"), Node(op, period, << 1 >>) >>

\* Two windows on the close, and an operator of arity two on them.
Both(f, g, op) == << Leaf("close"), f, g, Node(op, 0, << 2, 3 >>) >>

Sma(p) == Node("sma", p, << 1 >>)
Ema(p) == Node("ema", p, << 1 >>)

SomeExpressions ==
  { Over(op, 2) : op \in WindowOps \cup {"ema"} }
  \cup { Over("delta", 1), Over("rsi", 3), Over("sma", 3), Over("rsi", 1) }
  \cup { << Node(op, p, << >>) >> : op \in {"atr", "chop"}, p \in 1 .. 3 }
  \cup { Both(Ema(2), Sma(2), op) : op \in {"gt", "lt", "cross_above", "cross_below", "sub", "and"} }
  \cup { << Leaf("high"), Leaf("low"), Node("sub", 0, << 1, 2 >>), Node(op, p, << 3 >>),
            Node("abs", 0, << 4 >>) >> : op \in {"zscore", "highest"}, p \in {2} }
  \cup { << Leaf("open"), Node("ret", 1, << 1 >>), Node("sma", 2, << 2 >>),
            Const(10, "RETURN"), Node("gt", 0, << 3, 4 >>), Node("not", 0, << 5 >>),
            Node(op, 0, << 5, 6 >>) >> : op \in {"and", "or"} }
  \cup { << Leaf("volume"), Node("zscore", 2, << 1 >>), Node("ema", 3, << 2 >>),
            Node("neg", 0, << 3 >>) >>,
         << Leaf("close"), Leaf("volume"), Node("gt", 0, << 1, 2 >>) >> }

-----------------------------------------------------------------------------
(* Memory.                                                                 *)

Evaluation(t, churns, losing, v) ==
  [trades |-> t, churns |-> churns, losing |-> losing, violations |-> v]

SomeEvaluations ==
  { Evaluation(0, FALSE, TRUE, {"min_trades_total", "min_profit_factor"}),
    Evaluation(40, TRUE, TRUE, {"min_trades_total", "max_fold_dispersion", "max_drawdown",
                                  "max_complexity", "min_profit_factor"}) }

-----------------------------------------------------------------------------
(* Costs.                                                                  *)

SomeSpecs ==
  [spread_source : {"static_header", "historical_series"}, series : BOOLEAN,
   swap : {Absent, 3}, min_notional : {Absent, 60},
   min_lot : {2}, lot_step : {3}, max_lot : {4, 9}]

SomeStatements ==
  [spread : {Absent, 0, 5}, commission : {Absent, -1, 0},
   funding_mode : {Absent, "not_applicable_spot", "points_per_day_from_spec", "other"},
   min_notional : {Absent, 40}, max_leverage : {1, 2}]

SomeOrders == [equity : {40, 100}, risk : {10, 50}, stop : {-1, 0, 1, 2, 7}, price : {5, 11}]

-----------------------------------------------------------------------------

Desks == {"features", "regimes", "memory", "costs", "splits", "ladder"}

SomeFeature == nodes = CHOOSE e \in Expressions : Dimensions(e)[Len(e)] # IllTyped
SomeCost == spec = (CHOOSE s \in Specs : TRUE) /\ stated = (CHOOSE a \in Statements : TRUE)
SomeSplits == n = (CHOOSE l \in Lengths : TRUE) /\ cfg = (CHOOSE c \in Configs : TRUE)

MCInit ==
  /\ desk \in Desks
  /\ (desk = "features" \/ SomeFeature) /\ FeatureInit
  /\ RouterInit
  /\ MemoryInit
  /\ (desk = "costs" \/ SomeCost) /\ CostInit
  /\ (desk = "splits" \/ SomeSplits) /\ Init
  /\ LadderInit

OthersRest ==
  /\ UNCHANGED desk
  /\ desk # "features" => UNCHANGED featureVars
  /\ desk # "regimes" => UNCHANGED routerVars
  /\ desk # "memory" => UNCHANGED memoryVars
  /\ desk # "costs" => UNCHANGED costVars
  /\ desk # "splits" => UNCHANGED vars
  /\ desk # "ladder" => UNCHANGED ladderVars

MCNext ==
  /\ \/ desk = "features" /\ FeatureNext
     \/ desk = "regimes" /\ RouterNext
     \/ desk = "memory" /\ MemoryNext
     \/ desk = "costs" /\ CostNext
     \/ desk = "splits" /\ Next
     \/ desk = "ladder" /\ LadderNext
  /\ OthersRest

MCSpec ==
  MCInit /\ [][MCNext]_<< desk, featureVars, routerVars, memoryVars, costVars, vars, ladderVars >>
=============================================================================
