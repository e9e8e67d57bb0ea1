--------------------------- MODULE FeatureStreams ---------------------------
(***************************************************************************)
(* The feature language of evoquant/features: a compiled expression        *)
(* (compiler.py) of the operators registered by primitives.py, evaluated   *)
(* bar by bar by StreamEvaluator and, for the whole history, by            *)
(* CompiledFeature.evaluate.                                               *)
(*                                                                         *)
(* An expression is the sequence of its nodes, children before parents;    *)
(* an equal subexpression occurs once, as in the memo of _eval (its stream *)
(* has one state for each occurrence, all of them equal).  Values are      *)
(* integers and NaN: a deviation stands for its scaled square, a z-score   *)
(* for its numerator, ratios for percentages; means, percentages and the   *)
(* smoothing of ema are rounded down; which values are NaN is kept.        *)
(***************************************************************************)
EXTENDS Integers, SequencesExt

CONSTANTS
  NaN,
  MaxBars,      \* bound on the history
  Candles,      \* the bars that occur
  Expressions   \* the expressions that are compiled

VARIABLES
  nodes,     \* the compiled expression, fixed
  history,   \* the bars so far
  ops,       \* StreamOp of every node
  emitted    \* what the stream of the root has returned

featureVars == << nodes, history, ops, emitted >>

ASSUME NanAssumption == NaN \notin Int \cup BOOLEAN

Isnan(x) == x = NaN

Finite(w) == \A i \in DOMAIN w : ~Isnan(w[i])

Total(w) == FoldSeq(LAMBDA x, y : x + y, 0, w)

Abs(x) == IF x < 0 THEN -x ELSE x

\* 100 a / b, rounded down.
Percent(a, b) == IF b > 0 THEN (100 * a) \div b ELSE (-100 * a) \div (-b)

-----------------------------------------------------------------------------
(* The operators: arity (-1 for two or more), width of the window and      *)
(* dimensions.                                                             *)

Sources == {"close", "open", "high", "low", "volume"}
Elementwise == {"abs", "neg", "add", "sub", "gt", "lt", "and", "or", "not"}
Crosses == {"cross_above", "cross_below"}
WindowOps == {"sma", "highest", "lowest", "stdev", "zscore", "rank", "delta", "ret",
              "efficiency_ratio", "rsi"}

Arity(op) ==
  IF op \in Sources \cup {"constant", "atr", "chop"} THEN 0
  ELSE IF op \in {"and", "or"} THEN -1
  ELSE IF op \in {"add", "sub", "gt", "lt"} \cup Crosses THEN 2 ELSE 1

NeedsPeriod(op) == op \in WindowOps \cup {"ema", "atr", "chop"}

MinPeriod(op) ==
  IF op \in {"stdev", "zscore", "rank", "efficiency_ratio", "rsi", "chop"} THEN 2 ELSE 1

\* Changes reach back period bars.
Width(n) == n.period + IF n.op \in {"delta", "ret", "efficiency_ratio", "rsi"} THEN 1 ELSE 0

OwnLookback(n) ==
  IF n.op \in WindowOps \cup {"atr", "chop"} THEN Width(n) - 1
  ELSE IF n.op \in Crosses THEN 1 ELSE 0

Numeric == {"PRICE", "VOLUME", "VOLATILITY", "RETURN", "ZSCORE", "OSCILLATOR_0_1",
            "OSCILLATOR_0_100", "TIME", "UNSCALED"}
Signed == {"RETURN", "ZSCORE", "UNSCALED"}
Comparable == Numeric \ {"UNSCALED"}

IllTyped == "ill-typed"

Ops == Sources \cup Elementwise \cup Crosses \cup WindowOps \cup {"constant", "ema", "atr", "chop"}

\* A node names its children by number: they come before it, and every node but
\* the root is a child.  Bars are numbers.
ASSUME ExpressionAssumption ==
  \A e \in Expressions :
    /\ e \in Seq([op : Ops, period : Nat, args : Seq(Nat), value : Int,
                  unit : Numeric \cup {"BOOL", "none"}])
    /\ Len(e) >= 1
    /\ \A k \in DOMAIN e : \A c \in DOMAIN e[k].args : e[k].args[c] \in 1 .. k - 1
    /\ \A k \in 1 .. Len(e) - 1 : \E j \in DOMAIN e : k \in ToSet(e[j].args)

ASSUME CandleAssumption ==
  Candles \subseteq [open : Int, high : Int, low : Int, close : Int, volume : Int]

\* The type rule of a node whose children have dimensions d.
Rule(n, d) ==
  LET one(ok, dim) == IF ok THEN dim ELSE IllTyped IN
  CASE n.op = "volume" -> "VOLUME"
    [] n.op \in Sources \ {"volume"} -> "PRICE"
    [] n.op = "constant" -> one(n.unit \in Comparable, n.unit)
    [] n.op = "atr" -> "VOLATILITY"
    [] n.op = "chop" -> "OSCILLATOR_0_1"
    [] n.op \in {"abs", "neg"} -> one(d[1] \in Signed, d[1])
    [] n.op \in {"add", "sub"} -> one(d[1] \in Numeric /\ d[1] = d[2], "UNSCALED")
    [] n.op \in {"gt", "lt"} \cup Crosses -> one(d[1] \in Comparable /\ d[1] = d[2], "BOOL")
    [] n.op \in {"and", "or", "not"} -> one(\A i \in DOMAIN d : d[i] = "BOOL", "BOOL")
    [] n.op \in {"sma", "highest", "lowest", "ema"} -> one(d[1] \in Numeric, d[1])
    [] n.op = "stdev" ->
         one(d[1] \in Numeric, IF d[1] \in {"PRICE", "RETURN"} THEN "VOLATILITY" ELSE "UNSCALED")
    [] n.op = "zscore" -> one(d[1] \in Numeric, "ZSCORE")
    [] n.op = "rank" -> one(d[1] \in Numeric, "OSCILLATOR_0_1")
    [] n.op = "rsi" -> one(d[1] \in Numeric, "OSCILLATOR_0_100")
    [] n.op = "delta" -> one(d[1] \in Numeric, "UNSCALED")
    [] n.op = "ret" -> one(d[1] = "PRICE", "RETURN")
    [] n.op = "efficiency_ratio" -> one(d[1] = "PRICE", "OSCILLATOR_0_1")

WellFormed(n) ==
  /\ IF Arity(n.op) >= 0 THEN Len(n.args) = Arity(n.op) ELSE Len(n.args) >= 2
  /\ IF NeedsPeriod(n.op) THEN n.period >= MinPeriod(n.op) ELSE n.period = 0
  /\ n.op # "constant" => n.unit = "none"

\* What the children of node k are worth in val.
Children(e, k, val) == [c \in DOMAIN e[k].args |-> val[e[k].args[c]]]

DimensionOf(n, d) ==
  IF ~WellFormed(n) \/ \E i \in DOMAIN d : d[i] = IllTyped THEN IllTyped ELSE Rule(n, d)

\* infer_dimension, for every node of the expression.
Dimensions(e) ==
  LET dim[k \in DOMAIN e] == DimensionOf(e[k], Children(e, k, dim)) IN dim

\* total_lookback, for every node.
Lookbacks(e) ==
  LET back[k \in DOMAIN e] == OwnLookback(e[k]) + Max({0} \cup ToSet(Children(e, k, back)))
  IN back

-----------------------------------------------------------------------------
(* The window formulas, shared by batch and stream.                        *)

Changes(w) == [i \in 1 .. Len(w) - 1 |-> w[i + 1] - w[i]]

Ups(w) == Total([i \in DOMAIN Changes(w) |-> Max({Changes(w)[i], 0})])

Downs(w) == Total([i \in DOMAIN Changes(w) |-> Max({-Changes(w)[i], 0})])

\* Mutant of Path: the changes keep their sign.
PathSigned(w) == Ups(w) - Downs(w)

\* The sum of the absolute changes.
Path(w) == Ups(w) + Downs(w)

Deviation(w) == Len(w) * Total([i \in DOMAIN w |-> w[i] * w[i]]) - Total(w) * Total(w)

Formula(op, w) ==
  LET first == w[1]
      last == w[Len(w)]
      ends == ~Isnan(first) /\ ~Isnan(last)
  IN CASE op = "delta" -> IF ends THEN last - first ELSE NaN
       [] op = "ret" -> IF ends /\ first # 0 THEN Percent(last - first, first) ELSE NaN
       [] op \notin {"delta", "ret"} /\ ~Finite(w) -> NaN
       [] op = "sma" /\ Finite(w) -> Total(w) \div Len(w)
       [] op = "highest" /\ Finite(w) -> Max(ToSet(w))
       [] op = "lowest" /\ Finite(w) -> Min(ToSet(w))
       [] op = "stdev" /\ Finite(w) -> Deviation(w)
       [] op = "zscore" /\ Finite(w) ->
            IF Deviation(w) = 0 THEN NaN ELSE Len(w) * last - Total(w)
       [] op = "rank" /\ Finite(w) ->
            Percent(Cardinality({ i \in DOMAIN w : w[i] <= last }), Len(w))
       [] op = "efficiency_ratio" /\ Finite(w) ->
            IF Path(w) = 0 THEN NaN ELSE Percent(Abs(last - first), Path(w))
       [] op = "rsi" /\ Finite(w) -> IF Path(w) = 0 THEN 50 ELSE Percent(Ups(w), Path(w))

\* Choppiness, without its logarithms.
Chop(tr, hi, lo) ==
  LET range == Max(ToSet(hi)) - Min(ToSet(lo)) IN
  IF range <= 0 \/ Total(tr) <= 0 THEN NaN ELSE Percent(Total(tr), range)

TrueRange(high, low, prev_close) ==
  IF Isnan(prev_close) THEN high - low
  ELSE Max({high - low, Abs(high - prev_close), Abs(low - prev_close)})

\* alpha = 2 / (period + 1).
Smoothed(prev, x, period) ==
  IF Isnan(prev) THEN x ELSE prev + (2 * (x - prev)) \div (period + 1)

PointValue(n, v) ==
  LET nan == \E i \in DOMAIN v : Isnan(v[i]) IN
  CASE n.op \in {"gt", "lt"} /\ nan -> FALSE
    [] n.op = "gt" /\ ~nan -> v[1] > v[2]
    [] n.op = "lt" /\ ~nan -> v[1] < v[2]
    [] n.op = "and" -> \A i \in DOMAIN v : v[i]
    [] n.op = "or" -> \E i \in DOMAIN v : v[i]
    [] n.op = "not" -> ~v[1]
    [] n.op \in {"abs", "neg", "add", "sub"} /\ nan -> NaN
    [] n.op = "abs" /\ ~nan -> Abs(v[1])
    [] n.op = "neg" /\ ~nan -> -v[1]
    [] n.op = "add" /\ ~nan -> v[1] + v[2]
    [] n.op = "sub" /\ ~nan -> v[1] - v[2]

Crossed(above, pa, pb, a, b) ==
  /\ ~(Isnan(pa) \/ Isnan(pb) \/ Isnan(a) \/ Isnan(b))
  /\ IF above THEN pa <= pb /\ a > b ELSE pa >= pb /\ a < b

-----------------------------------------------------------------------------
(* Batch evaluation: one array for every node over the bars.               *)

Rolling(x, width, op, i) ==
  IF i < width THEN NaN ELSE Formula(op, SubSeq(x, i - width + 1, i))

BatchTr(bars) ==
  [i \in DOMAIN bars |->
     TrueRange(bars[i].high, bars[i].low, IF i = 1 THEN NaN ELSE bars[i - 1].close)]

Highs(bars) == [i \in DOMAIN bars |-> bars[i].high]
Lows(bars) == [i \in DOMAIN bars |-> bars[i].low]

\* The smoothed value that bar i continues: the last one that is a number.
PrevOf(x, ema, i) ==
  LET seen == { j \in 1 .. i - 1 : ~Isnan(x[j]) } IN IF seen = {} THEN NaN ELSE ema[Max(seen)]

BatchEma(x, period) ==
  LET ema[i \in DOMAIN x] ==
        IF Isnan(x[i]) THEN NaN ELSE Smoothed(PrevOf(x, ema, i), x[i], period)
  IN ema

BatchChop(bars, p, i) ==
  IF i < p THEN NaN
  ELSE Chop(SubSeq(BatchTr(bars), i - p + 1, i), SubSeq(Highs(bars), i - p + 1, i),
            SubSeq(Lows(bars), i - p + 1, i))

\* Value i of the array of node n, whose children have the arrays ch.
BatchAt(n, bars, ch, i) ==
  CASE n.op \in Sources -> bars[i][n.op]
    [] n.op = "constant" -> n.value
    [] n.op \in Elementwise -> PointValue(n, [c \in DOMAIN ch |-> ch[c][i]])
    [] n.op \in Crosses ->
         IF i = 1 THEN FALSE
         ELSE Crossed(n.op = "cross_above", ch[1][i - 1], ch[2][i - 1], ch[1][i], ch[2][i])
    [] n.op \in WindowOps -> Rolling(ch[1], Width(n), n.op, i)
    [] n.op = "ema" -> BatchEma(ch[1], n.period)[i]
    [] n.op = "atr" -> Rolling(BatchTr(bars), n.period, "sma", i)
    [] n.op = "chop" -> BatchChop(bars, n.period, i)

BatchNode(n, bars, ch) == [i \in DOMAIN bars |-> BatchAt(n, bars, ch, i)]

\* CompiledFeature.evaluate, for every node.
Evaluate(e, bars) ==
  LET eval[k \in DOMAIN e] == BatchNode(e[k], bars, Children(e, k, eval)) IN eval

-----------------------------------------------------------------------------
(* Streaming.  A StreamOp keeps deques (buf, and hi and lo of chop) and    *)
(* previous values.                                                        *)

FreshOp == [buf |-> << >>, hi |-> << >>, lo |-> << >>, prev |-> NaN, prev_b |-> NaN]

\* Mutant of Push: the deque has no maxlen.
PushUnbounded(buf, x, maxlen) == Append(buf, x)

\* deque(maxlen).append(x)
Push(buf, x, maxlen) == IF Len(buf) = maxlen THEN Append(Tail(buf), x) ELSE Append(buf, x)

\* The StreamOp after the update with child values v.
Updated(n, s, bar, v) ==
  CASE n.op \in WindowOps -> [s EXCEPT !.buf = Push(@, v[1], Width(n))]
    [] n.op = "ema" -> [s EXCEPT !.prev = IF Isnan(v[1]) THEN @ ELSE Smoothed(@, v[1], n.period)]
    [] n.op \in Crosses -> [s EXCEPT !.prev = v[1], !.prev_b = v[2]]
    [] n.op \in {"atr", "chop"} ->
         [s EXCEPT !.buf = Push(@, TrueRange(bar.high, bar.low, s.prev), n.period),
                   !.hi = Push(@, bar.high, n.period),
                   !.lo = Push(@, bar.low, n.period),
                   !.prev = bar.close]
    [] OTHER -> s

\* What the update returns; s and t are the StreamOp before and after it.
Returned(n, s, t, bar, v) ==
  CASE n.op \in Sources -> bar[n.op]
    [] n.op = "constant" -> n.value
    [] n.op \in Elementwise -> PointValue(n, v)
    [] n.op \in Crosses -> Crossed(n.op = "cross_above", s.prev, s.prev_b, v[1], v[2])
    [] n.op \in WindowOps -> IF Len(t.buf) < Width(n) THEN NaN ELSE Formula(n.op, t.buf)
    [] n.op = "ema" -> IF Isnan(v[1]) THEN NaN ELSE t.prev
    [] n.op = "atr" -> IF Len(t.buf) < n.period THEN NaN ELSE Formula("sma", t.buf)
    [] n.op = "chop" -> IF Len(t.buf) < n.period THEN NaN ELSE Chop(t.buf, t.hi, t.lo)

FeatureInit ==
  /\ nodes \in { e \in Expressions : Dimensions(e)[Len(e)] # IllTyped }
  /\ history = << >>
  /\ ops = [k \in DOMAIN nodes |-> FreshOp]
  /\ emitted = << >>

\* StreamEvaluator.update: the children first.
Outputs(bar) ==
  LET out[k \in DOMAIN nodes] ==
        LET v == Children(nodes, k, out)
        IN Returned(nodes[k], ops[k], Updated(nodes[k], ops[k], bar, v), bar, v)
  IN out

Update(bar) ==
  /\ Len(history) < MaxBars
  /\ ops' = [k \in DOMAIN nodes |->
                Updated(nodes[k], ops[k], bar, Children(nodes, k, Outputs(bar)))]
  /\ emitted' = Append(emitted, Outputs(bar)[Len(nodes)])
  /\ history' = Append(history, bar)
  /\ UNCHANGED nodes

FeatureNext == \E bar \in Candles : Update(bar)

FeatureSpec == FeatureInit /\ [][FeatureNext]_featureVars

-----------------------------------------------------------------------------
(* Safety.                                                                 *)

RootDimension == Dimensions(nodes)[Len(nodes)]

Oscillators == {"OSCILLATOR_0_1", "OSCILLATOR_0_100"}

\* Nothing in the expression brings a value out of the range of an oscillator:
\* no constant, and no chop (a gap before its window raises it above 1).
Contained ==
  \A k \in DOMAIN nodes :
    /\ nodes[k].op # "chop"
    /\ nodes[k].unit \in Oscillators => nodes[k].value \in 0 .. 100

\* A compiled feature keeps its dimension at run time: BOOL features return
\* truth values and never NaN, oscillators stay in their range
\* (compiler.py:29-62, primitives.py:39-135).
FeatureTypeOK ==
  \A i \in DOMAIN emitted :
    /\ RootDimension = "BOOL" => emitted[i] \in BOOLEAN
    /\ RootDimension # "BOOL" => emitted[i] \in Int \cup {NaN}
    /\ RootDimension \in Oscillators /\ Contained => emitted[i] \in 0 .. 100 \cup {NaN}

\* Streaming and batch evaluation agree at every bar of every history, so a
\* batch value depends on no later bar; and no numeric feature says anything
\* before its declared lookback is over (compiler.py:64-90 and 105-115,
\* primitives.py:226-362).
StreamsMatchBatch ==
  /\ emitted = Evaluate(nodes, history)[Len(nodes)]
  /\ RootDimension # "BOOL" =>
       \A i \in DOMAIN emitted : i <= Lookbacks(nodes)[Len(nodes)] => emitted[i] = NaN
=============================================================================
