-------------------------- MODULE WalkForwardProofs --------------------------
(***************************************************************************)
(* Theorems about WalkForward, for every length of history and every legal *)
(* configuration.                                                          *)
(*                                                                         *)
(* The argument is made on bars, not on ranges: the invariant says which   *)
(* bars the ranges under construction cover, fold by fold and cut by cut,  *)
(* and every assertion of validate_plan is a statement about those bars    *)
(* once the ranges are known to be non-empty.                              *)
(***************************************************************************)
EXTENDS WalkForward, TLAPS

\* Ranges that overlap nowhere.
Disjoint(R) == \A r, s \in R : r # s => Indices(r) \cap Indices(s) = {}

\* What a finished set of training ranges looks like.
Finished(R) == R \subseteq Spans /\ Disjoint(R) /\ \A r \in R : r.start < r.stop

-----------------------------------------------------------------------------
(***************************************************************************)
(* Ranges and their bars                                                   *)
(***************************************************************************)

LEMMA SpanType ==
  ASSUME NEW a \in Int, NEW b \in Int, 0 <= a, a <= b
  PROVE  /\ Span(a, b) \in Spans
         /\ Span(a, b).start = a /\ Span(a, b).stop = b
         /\ Indices(Span(a, b)) = a .. (b - 1)
BY DEF Span, Spans, IsSpan, Indices

LEMMA SpansType ==
  ASSUME NEW r \in Spans
  PROVE  /\ r.start \in Nat /\ r.stop \in Nat /\ r.start <= r.stop
         /\ r = Span(r.start, r.stop)
         /\ Indices(r) = r.start .. (r.stop - 1)
BY DEF Span, Spans, IsSpan, Indices

\* Two ranges intersect when they share a bar (IndexRange.intersects).
LEMMA IntersectsShares ==
  ASSUME NEW r \in Spans, NEW s \in Spans
  PROVE  Intersects(r, s) <=> Indices(r) \cap Indices(s) # {}
<1>1. /\ r.start \in Nat /\ r.stop \in Nat /\ s.start \in Nat /\ s.stop \in Nat
      /\ Indices(r) = r.start .. (r.stop - 1) /\ Indices(s) = s.start .. (s.stop - 1)
  BY SpansType
<1>2. ASSUME Intersects(r, s) PROVE Indices(r) \cap Indices(s) # {}
  <2>1. CASE r.start <= s.start
    <3>1. s.start \in Indices(r) \cap Indices(s)
      BY <1>1, <1>2, <2>1 DEF Intersects
    <3>2. QED
      BY <3>1
  <2>2. CASE s.start < r.start
    <3>1. r.start \in Indices(r) \cap Indices(s)
      BY <1>1, <1>2, <2>2 DEF Intersects
    <3>2. QED
      BY <3>1
  <2>3. QED
    BY <1>1, <2>1, <2>2
<1>3. ASSUME Indices(r) \cap Indices(s) # {} PROVE Intersects(r, s)
  <2>1. PICK b : b \in Indices(r) /\ b \in Indices(s)
    BY <1>3
  <2>2. /\ b \in Int /\ r.start <= b /\ b <= r.stop - 1
        /\ s.start <= b /\ b <= s.stop - 1
    BY <1>1, <2>1
  <2>3. QED
    BY <1>1, <2>2 DEF Intersects
<1>4. QED
  BY <1>2, <1>3

\* What one cut leaves of one range: its other bars, in disjoint ranges.
LEMMA PiecesOfRange ==
  ASSUME NEW r \in Spans, NEW cut \in Spans
  PROVE  /\ Pieces(r, cut) \subseteq Spans
         /\ Bars(Pieces(r, cut)) = Indices(r) \ Indices(cut)
         /\ \A p \in Pieces(r, cut) : Indices(p) \subseteq Indices(r)
         /\ Disjoint(Pieces(r, cut))
<1>1. /\ r.start \in Nat /\ r.stop \in Nat /\ r.start <= r.stop
      /\ cut.start \in Nat /\ cut.stop \in Nat /\ cut.start <= cut.stop
      /\ Indices(r) = r.start .. (r.stop - 1)
      /\ Indices(cut) = cut.start .. (cut.stop - 1)
  BY SpansType
<1>2. CASE ~Intersects(r, cut)
  <2>1. Pieces(r, cut) = {r}
    BY <1>2 DEF Pieces
  <2>2. Indices(r) \cap Indices(cut) = {}
    BY <1>2, IntersectsShares
  <2>3. QED
    BY <2>1, <2>2 DEF Bars, Disjoint
<1>3. CASE Intersects(r, cut)
  <2> DEFINE left  == Span(r.start, cut.start)
             right == Span(cut.stop, r.stop)
  <2>1. Pieces(r, cut) = {p \in {left} : r.start < cut.start}
                           \cup {p \in {right} : cut.stop < r.stop}
    BY <1>3 DEF Pieces
  <2>2. r.start < cut.start =>
          left \in Spans /\ Indices(left) = r.start .. (cut.start - 1)
    BY <1>1, SpanType
  <2>3. cut.stop < r.stop =>
          right \in Spans /\ Indices(right) = cut.stop .. (r.stop - 1)
    BY <1>1, SpanType
  <2>4. r.start < cut.stop /\ cut.start < r.stop
    BY <1>3 DEF Intersects
  <2> HIDE DEF left, right
  <2>5. Pieces(r, cut) \subseteq Spans
    BY <2>1, <2>2, <2>3
  <2>6. \A p \in Pieces(r, cut) : Indices(p) \subseteq Indices(r)
    BY <1>1, <2>1, <2>2, <2>3, <2>4
  <2>7. Disjoint(Pieces(r, cut))
    BY <1>1, <2>1, <2>2, <2>3 DEF Disjoint
  <2>8. ASSUME NEW b
        PROVE  b \in Bars(Pieces(r, cut)) <=> b \in Indices(r) \ Indices(cut)
    <3>1. b \in Bars(Pieces(r, cut)) <=>
            \/ r.start < cut.start /\ b \in Indices(left)
            \/ cut.stop < r.stop /\ b \in Indices(right)
      BY <2>1 DEF Bars
    <3>2. b \in Indices(r) \ Indices(cut) <=>
            b \in Int /\ r.start <= b /\ b < r.stop /\ (b < cut.start \/ cut.stop <= b)
      BY <1>1
    <3>3. (r.start < cut.start /\ b \in Indices(left)) <=>
            b \in Int /\ r.start <= b /\ b < cut.start
      BY <1>1, <2>2
    <3>4. (cut.stop < r.stop /\ b \in Indices(right)) <=>
            b \in Int /\ cut.stop <= b /\ b < r.stop
      BY <1>1, <2>3
    <3>5. QED
      BY <1>1, <2>4, <3>1, <3>2, <3>3, <3>4
  <2>9. QED
    BY <2>5, <2>6, <2>7, <2>8
<1>4. QED
  BY <1>2, <1>3

\* One round of subtract_ranges takes exactly the bars of the cut.
LEMMA SubtractBars ==
  ASSUME NEW R \in SUBSET Spans, Disjoint(R), NEW cut \in Spans
  PROVE  /\ Subtract(R, cut) \subseteq Spans
         /\ Disjoint(Subtract(R, cut))
         /\ Bars(Subtract(R, cut)) = Bars(R) \ Indices(cut)
<1>1. Subtract(R, cut) \subseteq Spans
  BY PiecesOfRange DEF Subtract
<1>2. ASSUME NEW p \in Subtract(R, cut), NEW q \in Subtract(R, cut), p # q
      PROVE  Indices(p) \cap Indices(q) = {}
  <2>1. PICK r \in R : p \in Pieces(r, cut)
    BY DEF Subtract
  <2>2. PICK s \in R : q \in Pieces(s, cut)
    BY DEF Subtract
  <2>3. CASE r = s
    BY <1>2, <2>1, <2>2, <2>3, PiecesOfRange DEF Disjoint
  <2>4. CASE r # s
    <3>1. Indices(p) \subseteq Indices(r) /\ Indices(q) \subseteq Indices(s)
      BY <2>1, <2>2, PiecesOfRange
    <3>2. Indices(r) \cap Indices(s) = {}
      BY <2>4 DEF Disjoint
    <3>3. QED
      BY <3>1, <3>2
  <2>5. QED
    BY <2>3, <2>4
<1>3. ASSUME NEW b
      PROVE  b \in Bars(Subtract(R, cut)) <=> b \in Bars(R) \ Indices(cut)
  <2>1. b \in Bars(Subtract(R, cut)) <=> \E r \in R : b \in Bars(Pieces(r, cut))
    BY DEF Bars, Subtract
  <2>2. \A r \in R : b \in Bars(Pieces(r, cut)) <=> b \in Indices(r) \ Indices(cut)
    BY PiecesOfRange
  <2>3. b \in Bars(R) <=> \E r \in R : b \in Indices(r)
    BY DEF Bars
  <2>4. QED
    BY <2>1, <2>2, <2>3
<1>4. QED
  BY <1>1, <1>2, <1>3 DEF Disjoint

\* Dropping empty ranges loses no bar.
LEMMA NonEmptyBars ==
  ASSUME NEW R \in SUBSET Spans, Disjoint(R)
  PROVE  Finished(NonEmpty(R)) /\ Bars(NonEmpty(R)) = Bars(R)
<1>1. Finished(NonEmpty(R))
  BY DEF Finished, NonEmpty, Disjoint
<1>2. ASSUME NEW r \in R, r \notin NonEmpty(R)
      PROVE  Indices(r) = {}
  <2>1. ~(r.start < r.stop)
    BY <1>2 DEF NonEmpty
  <2>2. r.start \in Nat /\ r.stop \in Nat /\ Indices(r) = r.start .. (r.stop - 1)
    BY SpansType
  <2>3. QED
    BY <2>1, <2>2
<1>3. Bars(NonEmpty(R)) = Bars(R)
  BY <1>2 DEF Bars, NonEmpty
<1>4. QED
  BY <1>1, <1>3

\* Clipping keeps the bars before "stop" (_generate_inner_folds).
LEMMA ClippedBars ==
  ASSUME NEW R, Finished(R), NEW stop \in Nat
  PROVE  /\ Clipped(R, stop) \subseteq Spans
         /\ Disjoint(Clipped(R, stop))
         /\ Bars(Clipped(R, stop)) = {b \in Bars(R) : b < stop}
<1> DEFINE Cap(r) == IF r.stop < stop THEN r.stop ELSE stop
           Clip(r) == Span(r.start, Cap(r))
           Early == {r \in R : Intersects(r, Span(0, stop))}
<1>1. Clipped(R, stop) = {Clip(r) : r \in Early}
  BY DEF Clipped
<1>2. \A r \in R : /\ r \in Spans /\ r.start \in Nat /\ r.stop \in Nat /\ r.start < r.stop
                   /\ Indices(r) = r.start .. (r.stop - 1)
  BY SpansType DEF Finished
<1>3. \A r \in R : r \in Early <=> r.start < stop
  <2>1. Span(0, stop).start = 0 /\ Span(0, stop).stop = stop
    BY DEF Span
  <2>2. QED
    BY <1>2, <2>1 DEF Intersects
<1>4. ASSUME NEW r \in Early
      PROVE  /\ Clip(r) \in Spans
             /\ Indices(Clip(r)) = {b \in Indices(r) : b < stop}
  <2>1. r.start \in Int /\ Cap(r) \in Int /\ 0 <= r.start /\ r.start <= Cap(r)
    BY <1>2, <1>3
  <2>2. Clip(r) \in Spans /\ Indices(Clip(r)) = r.start .. (Cap(r) - 1)
    BY <2>1, SpanType
  <2>3. r.start .. (Cap(r) - 1) = {b \in Indices(r) : b < stop}
    BY <1>2
  <2>4. QED
    BY <2>2, <2>3
<1> HIDE DEF Clip, Early
<1>5. Early \subseteq R
  BY DEF Early
<1>6. Clipped(R, stop) \subseteq Spans
  BY <1>1, <1>4
<1>7. ASSUME NEW p \in Clipped(R, stop), NEW q \in Clipped(R, stop), p # q
      PROVE  Indices(p) \cap Indices(q) = {}
  <2>1. PICK r \in Early : p = Clip(r)
    BY <1>1
  <2>2. PICK s \in Early : q = Clip(s)
    BY <1>1
  <2>3. Indices(r) \cap Indices(s) = {}
    BY <1>5, <1>7, <2>1, <2>2 DEF Finished, Disjoint
  <2>4. QED
    BY <1>4, <2>1, <2>2, <2>3
<1>8. ASSUME NEW b
      PROVE  b \in Bars(Clipped(R, stop)) <=> b \in Bars(R) /\ b < stop
  <2>1. b \in Bars(Clipped(R, stop)) <=> \E r \in Early : b \in Indices(Clip(r))
    BY <1>1 DEF Bars
  <2>2. b \in Bars(R) <=> \E r \in R : b \in Indices(r)
    BY DEF Bars
  <2>3. \A r \in R : b \in Indices(r) /\ b < stop => r \in Early
    BY <1>2, <1>3
  <2>4. QED
    BY <1>4, <1>5, <2>1, <2>2, <2>3
<1>9. QED
  BY <1>6, <1>7, <1>8 DEF Disjoint

-----------------------------------------------------------------------------
(***************************************************************************)
(* The layout of tests and validation blocks                               *)
(***************************************************************************)

LEMMA ConfigType ==
  ASSUME TypeOK
  PROVE  /\ n \in Nat
         /\ cfg.n_outer \in Nat /\ cfg.outer_test \in Nat /\ cfg.n_inner \in Nat
         /\ cfg.inner_val \in Nat /\ cfg.lockbox \in Nat /\ cfg.min_train \in Nat
         /\ cfg.purge \in Nat /\ cfg.embargo \in Nat
         /\ cfg.n_outer > 0 /\ cfg.outer_test > 0 /\ cfg.n_inner > 0
         /\ cfg.inner_val > 0 /\ cfg.lockbox > 0 /\ cfg.min_train > 0
<1>1. n \in Nat /\ cfg \in SplitConfigs
  BY LengthsAssumption, ConfigsAssumption DEF TypeOK
<1>2. QED
  BY <1>1 DEF SplitConfigs

\* Multiplication is monotone and distributes, as the solver needs it.
LEMMA Multiples ==
  ASSUME NEW a \in Nat, NEW b \in Nat, NEW m \in Nat, a <= b
  PROVE  /\ a * m \in Nat /\ a * m <= b * m /\ (a + 1) * m = a * m + m
<1>1. PICK d \in Nat : b = a + d
  <2>1. b - a \in Nat /\ b = a + (b - a)
    OBVIOUS
  <2>2. QED
    BY <2>1
<1>2. b * m = a * m + d * m /\ a * m \in Nat /\ d * m \in Nat
  BY <1>1
<1>3. QED
  BY <1>2

\* Tests follow each other without a gap, up to a purge before the lockbox.
LEMMA TestLayout ==
  ASSUME TypeOK, NEW f \in Nat, NEW g \in Nat, f <= g
  PROVE  /\ TestStart(f) \in Int
         /\ TestStart(f + 1) = TestStart(f) + cfg.outer_test
         /\ TestStart(f) <= TestStart(g)
         /\ TestStart(0) = FirstTestStart
         /\ TestStart(cfg.n_outer) = LockboxStart - cfg.purge
         /\ Test(f).start = TestStart(f) /\ Test(f).stop = TestStart(f + 1)
<1>1. f * cfg.outer_test <= g * cfg.outer_test
      /\ (f + 1) * cfg.outer_test = f * cfg.outer_test + cfg.outer_test
      /\ f * cfg.outer_test \in Nat /\ g * cfg.outer_test \in Nat
      /\ 0 * cfg.outer_test = 0 /\ cfg.n_outer * cfg.outer_test \in Nat
  BY ConfigType, Multiples
<1>2. FirstTestStart \in Int /\ LockboxStart \in Int
  BY <1>1, ConfigType DEF FirstTestStart, LockboxStart
<1>3. QED
  BY <1>1, <1>2, ConfigType DEF TestStart, FirstTestStart, Test, Span

\* Validation blocks follow each other, up to the end of outer training.
LEMMA ValLayout ==
  ASSUME TypeOK, NEW f \in Nat, NEW i \in Nat, NEW g \in Nat, i <= g
  PROVE  /\ ValStart(f, i) \in Int /\ TrainEnd(f) \in Int
         /\ ValStart(f, i + 1) = ValStart(f, i) + cfg.inner_val
         /\ ValStart(f, i) <= ValStart(f, g)
         /\ ValStart(f, 0) = FirstValStart(f)
         /\ ValStart(f, cfg.n_inner) = TrainEnd(f)
         /\ TrainEnd(f) = TestStart(f) - cfg.purge
         /\ Val(f, i).start = ValStart(f, i) /\ Val(f, i).stop = ValStart(f, i + 1)
<1>1. i * cfg.inner_val <= g * cfg.inner_val
      /\ (i + 1) * cfg.inner_val = i * cfg.inner_val + cfg.inner_val
      /\ i * cfg.inner_val \in Nat /\ g * cfg.inner_val \in Nat
      /\ 0 * cfg.inner_val = 0 /\ cfg.n_inner * cfg.inner_val \in Nat
  BY ConfigType, Multiples
<1>2. TrainEnd(f) \in Int
  BY TestLayout, ConfigType DEF TrainEnd
<1>3. FirstValStart(f) \in Int
  BY <1>1, <1>2, ConfigType DEF FirstValStart
<1>4. QED
  BY <1>1, <1>2, <1>3, ConfigType DEF ValStart, FirstValStart, Val, Span, TrainEnd

\* The embargo window after a block.
LEMMA WindowType ==
  ASSUME TypeOK, NEW block, block.stop \in Int, block.stop >= 0
  PROVE  /\ Embargo(block) \in Spans
         /\ Indices(Embargo(block)) = block.stop .. (block.stop + cfg.embargo - 1)
<1> DEFINE a == block.stop
           b == block.stop + cfg.embargo
<1>1. a \in Int /\ b \in Int /\ 0 <= a /\ a <= b
  BY ConfigType
<1>2. Embargo(block) = Span(a, b)
  BY DEF Embargo
<1> HIDE DEF a, b
<1>3. Span(a, b) \in Spans /\ Indices(Span(a, b)) = a .. (b - 1)
  BY <1>1, SpanType
<1>4. b = block.stop + cfg.embargo
  BY DEF b
<1>5. a = block.stop
  BY DEF a
<1>6. Embargo(block) \in Spans /\ Indices(Embargo(block)) = a .. (b - 1)
  BY <1>2, <1>3
<1>7. (b - 1) = (block.stop + cfg.embargo - 1)
  BY <1>1, <1>4, ConfigType
<1>8. QED
  BY <1>5, <1>6, <1>7, Zenon

\* Where the layout fits, every fold in it starts at a positive bar.
LEMMA FittingTest ==
  ASSUME TypeOK, LayoutFits, NEW f \in Nat
  PROVE  /\ TestStart(f) >= cfg.min_train + cfg.purge
         /\ TestStart(f) > 0 /\ TrainEnd(f) > 0
         /\ Test(f) \in Spans
         /\ Indices(Test(f)) = TestStart(f) .. (TestStart(f + 1) - 1)
         /\ Embargo(Test(f)) \in Spans
         /\ Indices(Embargo(Test(f))) =
              TestStart(f + 1) .. (TestStart(f + 1) + cfg.embargo - 1)
<1>1. TestStart(0) <= TestStart(f) /\ TestStart(0) = FirstTestStart
  BY TestLayout
<1>2. FirstTestStart >= cfg.min_train + cfg.purge
  BY DEF LayoutFits
<1>3. TestStart(f) \in Int /\ TestStart(0) \in Int
      /\ TestStart(f + 1) = TestStart(f) + cfg.outer_test /\ TestStart(f + 1) \in Int
  BY TestLayout
<1>4. TestStart(f) >= cfg.min_train + cfg.purge /\ TestStart(f) > 0 /\ TestStart(f + 1) > 0
  BY <1>1, <1>2, <1>3, ConfigType
<1>5. TrainEnd(f) > 0
  BY <1>3, <1>4, ConfigType DEF TrainEnd
<1>6. Test(f) \in Spans /\ Indices(Test(f)) = TestStart(f) .. (TestStart(f + 1) - 1)
  <2>1. 0 <= TestStart(f) /\ TestStart(f) <= TestStart(f + 1)
    BY <1>3, <1>4, ConfigType
  <2>2. /\ Span(TestStart(f), TestStart(f + 1)) \in Spans
        /\ Indices(Span(TestStart(f), TestStart(f + 1))) = TestStart(f) .. (TestStart(f + 1) - 1)
    BY <1>3, <2>1, SpanType
  <2>3. QED
    BY <2>2 DEF Test
<1>7. /\ Embargo(Test(f)) \in Spans
      /\ Indices(Embargo(Test(f))) =
           TestStart(f + 1) .. (TestStart(f + 1) + cfg.embargo - 1)
  <2>1. Test(f).stop = TestStart(f + 1)
    BY TestLayout
  <2>2. QED
    BY <1>3, <1>4, <2>1, WindowType
<1>8. QED
  BY <1>4, <1>5, <1>6, <1>7

\* Where the validation blocks of a fold have room, so do their windows.
LEMMA FittingVal ==
  ASSUME TypeOK, NEW f \in Nat, FirstValStart(f) >= cfg.purge + 1, NEW i \in Nat
  PROVE  /\ ValStart(f, i) - cfg.purge > 0
         /\ Val(f, i) \in Spans
         /\ Indices(Val(f, i)) = ValStart(f, i) .. (ValStart(f, i + 1) - 1)
         /\ Embargo(Val(f, i)) \in Spans
         /\ Indices(Embargo(Val(f, i))) =
              ValStart(f, i + 1) .. (ValStart(f, i + 1) + cfg.embargo - 1)
<1>1. ValStart(f, 0) <= ValStart(f, i) /\ ValStart(f, 0) = FirstValStart(f)
  BY ValLayout
<1>2. ValStart(f, i) \in Int /\ ValStart(f, 0) \in Int /\ ValStart(f, i + 1) \in Int
      /\ ValStart(f, i + 1) = ValStart(f, i) + cfg.inner_val
      /\ Val(f, i).stop = ValStart(f, i + 1)
  BY ValLayout
<1>3. ValStart(f, i) - cfg.purge > 0
  BY <1>1, <1>2, ConfigType
<1>4. Val(f, i) \in Spans /\ Indices(Val(f, i)) = ValStart(f, i) .. (ValStart(f, i + 1) - 1)
  <2>1. 0 <= ValStart(f, i) /\ ValStart(f, i) <= ValStart(f, i + 1)
    BY <1>2, <1>3, ConfigType
  <2>2. /\ Span(ValStart(f, i), ValStart(f, i + 1)) \in Spans
        /\ Indices(Span(ValStart(f, i), ValStart(f, i + 1))) =
             ValStart(f, i) .. (ValStart(f, i + 1) - 1)
    BY <1>2, <2>1, SpanType
  <2>3. QED
    BY <2>2 DEF Val
<1>5. /\ Embargo(Val(f, i)) \in Spans
      /\ Indices(Embargo(Val(f, i))) =
           ValStart(f, i + 1) .. (ValStart(f, i + 1) + cfg.embargo - 1)
  <2>1. ValStart(f, i + 1) >= 0
    BY <1>2, <1>3, ConfigType
  <2>2. QED
    BY <1>2, <2>1, WindowType
<1>6. QED
  BY <1>3, <1>4, <1>5

-----------------------------------------------------------------------------
(***************************************************************************)
(* The invariant                                                           *)
(***************************************************************************)

\* The bars before the purge of outer fold f, less the first c windows.
OuterBars(f, c) ==
  {b \in Nat : /\ b < TrainEnd(f)
               /\ \A e \in 0 .. c - 1 : b \notin Indices(Embargo(Test(e)))}

\* The bars of its training before the purge of inner fold i, less the first
\* c inner windows.
InnerBars(f, i, c) ==
  {b \in OuterBars(f, f) : /\ b < ValStart(f, i) - cfg.purge
                           /\ \A e \in 0 .. c - 1 : b \notin Indices(Embargo(Val(f, e)))}

GoodInner(x, f, i) ==
  /\ x.val = Val(f, i)
  /\ Finished(x.train) /\ Bars(x.train) = InnerBars(f, i, i)

GoodTrain(R, f) ==
  /\ Finished(R) /\ Bars(R) = OuterBars(f, f)
  /\ FirstValStart(f) >= cfg.purge + 1

GoodFold(x, f) ==
  /\ x.test = Test(f)
  /\ GoodTrain(x.train, f)
  /\ Len(x.inner) = cfg.n_inner
  /\ \A i \in 1 .. Len(x.inner) : GoodInner(x.inner[i], f, i - 1)

OuterInv ==
  /\ Len(folds) = k /\ cuts <= CutsOf(k)
  /\ Disjoint(ranges) /\ Bars(ranges) = OuterBars(k, cuts)

InnerInv ==
  /\ Len(folds) = k /\ Len(inner) = j /\ cuts <= CutsOf(j)
  /\ GoodTrain(train, k)
  /\ \A i \in 1 .. Len(inner) : GoodInner(inner[i], k, i - 1)
  /\ Disjoint(ranges) /\ Bars(ranges) = InnerBars(k, j, cuts)

IInv ==
  /\ TypeOK
  /\ pc \in {"outer", "inner", "validate"} \/ folds # << >> => LayoutFits
  /\ pc = "layout" => k = 0 /\ folds = << >>
  /\ Len(folds) <= cfg.n_outer
  /\ \A f \in 1 .. Len(folds) : GoodFold(folds[f], f - 1)
  /\ pc = "outer" => OuterInv
  /\ pc = "inner" => InnerInv
  /\ pc # "invariant_error"

\* The layout does not change while it is generated.
LEMMA SamePlan ==
  ASSUME n' = n, cfg' = cfg
  PROVE  /\ LayoutFits' <=> LayoutFits
         /\ \A c : CutsOf(c)' = CutsOf(c)
         /\ \A f, c : OuterBars(f, c)' = OuterBars(f, c)
         /\ \A f, i, c : InnerBars(f, i, c)' = InnerBars(f, i, c)
         /\ \A R, f : GoodTrain(R, f)' <=> GoodTrain(R, f)
         /\ \A x, f, i : GoodInner(x, f, i)' <=> GoodInner(x, f, i)
         /\ \A x, f : GoodFold(x, f)' <=> GoodFold(x, f)
<1>1. LockboxStart' = LockboxStart /\ FirstTestStart' = FirstTestStart
  BY DEF LockboxStart, FirstTestStart
<1>2. LayoutFits' <=> LayoutFits
  BY <1>1 DEF LayoutFits
<1>3. \A c : CutsOf(c)' = CutsOf(c)
  BY DEF CutsOf
<1>4. /\ \A f : TestStart(f)' = TestStart(f)
      /\ \A f : Test(f)' = Test(f) /\ TrainEnd(f)' = TrainEnd(f)
  BY <1>1 DEF TestStart, Test, TrainEnd
<1>5. /\ \A f : FirstValStart(f)' = FirstValStart(f)
      /\ \A f, i : ValStart(f, i)' = ValStart(f, i) /\ Val(f, i)' = Val(f, i)
  BY <1>4 DEF FirstValStart, ValStart, Val
<1>6. /\ \A f : Embargo(Test(f))' = Embargo(Test(f))
      /\ \A f, i : Embargo(Val(f, i))' = Embargo(Val(f, i))
  BY <1>4, <1>5 DEF Embargo
<1>7. \A f, c : OuterBars(f, c)' = OuterBars(f, c)
  BY <1>4, <1>6 DEF OuterBars
<1>8. \A f, i, c : InnerBars(f, i, c)' = InnerBars(f, i, c)
  BY <1>5, <1>6, <1>7 DEF InnerBars
<1>9. \A R, f : GoodTrain(R, f)' <=> GoodTrain(R, f)
  BY <1>5, <1>7 DEF GoodTrain
<1>10. \A x, f, i : GoodInner(x, f, i)' <=> GoodInner(x, f, i)
  BY <1>5, <1>8 DEF GoodInner
<1>11. \A x, f : GoodFold(x, f)' <=> GoodFold(x, f)
  BY <1>4, <1>9, <1>10 DEF GoodFold
<1>12. QED
  BY <1>2, <1>3, <1>7, <1>8, <1>9, <1>10, <1>11

-----------------------------------------------------------------------------
(***************************************************************************)
(* What starting, cutting and finishing a fold does to the bars            *)
(***************************************************************************)

LEMMA OuterStarts ==
  ASSUME TypeOK, LayoutFits, NEW f \in Nat
  PROVE  /\ {Span(0, TrainEnd(f))} \subseteq Spans
         /\ Disjoint({Span(0, TrainEnd(f))})
         /\ Bars({Span(0, TrainEnd(f))}) = OuterBars(f, 0)
<1>1. TrainEnd(f) \in Int /\ TrainEnd(f) > 0
  BY FittingTest, ValLayout
<1>2. /\ Span(0, TrainEnd(f)) \in Spans
      /\ Indices(Span(0, TrainEnd(f))) = 0 .. (TrainEnd(f) - 1)
  BY <1>1, SpanType
<1>3. OuterBars(f, 0) = 0 .. (TrainEnd(f) - 1)
  BY <1>1 DEF OuterBars
<1>4. QED
  BY <1>2, <1>3 DEF Bars, Disjoint

LEMMA OuterCut ==
  ASSUME TypeOK, LayoutFits, NEW f \in Nat, NEW c \in Nat,
         Disjoint(ranges), Bars(ranges) = OuterBars(f, c)
  PROVE  LET R == Subtract(ranges, Embargo(Test(c))) IN
         R \subseteq Spans /\ Disjoint(R) /\ Bars(R) = OuterBars(f, c + 1)
<1>1. Embargo(Test(c)) \in Spans /\ ranges \in SUBSET Spans
  BY FittingTest DEF TypeOK
<1>2. 0 .. (c + 1) - 1 = (0 .. c - 1) \cup {c}
  OBVIOUS
<1>3. OuterBars(f, c + 1) = OuterBars(f, c) \ Indices(Embargo(Test(c)))
  BY <1>2 DEF OuterBars
<1>4. QED
  BY <1>1, <1>3, SubtractBars

LEMMA InnerStarts ==
  ASSUME TypeOK, NEW f \in Nat, NEW i \in Nat, NEW R, GoodTrain(R, f)
  PROVE  LET C == Clipped(R, ValStart(f, i) - cfg.purge) IN
         C \subseteq Spans /\ Disjoint(C) /\ Bars(C) = InnerBars(f, i, 0)
<1>1. FirstValStart(f) >= cfg.purge + 1 /\ Finished(R) /\ Bars(R) = OuterBars(f, f)
  BY DEF GoodTrain
<1>2. ValStart(f, i) - cfg.purge \in Nat
  <2>1. ValStart(f, i) - cfg.purge > 0
    BY <1>1, FittingVal
  <2>2. ValStart(f, i) \in Int /\ cfg.purge \in Nat
    BY ValLayout, ConfigType
  <2>3. QED
    BY <2>1, <2>2
<1>3. InnerBars(f, i, 0) = {b \in Bars(R) : b < ValStart(f, i) - cfg.purge}
  BY <1>1 DEF InnerBars
<1>4. QED
  BY <1>1, <1>2, <1>3, ClippedBars

LEMMA InnerCut ==
  ASSUME TypeOK, NEW f \in Nat, NEW i \in Nat, NEW c \in Nat,
         FirstValStart(f) >= cfg.purge + 1,
         Disjoint(ranges), Bars(ranges) = InnerBars(f, i, c)
  PROVE  LET R == Subtract(ranges, Embargo(Val(f, c))) IN
         R \subseteq Spans /\ Disjoint(R) /\ Bars(R) = InnerBars(f, i, c + 1)
<1>1. Embargo(Val(f, c)) \in Spans /\ ranges \in SUBSET Spans
  BY FittingVal DEF TypeOK
<1>2. 0 .. (c + 1) - 1 = (0 .. c - 1) \cup {c}
  OBVIOUS
<1>3. InnerBars(f, i, c + 1) = InnerBars(f, i, c) \ Indices(Embargo(Val(f, c)))
  BY <1>2 DEF InnerBars
<1>4. QED
  BY <1>1, <1>3, SubtractBars

\* Without an embargo the windows that are not cut are empty.
LEMMA AllCut ==
  ASSUME TypeOK, LayoutFits, NEW f \in Nat, NEW i \in Nat
  PROVE  /\ CutsOf(f) \in Nat /\ CutsOf(f) <= f
         /\ OuterBars(f, CutsOf(f)) = OuterBars(f, f)
         /\ FirstValStart(f) >= cfg.purge + 1 =>
              InnerBars(f, i, CutsOf(i)) = InnerBars(f, i, i)
<1>1. CASE cfg.embargo > 0
  BY <1>1 DEF CutsOf
<1>2. CASE ~(cfg.embargo > 0)
  <2>1. cfg.embargo = 0 /\ CutsOf(f) = 0 /\ CutsOf(i) = 0
    BY <1>2, ConfigType DEF CutsOf
  <2>2. \A e \in Nat : Indices(Embargo(Test(e))) = {}
    <3> SUFFICES ASSUME NEW e \in Nat PROVE Indices(Embargo(Test(e))) = {}
      OBVIOUS
    <3>1. TestStart(e + 1) \in Int
      BY TestLayout
    <3>2. QED
      BY <2>1, <3>1, FittingTest
  <2>3. OuterBars(f, 0) = OuterBars(f, f)
    BY <2>2 DEF OuterBars
  <2>4. ASSUME FirstValStart(f) >= cfg.purge + 1
        PROVE  InnerBars(f, i, 0) = InnerBars(f, i, i)
    <3>1. ASSUME NEW e \in Nat PROVE Indices(Embargo(Val(f, e))) = {}
      <4>1. ValStart(f, e + 1) \in Int
        BY ValLayout
      <4>2. QED
        BY <2>1, <2>4, <4>1, FittingVal
    <3>2. QED
      BY <3>1 DEF InnerBars
  <2>5. QED
    BY <2>1, <2>3, <2>4
<1>3. QED
  BY <1>1, <1>2

-----------------------------------------------------------------------------
(***************************************************************************)
(* The invariant is inductive                                              *)
(***************************************************************************)

LEMMA InitIInv == Init => IInv
<1> SUFFICES ASSUME Init PROVE IInv
  OBVIOUS
<1>1. cfg \in SplitConfigs
  BY ConfigsAssumption DEF Init
<1>2. 0 \in 0 .. cfg.n_outer - 1 /\ 0 \in 0 .. cfg.n_inner - 1
  BY <1>1 DEF SplitConfigs
<1>3. TypeOK
  BY <1>2 DEF Init, TypeOK
<1>4. Len(folds) <= cfg.n_outer
  BY <1>1 DEF Init, SplitConfigs
<1>5. QED
  BY <1>3, <1>4 DEF Init, IInv

\* The facts every step may use about where the generator is.
LEMMA Here ==
  ASSUME IInv
  PROVE  /\ k \in Nat /\ j \in Nat /\ cuts \in Nat
         /\ k < cfg.n_outer /\ j < cfg.n_inner
         /\ folds \in Seq(OuterFolds) /\ inner \in Seq(InnerFolds)
         /\ Len(folds) \in Nat /\ Len(inner) \in Nat
BY ConfigType DEF IInv, TypeOK

LEMMA RejectStep ==
  ASSUME IInv, RejectLayout \/ RejectOuter
  PROVE  IInv'
<1>1. pc' = "rejected" /\ UNCHANGED << n, cfg, k, j, cuts, ranges, train, inner, folds >>
  BY DEF RejectLayout, RejectOuter, Reject
<1>2. TypeOK'
  BY <1>1 DEF IInv, TypeOK, Ends
<1>3. QED
  BY <1>1, <1>2, SamePlan DEF IInv

LEMMA BeginStep ==
  ASSUME IInv, BeginFolds
  PROVE  IInv'
<1>1. /\ pc = "layout" /\ LayoutFits /\ pc' = "outer" /\ k' = 0 /\ cuts' = 0
      /\ ranges' = {Span(0, TrainEnd(0))} /\ k = 0 /\ folds = << >>
      /\ UNCHANGED << n, cfg, j, train, inner, folds >>
  BY DEF BeginFolds, StartOuter, IInv
<1>2. TypeOK /\ 0 \in Nat
  BY DEF IInv
<1>3. /\ ranges' \subseteq Spans /\ Disjoint(ranges') /\ Bars(ranges') = OuterBars(0, 0)
  BY <1>1, <1>2, OuterStarts
<1>4. TypeOK'
  BY <1>1, <1>2, <1>3 DEF TypeOK
<1>5. OuterInv'
  <2>1. CutsOf(0) \in Nat
    BY <1>1, <1>2, AllCut
  <2>2. OuterBars(0, 0)' = OuterBars(0, 0) /\ CutsOf(0)' = CutsOf(0)
    BY <1>1, SamePlan
  <2>3. QED
    BY <1>1, <1>3, <2>1, <2>2 DEF OuterInv
<1>6. QED
  BY <1>1, <1>4, <1>5, SamePlan DEF IInv

LEMMA CutOuterStep ==
  ASSUME IInv, CutOuter
  PROVE  IInv'
<1>1. /\ pc = "outer" /\ cuts < CutsOf(k) /\ cuts' = cuts + 1
      /\ ranges' = Subtract(ranges, Embargo(Test(cuts)))
      /\ UNCHANGED << n, cfg, pc, k, j, train, inner, folds >>
  BY DEF CutOuter
<1>2. TypeOK /\ LayoutFits /\ OuterInv /\ k \in Nat /\ cuts \in Nat
  BY <1>1, Here DEF IInv
<1>3. /\ ranges' \subseteq Spans /\ Disjoint(ranges')
      /\ Bars(ranges') = OuterBars(k, cuts + 1)
  BY <1>1, <1>2, OuterCut DEF OuterInv
<1>4. TypeOK'
  BY <1>1, <1>2, <1>3 DEF TypeOK
<1>5. OuterInv'
  <2>1. CutsOf(k) \in Nat
    BY <1>2, AllCut
  <2>2. cuts' <= CutsOf(k)
    BY <1>1, <1>2, <2>1
  <2>3. OuterBars(k, cuts)' = OuterBars(k, cuts + 1) /\ CutsOf(k)' = CutsOf(k)
    BY <1>1, SamePlan
  <2>4. QED
    BY <1>1, <1>2, <1>3, <2>2, <2>3 DEF OuterInv
<1>6. QED
  BY <1>1, <1>4, <1>5, SamePlan DEF IInv

LEMMA FinishOuterStep ==
  ASSUME IInv, FinishOuter
  PROVE  IInv'
<1>1. /\ pc = "outer" /\ cuts = CutsOf(k) /\ FirstValStart(k) >= cfg.purge + 1
      /\ train' = NonEmpty(ranges) /\ inner' = << >> /\ pc' = "inner"
      /\ j' = 0 /\ cuts' = 0
      /\ ranges' = Clipped(train', ValStart(k, 0) - cfg.purge)
      /\ UNCHANGED << n, cfg, k, folds >>
  BY DEF FinishOuter, OuterIsCut, OuterFits, StartInner
<1>2. TypeOK /\ LayoutFits /\ OuterInv /\ k \in Nat /\ ranges \in SUBSET Spans
  BY <1>1, Here DEF IInv, TypeOK
<1>3. GoodTrain(train', k)
  <2>1. Finished(train') /\ Bars(train') = Bars(ranges)
    BY <1>1, <1>2, NonEmptyBars DEF OuterInv
  <2>2. Bars(ranges) = OuterBars(k, k)
    BY <1>1, <1>2, AllCut DEF OuterInv
  <2>3. QED
    BY <1>1, <2>1, <2>2 DEF GoodTrain
<1>4. /\ ranges' \subseteq Spans /\ Disjoint(ranges')
      /\ Bars(ranges') = InnerBars(k, 0, 0)
  BY <1>1, <1>2, <1>3, InnerStarts
<1>5. TypeOK'
  <2>1. train' \subseteq Spans
    BY <1>3 DEF GoodTrain, Finished
  <2>2. 0 \in 0 .. cfg.n_inner - 1
    BY <1>2, ConfigType
  <2>3. QED
    BY <1>1, <1>2, <1>4, <2>1, <2>2 DEF TypeOK
<1>6. InnerInv'
  <2>1. 0 <= CutsOf(0)
    BY <1>2, AllCut
  <2>2. /\ InnerBars(k, 0, 0)' = InnerBars(k, 0, 0) /\ CutsOf(0)' = CutsOf(0)
        /\ GoodTrain(train, k)'
    BY <1>1, <1>3, SamePlan
  <2>3. QED
    BY <1>1, <1>2, <1>4, <2>1, <2>2 DEF InnerInv, OuterInv
<1>7. QED
  BY <1>1, <1>5, <1>6, <1>2, SamePlan DEF IInv

LEMMA CutInnerStep ==
  ASSUME IInv, CutInner
  PROVE  IInv'
<1>1. /\ pc = "inner" /\ cuts < CutsOf(j) /\ cuts' = cuts + 1
      /\ ranges' = Subtract(ranges, Embargo(Val(k, cuts)))
      /\ UNCHANGED << n, cfg, pc, k, j, train, inner, folds >>
  BY DEF CutInner
<1>2. /\ TypeOK /\ LayoutFits /\ InnerInv /\ k \in Nat /\ j \in Nat /\ cuts \in Nat
      /\ FirstValStart(k) >= cfg.purge + 1
  BY <1>1, Here DEF IInv, InnerInv, GoodTrain
<1>3. /\ ranges' \subseteq Spans /\ Disjoint(ranges')
      /\ Bars(ranges') = InnerBars(k, j, cuts + 1)
  BY <1>1, <1>2, InnerCut DEF InnerInv
<1>4. TypeOK'
  BY <1>1, <1>2, <1>3 DEF TypeOK
<1>5. InnerInv'
  <2>1. CutsOf(j) \in Nat
    BY <1>2, AllCut
  <2>2. cuts' <= CutsOf(j)
    BY <1>1, <1>2, <2>1
  <2>3. /\ InnerBars(k, j, cuts)' = InnerBars(k, j, cuts + 1) /\ CutsOf(j)' = CutsOf(j)
        /\ GoodTrain(train, k)'
        /\ \A i \in 1 .. Len(inner) : GoodInner(inner[i], k, i - 1)'
    BY <1>1, <1>2, SamePlan DEF InnerInv
  <2>4. QED
    BY <1>1, <1>2, <1>3, <2>2, <2>3 DEF InnerInv
<1>6. QED
  BY <1>1, <1>2, <1>4, <1>5, SamePlan DEF IInv

\* The inner fold that was just cut joins the finished ones.
LEMMA BuiltInner ==
  ASSUME IInv, InnerIsCut
  PROVE  /\ WithInner \in Seq(InnerFolds)
         /\ Len(WithInner) = j + 1
         /\ \A i \in 1 .. Len(WithInner) : GoodInner(WithInner[i], k, i - 1)
<1> DEFINE x == [train |-> NonEmpty(ranges), val |-> Val(k, j)]
<1>1. /\ TypeOK /\ LayoutFits /\ InnerInv /\ k \in Nat /\ j \in Nat /\ cuts = CutsOf(j)
      /\ inner \in Seq(InnerFolds) /\ Len(inner) = j
      /\ FirstValStart(k) >= cfg.purge + 1 /\ ranges \in SUBSET Spans
  BY Here DEF InnerIsCut, IInv, InnerInv, GoodTrain, TypeOK
<1>2. Finished(NonEmpty(ranges)) /\ Bars(NonEmpty(ranges)) = InnerBars(k, j, j)
  BY <1>1, NonEmptyBars, AllCut DEF InnerInv
<1>3. Val(k, j) \in Spans
  BY <1>1, FittingVal
<1>4. x \in InnerFolds
  BY <1>2, <1>3 DEF InnerFolds, Finished
<1>5. GoodInner(x, k, j)
  BY <1>2 DEF GoodInner
<1>6. WithInner = Append(inner, x)
  BY DEF WithInner
<1> HIDE DEF x
<1>7. WithInner \in Seq(InnerFolds) /\ Len(WithInner) = j + 1
  BY <1>1, <1>4, <1>6
<1>8. ASSUME NEW i \in 1 .. j + 1 PROVE GoodInner(WithInner[i], k, i - 1)
  <2>1. CASE i = j + 1
    <3>1. WithInner[i] = x /\ i - 1 = j
      BY <1>1, <1>4, <1>6, <2>1
    <3>2. QED
      BY <1>5, <3>1
  <2>2. CASE i # j + 1
    <3>1. i \in 1 .. Len(inner) /\ WithInner[i] = inner[i]
      BY <1>1, <1>4, <1>6, <2>2
    <3>2. QED
      BY <1>1, <3>1 DEF InnerInv
  <2>3. QED
    BY <2>1, <2>2
<1>9. QED
  BY <1>7, <1>8

\* The outer fold whose last inner fold was just cut joins the finished ones.
LEMMA BuiltFold ==
  ASSUME IInv, FoldIsBuilt
  PROVE  /\ WithFold \in Seq(OuterFolds)
         /\ Len(WithFold) = k + 1
         /\ \A f \in 1 .. Len(WithFold) : GoodFold(WithFold[f], f - 1)
<1> DEFINE x == [train |-> train, test |-> Test(k), inner |-> WithInner]
<1>1. /\ TypeOK /\ LayoutFits /\ InnerInv /\ k \in Nat /\ InnerIsCut
      /\ folds \in Seq(OuterFolds) /\ Len(folds) = k /\ train \subseteq Spans
      /\ j + 1 = cfg.n_inner
  BY Here DEF FoldIsBuilt, InnerIsCut, IInv, InnerInv, TypeOK
<1>2. Test(k) \in Spans
  BY <1>1, FittingTest
<1>3. x \in OuterFolds
  BY <1>1, <1>2, BuiltInner DEF OuterFolds
<1>4. GoodFold(x, k)
  BY <1>1, BuiltInner DEF GoodFold, InnerInv
<1>5. WithFold = Append(folds, x)
  BY DEF WithFold
<1> HIDE DEF x
<1>6. WithFold \in Seq(OuterFolds) /\ Len(WithFold) = k + 1
  BY <1>1, <1>3, <1>5
<1>7. ASSUME NEW f \in 1 .. k + 1 PROVE GoodFold(WithFold[f], f - 1)
  <2>1. CASE f = k + 1
    <3>1. WithFold[f] = x /\ f - 1 = k
      BY <1>1, <1>3, <1>5, <2>1
    <3>2. QED
      BY <1>4, <3>1
  <2>2. CASE f # k + 1
    <3>1. f \in 1 .. Len(folds) /\ WithFold[f] = folds[f]
      BY <1>1, <1>3, <1>5, <2>2
    <3>2. QED
      BY <3>1 DEF IInv
  <2>3. QED
    BY <2>1, <2>2
<1>8. QED
  BY <1>6, <1>7

LEMMA NextInnerStep ==
  ASSUME IInv, NextInner
  PROVE  IInv'
<1>1. /\ InnerIsCut /\ j + 1 < cfg.n_inner /\ inner' = WithInner
      /\ pc' = "inner" /\ j' = j + 1 /\ cuts' = 0
      /\ ranges' = Clipped(train, ValStart(k, j + 1) - cfg.purge)
      /\ UNCHANGED << n, cfg, k, train, folds >>
  BY DEF NextInner, StartInner
<1>2. /\ TypeOK /\ LayoutFits /\ InnerInv /\ k \in Nat /\ j \in Nat /\ j + 1 \in Nat
      /\ pc = "inner" /\ GoodTrain(train, k)
  BY <1>1, Here DEF InnerIsCut, IInv, InnerInv
<1>3. /\ ranges' \subseteq Spans /\ Disjoint(ranges')
      /\ Bars(ranges') = InnerBars(k, j + 1, 0)
  BY <1>1, <1>2, InnerStarts
<1>4. TypeOK'
  <2>1. j + 1 \in 0 .. cfg.n_inner - 1
    BY <1>1, <1>2, ConfigType
  <2>2. QED
    BY <1>1, <1>2, <1>3, <2>1, BuiltInner DEF TypeOK
<1>5. InnerInv'
  <2>1. CutsOf(j + 1) \in Nat
    BY <1>2, AllCut
  <2>2. GoodTrain(train, k)'
    BY <1>1, <1>2, SamePlan
  <2>3. /\ InnerBars(k, j, cuts)' = InnerBars(k, j + 1, 0)
        /\ CutsOf(j)' = CutsOf(j + 1)
    BY <1>1, SamePlan
  <2>4. Len(inner') = j' /\ \A i \in 1 .. Len(inner') : GoodInner(inner'[i], k, i - 1)
    BY <1>1, BuiltInner
  <2>5. \A i \in 1 .. Len(inner') : GoodInner(inner[i], k, i - 1)'
    BY <1>1, <2>4, SamePlan
  <2>6. QED
    BY <1>1, <1>2, <1>3, <2>1, <2>2, <2>3, <2>4, <2>5 DEF InnerInv
<1>6. QED
  BY <1>1, <1>2, <1>4, <1>5, SamePlan DEF IInv

LEMMA NextOuterStep ==
  ASSUME IInv, NextOuter
  PROVE  IInv'
<1>1. /\ FoldIsBuilt /\ k + 1 < cfg.n_outer /\ folds' = WithFold
      /\ pc' = "outer" /\ k' = k + 1 /\ cuts' = 0
      /\ ranges' = {Span(0, TrainEnd(k + 1))}
      /\ UNCHANGED << n, cfg, j, train, inner >>
  BY DEF NextOuter, StartOuter
<1>2. /\ TypeOK /\ LayoutFits /\ InnerInv /\ k \in Nat /\ k + 1 \in Nat
      /\ pc = "inner" /\ cfg.n_outer \in Nat
  BY <1>1, Here, ConfigType DEF FoldIsBuilt, InnerIsCut, IInv
<1>3. /\ ranges' \subseteq Spans /\ Disjoint(ranges')
      /\ Bars(ranges') = OuterBars(k + 1, 0)
  BY <1>1, <1>2, OuterStarts
<1>4. TypeOK'
  <2>1. k + 1 \in 0 .. cfg.n_outer - 1
    BY <1>1, <1>2, ConfigType
  <2>2. QED
    BY <1>1, <1>2, <1>3, <2>1, BuiltFold DEF TypeOK
<1>5. \A f \in 1 .. Len(folds') : GoodFold(folds[f], f - 1)'
  BY <1>1, BuiltFold, SamePlan
<1>6. OuterInv'
  <2>1. CutsOf(k + 1) \in Nat
    BY <1>2, AllCut
  <2>2. OuterBars(k, cuts)' = OuterBars(k + 1, 0) /\ CutsOf(k)' = CutsOf(k + 1)
    BY <1>1, SamePlan
  <2>3. QED
    BY <1>1, <1>2, <1>3, <2>1, <2>2, BuiltFold DEF OuterInv
<1>7. LayoutFits' /\ Len(folds') <= cfg'.n_outer
  BY <1>1, <1>2, BuiltFold, SamePlan
<1>8. QED
  BY <1>1, <1>4, <1>5, <1>6, <1>7 DEF IInv

LEMMA FinishStep ==
  ASSUME IInv, FinishFolds
  PROVE  IInv'
<1>1. /\ FoldIsBuilt /\ k + 1 = cfg.n_outer /\ folds' = WithFold /\ pc' = "validate"
      /\ UNCHANGED << n, cfg, k, j, cuts, ranges, train, inner >>
  BY DEF FinishFolds
<1>2. TypeOK /\ LayoutFits /\ k \in Nat /\ cfg.n_outer \in Nat
  BY <1>1, Here, ConfigType DEF FoldIsBuilt, InnerIsCut, IInv
<1>3. TypeOK'
  BY <1>1, <1>2, BuiltFold DEF TypeOK
<1>4. \A f \in 1 .. Len(folds') : GoodFold(folds[f], f - 1)'
  BY <1>1, BuiltFold, SamePlan
<1>5. LayoutFits' /\ Len(folds') <= cfg'.n_outer
  BY <1>1, <1>2, BuiltFold, SamePlan
<1>6. QED
  BY <1>1, <1>3, <1>4, <1>5 DEF IInv

-----------------------------------------------------------------------------
(***************************************************************************)
(* What the generator builds, its validator accepts                        *)
(***************************************************************************)

\* Finished ranges that cover only bars before "stop" end there.
LEMMA RangesEnd ==
  ASSUME NEW R, Finished(R), NEW stop \in Int, \A b \in Bars(R) : b < stop, NEW r \in R
  PROVE  /\ r \in Spans /\ r.start \in Nat /\ r.stop \in Nat /\ r.start < r.stop
         /\ r.stop <= stop
<1>1. r \in Spans /\ r.start < r.stop
  BY DEF Finished
<1>2. r.start \in Nat /\ r.stop \in Nat /\ Indices(r) = r.start .. (r.stop - 1)
  BY <1>1, SpansType
<1>3. r.stop - 1 \in Indices(r)
  BY <1>1, <1>2
<1>4. r.stop - 1 \in Bars(R)
  BY <1>3 DEF Bars
<1>5. r.stop - 1 < stop
  BY <1>4
<1>6. QED
  BY <1>1, <1>2, <1>5

\* Ranges without a bar in common with s avoid it.
LEMMA AvoidsBars ==
  ASSUME NEW R \in SUBSET Spans, NEW s \in Spans,
         \A b \in Bars(R) : b \notin Indices(s)
  PROVE  Avoids(R, s)
<1> SUFFICES ASSUME NEW r \in R PROVE ~Intersects(r, s)
  BY DEF Avoids
<1>1. Indices(r) \subseteq Bars(R)
  BY DEF Bars
<1>2. QED
  BY <1>1, IntersectsShares

\* The folds the invariant speaks of, by their number in the code.
LEMMA FoldHere ==
  ASSUME IInv, NEW f \in 1 .. Len(folds)
  PROVE  /\ TypeOK /\ LayoutFits /\ f - 1 \in Nat /\ f \in Nat /\ f <= cfg.n_outer
         /\ GoodFold(folds[f], f - 1) /\ GoodTrain(folds[f].train, f - 1)
         /\ folds[f].test = Test(f - 1)
         /\ FirstValStart(f - 1) >= cfg.purge + 1
         /\ TestStart(f - 1) \in Int /\ TestStart(f) \in Int
         /\ TestStart(f) = TestStart(f - 1) + cfg.outer_test
         /\ Test(f - 1).start = TestStart(f - 1) /\ Test(f - 1).stop = TestStart(f)
         /\ TestStart(f) <= LockboxStart - cfg.purge
         /\ TrainEnd(f - 1) = TestStart(f - 1) - cfg.purge
<1>1. Len(folds) \in Nat /\ Len(folds) <= cfg.n_outer /\ TypeOK /\ cfg.n_outer \in Nat
  BY Here, ConfigType DEF IInv
<1>2. f - 1 \in Nat /\ f \in Nat /\ f <= cfg.n_outer /\ (f - 1) + 1 = f
  BY <1>1
<1>3. LayoutFits
  <2>1. folds # << >>
    BY <1>1
  <2>2. QED
    BY <2>1 DEF IInv
<1>4. GoodFold(folds[f], f - 1)
  BY DEF IInv
<1>5. TestStart(f) <= TestStart(cfg.n_outer)
      /\ TestStart(cfg.n_outer) = LockboxStart - cfg.purge
  BY <1>1, <1>2, TestLayout
<1>6. /\ TestStart(f - 1) \in Int /\ TestStart(f) \in Int
      /\ TestStart(f) = TestStart(f - 1) + cfg.outer_test
      /\ Test(f - 1).start = TestStart(f - 1) /\ Test(f - 1).stop = TestStart(f)
      /\ TrainEnd(f - 1) = TestStart(f - 1) - cfg.purge
  <2>1. PICK g \in Nat : g = f - 1 /\ f = g + 1 /\ g <= g
    BY <1>2
  <2>2. /\ TestStart(g) \in Int /\ TestStart(g + 1) = TestStart(g) + cfg.outer_test
        /\ Test(g).start = TestStart(g) /\ Test(g).stop = TestStart(g + 1)
    BY <1>1, <2>1, TestLayout
  <2>3. TestStart(g + 1) \in Int
    BY <1>1, <2>2, ConfigType
  <2>4. QED
    BY <2>1, <2>2, <2>3 DEF TrainEnd
<1>7. QED
  BY <1>1, <1>2, <1>3, <1>4, <1>5, <1>6 DEF GoodFold, GoodTrain

LEMMA TestsValid == IInv => ValidTests
<1> SUFFICES ASSUME IInv, NEW f \in DOMAIN folds, f > 1
             PROVE  folds[f].test.start >= folds[f-1].test.stop
  BY DEF ValidTests
<1>1. f \in 1 .. Len(folds) /\ f - 1 \in 1 .. Len(folds)
  BY Here
<1>2. folds[f].test.start = TestStart(f - 1) /\ TestStart(f - 1) \in Int
  BY <1>1, FoldHere
<1>3. folds[f-1].test.stop = TestStart(f - 1)
  BY <1>1, FoldHere
<1>4. QED
  BY <1>2, <1>3

LEMMA TrainingValid ==
  ASSUME IInv, NEW f \in 1 .. Len(folds)
  PROVE  ValidTraining(f)
<1> DEFINE R == folds[f].train
<1>1. /\ Finished(R) /\ Bars(R) = OuterBars(f - 1, f - 1) /\ R \in SUBSET Spans
      /\ TypeOK /\ LayoutFits
  BY FoldHere DEF GoodTrain, Finished
<1>2. /\ TestStart(f - 1) \in Int /\ TrainEnd(f - 1) = TestStart(f - 1) - cfg.purge
      /\ TrainEnd(f - 1) \in Int /\ cfg.purge \in Nat
      /\ folds[f].test = Test(f - 1) /\ Test(f - 1).start = TestStart(f - 1)
  BY <1>1, FoldHere, ConfigType
<1>3. \A b \in Bars(R) : b < TrainEnd(f - 1)
  BY <1>1 DEF OuterBars
<1> HIDE DEF R
<1>4. \A r \in R : /\ r.stop <= TrainEnd(f - 1) /\ r.stop \in Nat
  BY <1>1, <1>2, <1>3, RangesEnd
<1>5. Purged(R, Test(f - 1).start)
  BY <1>2, <1>4 DEF Purged
<1>6. Avoids(R, Test(f - 1))
  BY <1>2, <1>4 DEF Avoids, Intersects
<1>7. ASSUME NEW e \in 1 .. CutsOf(f - 1)
      PROVE  Avoids(R, Embargo(folds[e].test))
  <2>1. /\ e \in 1 .. Len(folds) /\ e - 1 \in 0 .. (f - 1) - 1 /\ e - 1 \in Nat
    <3>1. CutsOf(f - 1) \in Nat /\ CutsOf(f - 1) <= f - 1 /\ Len(folds) \in Nat
      BY <1>1, FoldHere, AllCut, Here
    <3>2. QED
      BY <3>1
  <2>2. folds[e].test = Test(e - 1)
    BY <2>1, FoldHere
  <2>3. Embargo(Test(e - 1)) \in Spans
    BY <1>1, <2>1, FittingTest
  <2>4. \A b \in Bars(R) : b \notin Indices(Embargo(Test(e - 1)))
    BY <1>1, <2>1 DEF OuterBars
  <2>5. QED
    BY <1>1, <2>2, <2>3, <2>4, AvoidsBars
<1>8. QED
  BY <1>2, <1>5, <1>6, <1>7 DEF ValidTraining, R

\* The inner folds of a finished outer fold, by their number in the code.
LEMMA InnerHere ==
  ASSUME IInv, NEW f \in 1 .. Len(folds), NEW i \in DOMAIN folds[f].inner
  PROVE  /\ i - 1 \in Nat /\ i \in Nat /\ i <= cfg.n_inner
         /\ i \in 1 .. Len(folds[f].inner) /\ Len(folds[f].inner) = cfg.n_inner
         /\ cfg.n_inner \in Nat /\ DOMAIN folds[f].inner = 1 .. Len(folds[f].inner)
         /\ GoodInner(folds[f].inner[i], f - 1, i - 1)
         /\ folds[f].inner[i].val = Val(f - 1, i - 1)
         /\ ValStart(f - 1, i - 1) \in Int /\ ValStart(f - 1, i) \in Int
         /\ ValStart(f - 1, i) = ValStart(f - 1, i - 1) + cfg.inner_val
         /\ Val(f - 1, i - 1).start = ValStart(f - 1, i - 1)
         /\ Val(f - 1, i - 1).stop = ValStart(f - 1, i)
         /\ ValStart(f - 1, i) <= TrainEnd(f - 1) /\ TrainEnd(f - 1) \in Int
<1>1. /\ TypeOK /\ f - 1 \in Nat /\ GoodFold(folds[f], f - 1) /\ cfg.n_inner \in Nat
  BY FoldHere, ConfigType
<1>2. folds[f].inner \in Seq(InnerFolds)
  <2>1. folds \in Seq(OuterFolds)
    BY Here
  <2>2. folds[f] \in OuterFolds
    BY <2>1
  <2>3. QED
    BY <2>2 DEF OuterFolds
<1>3. /\ Len(folds[f].inner) = cfg.n_inner /\ i \in 1 .. Len(folds[f].inner)
      /\ DOMAIN folds[f].inner = 1 .. Len(folds[f].inner)
  BY <1>1, <1>2 DEF GoodFold
<1>4. i - 1 \in Nat /\ i \in Nat /\ i <= cfg.n_inner /\ (i - 1) + 1 = i
  BY <1>1, <1>3
<1>5. GoodInner(folds[f].inner[i], f - 1, i - 1)
  BY <1>1, <1>3 DEF GoodFold
<1>6. /\ ValStart(f - 1, i) <= ValStart(f - 1, cfg.n_inner)
      /\ ValStart(f - 1, cfg.n_inner) = TrainEnd(f - 1) /\ TrainEnd(f - 1) \in Int
      /\ ValStart(f - 1, i) \in Int
  BY <1>1, <1>4, ValLayout
<1>7. /\ ValStart(f - 1, i - 1) \in Int
      /\ ValStart(f - 1, (i - 1) + 1) = ValStart(f - 1, i - 1) + cfg.inner_val
      /\ Val(f - 1, i - 1).start = ValStart(f - 1, i - 1)
      /\ Val(f - 1, i - 1).stop = ValStart(f - 1, (i - 1) + 1)
  <2>1. PICK g \in Nat, h \in Nat : g = f - 1 /\ h = i - 1 /\ h <= h
    BY <1>1, <1>4
  <2>2. /\ ValStart(g, h) \in Int
        /\ ValStart(g, h + 1) = ValStart(g, h) + cfg.inner_val
        /\ Val(g, h).start = ValStart(g, h) /\ Val(g, h).stop = ValStart(g, h + 1)
    BY <1>1, <2>1, ValLayout
  <2>3. QED
    BY <2>1, <2>2
<1>8. QED
  BY <1>1, <1>3, <1>4, <1>5, <1>6, <1>7 DEF GoodInner

LEMMA InnerValid ==
  ASSUME IInv, NEW f \in 1 .. Len(folds), NEW i \in DOMAIN folds[f].inner
  PROVE  ValidInner(f, i)
<1> DEFINE R == folds[f].inner[i].train
           v == ValStart(f - 1, i - 1)
<1>1. /\ Finished(R) /\ Bars(R) = InnerBars(f - 1, i - 1, i - 1) /\ R \in SUBSET Spans
      /\ TypeOK /\ LayoutFits /\ i - 1 \in Nat /\ f - 1 \in Nat
      /\ FirstValStart(f - 1) >= cfg.purge + 1
  BY InnerHere, FoldHere DEF GoodInner, Finished
<1>2. /\ v \in Int /\ ValStart(f - 1, i) = v + cfg.inner_val
      /\ cfg.purge \in Nat /\ cfg.inner_val \in Nat /\ v - cfg.purge \in Int
      /\ folds[f].inner[i].val = Val(f - 1, i - 1)
      /\ Val(f - 1, i - 1).start = v /\ Val(f - 1, i - 1).stop = ValStart(f - 1, i)
      /\ ValStart(f - 1, i) <= TestStart(f - 1) - cfg.purge
      /\ TestStart(f - 1) \in Int
      /\ folds[f].test = Test(f - 1) /\ Test(f - 1).start = TestStart(f - 1)
  <2>1. cfg.purge \in Nat /\ cfg.inner_val \in Nat
    BY <1>1, ConfigType
  <2>2. /\ v \in Int /\ ValStart(f - 1, i) = v + cfg.inner_val
        /\ folds[f].inner[i].val = Val(f - 1, i - 1)
        /\ Val(f - 1, i - 1).start = v /\ Val(f - 1, i - 1).stop = ValStart(f - 1, i)
        /\ ValStart(f - 1, i) <= TrainEnd(f - 1)
    BY InnerHere
  <2>3. /\ TrainEnd(f - 1) = TestStart(f - 1) - cfg.purge /\ TestStart(f - 1) \in Int
        /\ folds[f].test = Test(f - 1) /\ Test(f - 1).start = TestStart(f - 1)
    BY FoldHere
  <2> HIDE DEF v
  <2>4. v - cfg.purge \in Int
    BY <2>1, <2>2
  <2>5. QED
    BY <2>1, <2>2, <2>3, <2>4
<1>3. \A b \in Bars(R) : b < v - cfg.purge
  BY <1>1 DEF InnerBars
<1> HIDE DEF R, v
<1>4. \A r \in R : r.stop <= v - cfg.purge /\ r.stop \in Nat
  BY <1>1, <1>2, <1>3, RangesEnd
<1>5. Val(f - 1, i - 1).stop + cfg.purge <= Test(f - 1).start
  BY <1>2
<1>6. Purged(R, Val(f - 1, i - 1).start) /\ Avoids(R, Val(f - 1, i - 1))
  BY <1>2, <1>4 DEF Purged, Avoids, Intersects
<1>7. Avoids(R, Test(f - 1))
  BY <1>2, <1>4 DEF Avoids, Intersects
<1>8. ASSUME NEW e \in 1 .. CutsOf(i - 1)
      PROVE  Avoids(R, Embargo(folds[f].inner[e].val))
  <2>1. /\ e \in DOMAIN folds[f].inner /\ e - 1 \in 0 .. (i - 1) - 1 /\ e - 1 \in Nat
    <3>1. CutsOf(i - 1) \in Nat /\ CutsOf(i - 1) <= i - 1
      BY <1>1, AllCut
    <3>2. /\ i \in 1 .. Len(folds[f].inner) /\ Len(folds[f].inner) = cfg.n_inner
          /\ cfg.n_inner \in Nat /\ DOMAIN folds[f].inner = 1 .. Len(folds[f].inner)
      BY InnerHere
    <3>3. QED
      BY <3>1, <3>2
  <2>2. folds[f].inner[e].val = Val(f - 1, e - 1)
    BY <2>1, InnerHere
  <2>3. Embargo(Val(f - 1, e - 1)) \in Spans
    BY <1>1, <2>1, FittingVal
  <2>4. \A b \in Bars(R) : b \notin Indices(Embargo(Val(f - 1, e - 1)))
    BY <1>1, <2>1 DEF InnerBars
  <2>5. QED
    BY <1>1, <2>2, <2>3, <2>4, AvoidsBars
<1>9. QED
  BY <1>2, <1>5, <1>6, <1>7, <1>8 DEF ValidInner, R

\* Whatever a search may see ends a purge before the lockbox.
LEMMA ResearchEnds ==
  ASSUME IInv, NEW r \in ResearchRanges
  PROVE  /\ r \in Spans /\ r.start \in Nat /\ r.stop \in Nat
         /\ r.stop <= LockboxStart - cfg.purge
<1>1. PICK f \in DOMAIN folds :
        r \in {folds[f].test} \cup folds[f].train
                \cup UNION { {folds[f].inner[i].val} \cup folds[f].inner[i].train :
                               i \in DOMAIN folds[f].inner }
  BY DEF ResearchRanges
<1>2. f \in 1 .. Len(folds)
  BY Here
<1>3. /\ TypeOK /\ LayoutFits /\ f - 1 \in Nat /\ GoodTrain(folds[f].train, f - 1)
      /\ folds[f].test = Test(f - 1) /\ FirstValStart(f - 1) >= cfg.purge + 1
      /\ Test(f - 1).stop = TestStart(f)
      /\ TestStart(f) <= LockboxStart - cfg.purge
      /\ TestStart(f) = TestStart(f - 1) + cfg.outer_test
      /\ TrainEnd(f - 1) = TestStart(f - 1) - cfg.purge /\ TestStart(f - 1) \in Int
  BY <1>2, FoldHere
<1>4. /\ cfg.purge \in Nat /\ cfg.outer_test \in Nat /\ LockboxStart \in Int
      /\ cfg.inner_val \in Nat
  BY <1>3, ConfigType DEF LockboxStart
<1>5. TrainEnd(f - 1) \in Int /\ TrainEnd(f - 1) <= LockboxStart - cfg.purge
  BY <1>3, <1>4
<1>6. CASE r = folds[f].test
  <2>1. r \in Spans
    BY <1>3, <1>6, FittingTest
  <2>2. QED
    BY <1>3, <1>6, <2>1, SpansType
<1>7. CASE r \in folds[f].train
  <2>1. Finished(folds[f].train) /\ \A b \in Bars(folds[f].train) : b < TrainEnd(f - 1)
    BY <1>3 DEF GoodTrain, OuterBars
  <2>2. r \in Spans /\ r.start \in Nat /\ r.stop \in Nat /\ r.stop <= TrainEnd(f - 1)
    BY <1>5, <1>7, <2>1, RangesEnd
  <2>3. QED
    BY <1>4, <1>5, <2>2
<1>8. ASSUME NEW i \in DOMAIN folds[f].inner,
             r \in {folds[f].inner[i].val} \cup folds[f].inner[i].train
      PROVE  r \in Spans /\ r.start \in Nat /\ r.stop \in Nat
             /\ r.stop <= LockboxStart - cfg.purge
  <2>1. /\ i - 1 \in Nat /\ GoodInner(folds[f].inner[i], f - 1, i - 1)
        /\ folds[f].inner[i].val = Val(f - 1, i - 1)
        /\ Val(f - 1, i - 1).stop = ValStart(f - 1, i)
        /\ ValStart(f - 1, i) = ValStart(f - 1, i - 1) + cfg.inner_val
        /\ ValStart(f - 1, i - 1) \in Int /\ ValStart(f - 1, i) <= TrainEnd(f - 1)
    BY <1>2, InnerHere
  <2>2. CASE r = folds[f].inner[i].val
    <3>1. r \in Spans
      BY <1>3, <2>1, <2>2, FittingVal
    <3>2. r.start \in Nat /\ r.stop \in Nat
      BY <3>1, SpansType
    <3>3. QED
      BY <1>4, <1>5, <2>1, <2>2, <3>1, <3>2
  <2>3. CASE r \in folds[f].inner[i].train
    <3>1. /\ Finished(folds[f].inner[i].train)
          /\ \A b \in Bars(folds[f].inner[i].train) : b < TrainEnd(f - 1)
      BY <2>1 DEF GoodInner, InnerBars, OuterBars
    <3>2. r \in Spans /\ r.start \in Nat /\ r.stop \in Nat /\ r.stop <= TrainEnd(f - 1)
      BY <1>5, <2>3, <3>1, RangesEnd
    <3>3. QED
      BY <1>4, <1>5, <3>2
  <2>4. QED
    BY <1>8, <2>2, <2>3
<1>9. QED
  BY <1>1, <1>6, <1>7, <1>8

LEMMA PlanValid ==
  ASSUME IInv, LayoutFits
  PROVE  ValidPlan
<1>1. \A f \in DOMAIN folds : ValidTraining(f)
  BY Here, TrainingValid
<1>2. \A f \in DOMAIN folds : \A i \in DOMAIN folds[f].inner : ValidInner(f, i)
  BY Here, InnerValid
<1>3. ASSUME NEW r \in ResearchRanges
      PROVE  /\ ~Intersects(r, Span(LockboxStart, n))
             /\ 0 <= r.start /\ r.stop <= n
             /\ r.stop <= LockboxStart - cfg.purge
  <2>1. /\ r.start \in Nat /\ r.stop \in Nat /\ r.stop <= LockboxStart - cfg.purge
    BY ResearchEnds
  <2>2. /\ n \in Nat /\ cfg.lockbox \in Nat /\ cfg.purge \in Nat
    BY ConfigType DEF IInv
  <2>3. Span(LockboxStart, n).start = LockboxStart
    BY DEF Span
  <2>4. LockboxStart = n - cfg.lockbox
    BY DEF LockboxStart
  <2>5. QED
    BY <2>1, <2>2, <2>3, <2>4 DEF Intersects
<1>4. QED
  BY <1>1, <1>2, <1>3, TestsValid DEF ValidPlan, ValidResearch

LEMMA ValidateStep ==
  ASSUME IInv, Validate
  PROVE  IInv'
<1>1. pc = "validate" /\ UNCHANGED << n, cfg, k, j, cuts, ranges, train, inner, folds >>
  BY DEF Validate
<1>2. pc' = "accepted"
  <2>1. ValidPlan
    BY <1>1, PlanValid DEF IInv
  <2>2. QED
    BY <2>1 DEF Validate
<1>3. TypeOK'
  BY <1>1, <1>2 DEF IInv, TypeOK, Ends
<1>4. QED
  BY <1>1, <1>2, <1>3, SamePlan DEF IInv

LEMMA NextIInv == IInv /\ [Next]_vars => IInv'
<1> SUFFICES ASSUME IInv, [Next]_vars PROVE IInv'
  OBVIOUS
<1>1. CASE Next
  BY <1>1, RejectStep, BeginStep, CutOuterStep, FinishOuterStep, CutInnerStep,
     NextInnerStep, NextOuterStep, FinishStep, ValidateStep DEF Next
<1>2. CASE UNCHANGED vars
  <2>1. UNCHANGED << n, cfg, pc, k, j, cuts, ranges, train, inner, folds >>
    BY <1>2 DEF vars
  <2>2. TypeOK'
    BY <2>1 DEF IInv, TypeOK
  <2>3. pc = "outer" => OuterInv'
    BY <2>1, SamePlan DEF IInv, OuterInv
  <2>4. pc = "inner" => InnerInv'
    BY <2>1, SamePlan DEF IInv, InnerInv
  <2>5. QED
    BY <2>1, <2>2, <2>3, <2>4, SamePlan DEF IInv
<1>3. QED
  BY <1>1, <1>2

LEMMA Invariance == Spec => []IInv
BY InitIInv, NextIInv, PTL DEF Spec

-----------------------------------------------------------------------------
\* The generator's variables have their types; in particular no IndexRange
\* with a negative start or length is ever built.
THEOREM TypeCorrect == Spec => []TypeOK
<1>1. IInv => TypeOK
  BY DEF IInv
<1>2. QED
  BY <1>1, Invariance, PTL

\* generate_nested_walk_forward never raises SplitInvariantError: for every
\* history and every legal configuration validate_plan accepts what it built.
THEOREM GeneratorAlwaysSound == Spec => []GeneratorIsSound
<1>1. IInv => GeneratorIsSound
  BY DEF IInv, GeneratorIsSound
<1>2. QED
  BY <1>1, Invariance, PTL

\* An outer fold trains on all bars the purge and the embargo leave, and on
\* no other (subtract_ranges).
THEOREM OuterTrainingAlwaysExact == Spec => []OuterTrainingIsExact
<1>1. IInv => OuterTrainingIsExact
  <2> SUFFICES ASSUME IInv, NEW f \in DOMAIN folds
               PROVE  Bars(folds[f].train) = TrainableBars(f)
    BY DEF OuterTrainingIsExact
  <2>1. f \in 1 .. Len(folds)
    BY Here
  <2>2. /\ TypeOK /\ LayoutFits /\ f - 1 \in Nat
        /\ Bars(folds[f].train) = OuterBars(f - 1, f - 1)
        /\ TrainEnd(f - 1) = TestStart(f - 1) - cfg.purge /\ TestStart(f - 1) \in Int
        /\ cfg.purge \in Nat /\ cfg.embargo \in Nat
    BY <2>1, FoldHere, ConfigType DEF GoodTrain
  <2>3. TrainEnd(f - 1) \in Int
    BY <2>2
  <2>4. \A e \in 0 .. f - 2 : \A b \in Nat :
          b \in Indices(Embargo(Test(e))) <=>
            TestStart(e + 1) <= b /\ b < TestStart(e + 1) + cfg.embargo
    <3> SUFFICES ASSUME NEW e \in Nat, NEW b \in Nat
                 PROVE  b \in Indices(Embargo(Test(e))) <=>
                          TestStart(e + 1) <= b /\ b < TestStart(e + 1) + cfg.embargo
      BY <2>1
    <3>1. TestStart(e + 1) \in Int
      BY <2>2, TestLayout
    <3>2. Indices(Embargo(Test(e))) = TestStart(e + 1) .. (TestStart(e + 1) + cfg.embargo - 1)
      BY <2>2, FittingTest
    <3>3. QED
      BY <2>2, <3>1, <3>2
  <2>5. OuterBars(f - 1, f - 1) =
          {b \in Nat : b < TrainEnd(f - 1) /\
             \A e \in 0 .. f - 2 : b \notin Indices(Embargo(Test(e)))}
    <3>1. 0 .. (f - 1) - 1 = 0 .. f - 2
      BY <2>1, Here
    <3>2. QED
      BY <3>1 DEF OuterBars
  <2>6. TrainableBars(f) =
          {b \in Nat : b < TrainEnd(f - 1) /\
             \A e \in 0 .. f - 2 :
               ~(TestStart(e + 1) <= b /\ b < TestStart(e + 1) + cfg.embargo)}
    BY <2>3 DEF TrainableBars
  <2>7. QED
    BY <2>2, <2>4, <2>5, <2>6
<1>2. QED
  BY <1>1, Invariance, PTL

\* Every training set of a fold is made of non-empty ranges that share no
\* bar, so that total_len counts bars.
THEOREM RangesAlwaysDisjoint == Spec => []RangesAreDisjoint
<1>1. IInv => RangesAreDisjoint
  <2> SUFFICES ASSUME IInv, NEW f \in DOMAIN folds
               PROVE  /\ DisjointSpans(folds[f].train)
                      /\ \A i \in DOMAIN folds[f].inner :
                           DisjointSpans(folds[f].inner[i].train)
    BY DEF RangesAreDisjoint
  <2>1. f \in 1 .. Len(folds)
    BY Here
  <2>2. Finished(folds[f].train)
    BY <2>1, FoldHere DEF GoodTrain
  <2>3. \A i \in DOMAIN folds[f].inner : Finished(folds[f].inner[i].train)
    BY <2>1, InnerHere DEF GoodInner
  <2>4. QED
    BY <2>2, <2>3 DEF Finished, Disjoint, DisjointSpans
<1>2. QED
  BY <1>1, Invariance, PTL

\* An inner fold has something to train on and nothing that its outer fold
\* may not train on, which validate_plan does not check.
THEOREM InnerTrainingAlwaysNests == Spec => []InnerTrainingNests
<1>1. IInv => InnerTrainingNests
  <2> SUFFICES ASSUME IInv, NEW f \in DOMAIN folds, NEW i \in DOMAIN folds[f].inner
               PROVE  /\ Bars(folds[f].inner[i].train) # {}
                      /\ Bars(folds[f].inner[i].train) \subseteq Bars(folds[f].train)
    BY DEF InnerTrainingNests
  <2>1. f \in 1 .. Len(folds)
    BY Here
  <2>2. /\ TypeOK /\ LayoutFits /\ f - 1 \in Nat /\ FirstValStart(f - 1) >= cfg.purge + 1
        /\ Bars(folds[f].train) = OuterBars(f - 1, f - 1)
    BY <2>1, FoldHere DEF GoodTrain
  <2>3. i - 1 \in Nat
        /\ Bars(folds[f].inner[i].train) = InnerBars(f - 1, i - 1, i - 1)
    BY <2>1, InnerHere DEF GoodInner
  <2>4. ASSUME NEW e \in Nat PROVE 0 \notin Indices(Embargo(Test(e)))
    <3>1. PICK g \in Nat : g = e + 1 /\ g <= g
      OBVIOUS
    <3>2. TestStart(g) \in Int /\ TestStart(g) > 0
      BY <2>2, <3>1, FittingTest, TestLayout
    <3>3. Indices(Embargo(Test(e))) = TestStart(g) .. (TestStart(g) + cfg.embargo - 1)
      BY <2>2, <3>1, FittingTest
    <3>4. cfg.embargo \in Nat
      BY <2>2, ConfigType
    <3>5. QED
      BY <3>2, <3>3, <3>4
  <2>5. ASSUME NEW e \in Nat PROVE 0 \notin Indices(Embargo(Val(f - 1, e)))
    <3>1. PICK g \in Nat, h \in Nat : g = f - 1 /\ h = e + 1 /\ h <= h
      BY <2>2
    <3>2. ValStart(g, h) \in Int /\ ValStart(g, h) - cfg.purge > 0
      BY <2>2, <3>1, ValLayout, FittingVal
    <3>3. Indices(Embargo(Val(g, e))) = ValStart(g, h) .. (ValStart(g, h) + cfg.embargo - 1)
      BY <2>2, <3>1, FittingVal
    <3>4. cfg.embargo \in Nat /\ cfg.purge \in Nat
      BY <2>2, ConfigType
    <3>5. QED
      BY <3>1, <3>2, <3>3, <3>4
  <2>6. 0 < TrainEnd(f - 1) /\ 0 < ValStart(f - 1, i - 1) - cfg.purge
    BY <2>2, <2>3, FittingTest, FittingVal
  <2>7. 0 \in OuterBars(f - 1, f - 1)
    BY <2>4, <2>6 DEF OuterBars
  <2>8. 0 \in InnerBars(f - 1, i - 1, i - 1)
    BY <2>5, <2>6, <2>7 DEF InnerBars
  <2>9. QED
    BY <2>2, <2>3, <2>8 DEF InnerBars
<1>2. QED
  BY <1>1, Invariance, PTL
=============================================================================
