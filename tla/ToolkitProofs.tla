---------------------------- MODULE ToolkitProofs ----------------------------
(***************************************************************************)
(* Theorems about components that the search calls as libraries.           *)
(*                                                                         *)
(* RegimeRouter, for every minimum dwell and every sequence of bars: two   *)
(* locals stand for the whole past, and the invariant says that challenger *)
(* and streak are the regime and the length of the longest run of raw      *)
(* labels that ends now and is not the committed regime.                   *)
(*                                                                         *)
(* CostModel, for every instrument, statement and order: a size on the lot *)
(* grid is affordable exactly when it is below the raw quantity, whichever *)
(* of the risk and the leverage cap has set that quantity.                 *)
(*                                                                         *)
(* EventMemory, for every set of names and every log: the index is a fold  *)
(* of the log, and the invariant says that at every step it describes the  *)
(* rows it has been given, all of them or, between the append and the      *)
(* index, all but the last; and that the selector is ahead of the log by   *)
(* the reward of the row that is on its way.                               *)
(*                                                                         *)
(* FeatureStreams, for every set of expressions and candles and every      *)
(* history: the stream of a node, fed with the arrays of its children,     *)
(* reproduces its own array, because a deque holds the window that the     *)
(* batch formula cuts out, a previous value is the one before in the       *)
(* array, and the arrays of a longer history continue those of the shorter *)
(* one.  That dimensions hold is an induction over the nodes.              *)
(***************************************************************************)
EXTENDS RegimeRouter, CostModel, EventMemory, FeatureStreams, SequenceTheorems, FoldLemmas,
        TLAPS

\* The streak is a run of the challenger ...
StreakIsRun ==
  /\ streak = 0 <=> challenger = UNKNOWN
  /\ challenger # UNKNOWN =>
       challenger # committed /\ Dwells(raw, challenger, streak, Len(raw))

\* ... and no run of another regime than the committed one is longer.
StreakIsLongest ==
  \A r \in Regimes \ {committed} : \A k \in Nat \ {0} :
    Dwells(raw, r, k, Len(raw)) => challenger = r /\ k <= streak

\* What is committed is what was said last.
CommittedIsSaid == committed = Before(out, Len(out) + 1)

IInv ==
  /\ RouterTypeOK
  /\ StreakIsRun
  /\ StreakIsLongest
  /\ CommittedIsSaid
  /\ SwitchesAreEarned

-----------------------------------------------------------------------------
LEMMA Dwell == MinDwell \in Int /\ MinDwell >= 1
BY DwellAssumption

LEMMA UnknownIsNoRegime == UNKNOWN \notin Regimes /\ UNKNOWN \in Labels
BY DEF UNKNOWN, Regimes, Labels

LEMMA RawLabelType ==
  ASSUME NEW valid \in BOOLEAN, NEW trend \in BOOLEAN, NEW high_vol \in BOOLEAN
  PROVE  RawLabel(valid, trend, high_vol) \in Labels
BY DEF RawLabel, Labels, Regimes, UNKNOWN

LEMMA InitIInv == RouterInit => IInv
<1> SUFFICES ASSUME RouterInit PROVE IInv
  OBVIOUS
<1> USE DEF RouterInit
<1>1. RouterTypeOK
  BY Dwell, UnknownIsNoRegime DEF RouterTypeOK
<1>2. StreakIsRun /\ CommittedIsSaid /\ SwitchesAreEarned
  BY DEF StreakIsRun, CommittedIsSaid, Before, SwitchesAreEarned
<1>3. StreakIsLongest
  BY DEF StreakIsLongest, Dwells
<1> QED BY <1>1, <1>2, <1>3 DEF IInv

-----------------------------------------------------------------------------
\* The runs that end with a new raw label extend those that ended before it.
LEMMA RunsExtend ==
  ASSUME RouterTypeOK, NEW r \in Labels, raw' = Append(raw, r)
  PROVE  /\ Len(raw) \in Nat /\ Len(raw') = Len(raw) + 1
         /\ \A q \in Labels : \A k \in Nat \ {0} :
              Dwells(raw', q, k, Len(raw) + 1) <=> q = r /\ Dwells(raw, q, k - 1, Len(raw))
         /\ \A q \in Labels : \A i \in 1 .. Len(raw) : \A k \in Nat :
              Dwells(raw', q, k, i) <=> Dwells(raw, q, k, i)
<1> DEFINE n == Len(raw)
<1>1. /\ raw \in Seq(Labels) /\ n \in Nat /\ Len(raw') = n + 1
      /\ raw'[n + 1] = r /\ \A j \in 1 .. n : raw'[j] = raw[j]
  BY DEF RouterTypeOK
<1>2. ASSUME NEW q \in Labels, NEW k \in Nat \ {0}
      PROVE  Dwells(raw', q, k, n + 1) <=> q = r /\ Dwells(raw, q, k - 1, n)
  <2>1. Dwells(raw', q, k, n + 1) <=> k <= n + 1 /\ \A j \in n + 1 - k + 1 .. n + 1 : raw'[j] = q
    BY <1>1 DEF Dwells
  <2>2. Dwells(raw, q, k - 1, n) <=> k - 1 <= n /\ \A j \in n - (k - 1) + 1 .. n : raw[j] = q
    BY DEF Dwells
  <2>3. ASSUME k <= n + 1
        PROVE  (\A j \in n + 1 - k + 1 .. n + 1 : raw'[j] = q)
                 <=> q = r /\ \A j \in n - (k - 1) + 1 .. n : raw[j] = q
    <3> HIDE DEF n
    <3> DEFINE first == n + 1 - k + 1
    <3>1. first \in 1 .. n + 1 /\ first = n - (k - 1) + 1
      BY <1>1, <2>3
    <3> HIDE DEF first
    <3>2. (\A j \in first .. n + 1 : raw'[j] = q) <=> q = r /\ \A j \in first .. n : raw[j] = q
      <4>1. n + 1 \in first .. n + 1 /\ first .. n + 1 = (first .. n) \cup {n + 1}
        BY <1>1, <3>1
      <4>2. \A j \in first .. n : j \in 1 .. n
        BY <1>1, <3>1
      <4>3. \A j \in first .. n : raw'[j] = raw[j]
        BY <1>1, <4>2, Zenon
      <4> QED BY <1>1, <4>1, <4>3, Zenon
    <3> QED BY <3>1, <3>2 DEF first
  <2> QED BY <1>1, <2>1, <2>2, <2>3
<1>3. ASSUME NEW q \in Labels, NEW i \in 1 .. n, NEW k \in Nat
      PROVE  Dwells(raw', q, k, i) <=> Dwells(raw, q, k, i)
  <2>1. Dwells(raw', q, k, i) <=> k <= i /\ \A j \in i - k + 1 .. i : raw'[j] = q
    BY DEF Dwells
  <2>2. k <= i => \A j \in i - k + 1 .. i : raw'[j] = raw[j]
    BY <1>1
  <2> QED BY <2>1, <2>2 DEF Dwells
<1> QED BY <1>1, <1>2, <1>3

\* The run the loop counts, with the new label.
LEMMA StreakMeasures ==
  ASSUME IInv, NEW r \in Labels, raw' = Append(raw, r), Challenges(r)
  PROVE  /\ r \in Regimes
         /\ Streak(r) \in Nat \ {0}
         /\ Dwells(raw', r, Streak(r), Len(raw) + 1)
         /\ \A k \in Nat \ {0} : Dwells(raw', r, k, Len(raw) + 1) => k <= Streak(r)
<1>1. /\ r \in Regimes /\ r # committed /\ r # UNKNOWN
      /\ streak \in Nat /\ Len(raw) \in Nat
  BY Dwell DEF IInv, Challenges, Labels, RouterTypeOK
<1>2. Streak(r) \in Nat \ {0}
  BY <1>1 DEF Streak
<1>3. \A k \in Nat \ {0} : Dwells(raw', r, k, Len(raw) + 1) <=> Dwells(raw, r, k - 1, Len(raw))
  BY RunsExtend DEF IInv
<1>4. Dwells(raw, r, 0, Len(raw))
  BY <1>1 DEF Dwells
<1>5. Dwells(raw, r, Streak(r) - 1, Len(raw))
  <2>1. CASE r = challenger
    BY <1>1, <2>1 DEF Streak, IInv, StreakIsRun
  <2>2. CASE r # challenger
    BY <1>4, <2>2 DEF Streak
  <2> QED BY <2>1, <2>2
<1>6. ASSUME NEW k \in Nat \ {0}, Dwells(raw, r, k - 1, Len(raw)) PROVE k <= Streak(r)
  <2>1. CASE k = 1
    BY <1>2, <2>1
  <2>2. CASE k # 1
    <3>1. k - 1 \in Nat \ {0}
      BY <2>2
    <3>2. challenger = r /\ k - 1 <= streak
      BY <1>1, <1>6, <3>1 DEF IInv, StreakIsLongest
    <3> QED BY <1>1, <3>2 DEF Streak
  <2> QED BY <2>1, <2>2
<1> QED BY <1>1, <1>2, <1>3, <1>5, <1>6

\* What every labelling keeps: types, and the labels that were given before.
LEMMA LabelledKeeps ==
  ASSUME IInv, NEW r \in Labels, Labelled(r), committed' \in Labels,
         challenger' \in Labels, streak' \in 0 .. MinDwell - 1
  PROVE  /\ RouterTypeOK'
         /\ CommittedIsSaid'
         /\ out'[Len(raw) + 1] = committed' /\ Before(out', Len(raw) + 1) = committed
         /\ (\/ committed' \in Regimes /\ Dwells(raw', committed', MinDwell, Len(raw) + 1)
             \/ /\ committed' = committed
                /\ \A q \in Regimes : ~Dwells(raw', q, MinDwell, Len(raw) + 1))
              => SwitchesAreEarned'
<1> DEFINE n == Len(raw)
<1>1. /\ raw' = Append(raw, r) /\ out' = Append(out, committed')
      /\ raw \in Seq(Labels) /\ out \in Seq(Labels) /\ Len(out) = n /\ n \in Nat
  BY DEF IInv, Labelled, RouterTypeOK, SwitchesAreEarned
<1>2. RouterTypeOK'
  BY <1>1 DEF RouterTypeOK
<1>3. /\ Len(out') = n + 1 /\ DOMAIN out' = 1 .. n + 1 /\ out'[n + 1] = committed'
      /\ \A i \in 1 .. n : out'[i] = out[i]
  BY <1>1
<1>4. \A i \in 1 .. n + 1 : Before(out', i) = Before(out, i)
  BY <1>1, <1>3 DEF Before
<1>5. Before(out', n + 1) = committed
  BY <1>1, <1>4 DEF IInv, CommittedIsSaid
<1>6. CommittedIsSaid'
  BY <1>1, <1>3 DEF CommittedIsSaid, Before
<1>7. ASSUME \/ committed' \in Regimes /\ Dwells(raw', committed', MinDwell, n + 1)
             \/ /\ committed' = committed
                /\ \A q \in Regimes : ~Dwells(raw', q, MinDwell, n + 1)
      PROVE  SwitchesAreEarned'
  <2>1. Len(out)' = Len(raw)'
    BY <1>1
  <2>2. ASSUME NEW i \in 1 .. n
        PROVE  \/ out'[i] \in Regimes /\ Dwells(raw', out'[i], MinDwell, i)
               \/ out'[i] = Before(out', i) /\ \A q \in Regimes : ~Dwells(raw', q, MinDwell, i)
    <3>1. \/ out[i] \in Regimes /\ Dwells(raw, out[i], MinDwell, i)
          \/ out[i] = Before(out, i) /\ \A q \in Regimes : ~Dwells(raw, q, MinDwell, i)
      BY <1>1 DEF IInv, SwitchesAreEarned
    <3>2. \A q \in Regimes : Dwells(raw', q, MinDwell, i) <=> Dwells(raw, q, MinDwell, i)
      BY <1>1, RunsExtend, Dwell DEF IInv, Labels
    <3>3. out'[i] = out[i] /\ Before(out', i) = Before(out, i)
      BY <1>3, <1>4
    <3>4. CASE out[i] \in Regimes /\ Dwells(raw, out[i], MinDwell, i)
      <4> DEFINE q == out[i]
      <4>1. Dwells(raw', q, MinDwell, i) <=> (MinDwell <= i /\ \A j \in i - MinDwell + 1 .. i : raw'[j] = out'[i])
        BY <3>3 DEF Dwells
      <4> QED BY <1>1, <3>3, <3>4, Dwell, <4>1 DEF Dwells
    <3>5. CASE out[i] = Before(out, i) /\ \A q \in Regimes : ~Dwells(raw, q, MinDwell, i)
      BY <3>2, <3>3, <3>5
    <3> QED BY <3>1, <3>4, <3>5
  <2>3. \/ out'[n + 1] \in Regimes /\ Dwells(raw', out'[n + 1], MinDwell, n + 1)
        \/ out'[n + 1] = Before(out', n + 1) /\ \A q \in Regimes : ~Dwells(raw', q, MinDwell, n + 1)
    BY <1>3, <1>5, <1>7 DEF Dwells
  <2> QED BY <1>3, <2>1, <2>2, <2>3 DEF SwitchesAreEarned
<1> QED BY <1>2, <1>3, <1>5, <1>6, <1>7

-----------------------------------------------------------------------------
LEMMA KeepIInv == ASSUME IInv, NEW r \in Labels, Keep(r) PROVE IInv'
<1> DEFINE n == Len(raw)
<1>1. /\ committed' = committed /\ challenger' = UNKNOWN /\ streak' = 0
      /\ Labelled(r) /\ raw' = Append(raw, r) /\ (r = UNKNOWN \/ r = committed)
  BY DEF Keep, Challenges, Labelled
<1>2. committed' \in Labels /\ challenger' \in Labels /\ streak' \in 0 .. MinDwell - 1
  BY <1>1, Dwell, UnknownIsNoRegime DEF IInv, RouterTypeOK
<1>3. /\ n \in Nat /\ Len(raw') = n + 1
      /\ \A q \in Labels : \A k \in Nat \ {0} :
           Dwells(raw', q, k, n + 1) <=> q = r /\ Dwells(raw, q, k - 1, n)
  BY <1>1, RunsExtend DEF IInv
<1>4. StreakIsRun'
  BY <1>1 DEF StreakIsRun
<1>5. StreakIsLongest'
  <2> SUFFICES ASSUME NEW q \in Regimes \ {committed'}, NEW k \in Nat \ {0}, Dwells(raw', q, k, n + 1)
               PROVE  FALSE
    BY <1>3 DEF StreakIsLongest, Dwells
  <2> QED BY <1>1, <1>3, UnknownIsNoRegime DEF Labels
<1>6. \/ committed' \in Regimes /\ Dwells(raw', committed', MinDwell, n + 1)
      \/ committed' = committed /\ \A q \in Regimes : ~Dwells(raw', q, MinDwell, n + 1)
  <2> SUFFICES ASSUME NEW q \in Regimes, Dwells(raw', q, MinDwell, n + 1)
               PROVE  committed' \in Regimes /\ Dwells(raw', committed', MinDwell, n + 1)
    BY <1>1
  <2>1. q = r
    BY <1>3, Dwell DEF Labels
  <2>2. q = committed'
    BY <1>1, <2>1, UnknownIsNoRegime
  <2> QED BY <2>2 DEF Dwells
<1> QED BY <1>1, <1>2, <1>4, <1>5, <1>6, LabelledKeeps DEF IInv

LEMMA ChallengeIInv == ASSUME IInv, NEW r \in Labels, Challenge(r) PROVE IInv'
<1> DEFINE n == Len(raw)
<1>1. /\ committed' = committed /\ challenger' = r /\ streak' = Streak(r)
      /\ Labelled(r) /\ raw' = Append(raw, r) /\ Challenges(r) /\ Streak(r) < MinDwell
  BY DEF Challenge, Labelled
<1>2. /\ r \in Regimes /\ r # committed /\ r # UNKNOWN
      /\ Streak(r) \in Nat \ {0}
      /\ Dwells(raw', r, Streak(r), n + 1)
      /\ \A k \in Nat \ {0} : Dwells(raw', r, k, n + 1) => k <= Streak(r)
  BY <1>1, StreakMeasures DEF Challenges
<1>3. committed' \in Labels /\ challenger' \in Labels /\ streak' \in 0 .. MinDwell - 1
  BY <1>1, <1>2, Dwell DEF IInv, RouterTypeOK
<1>4. /\ n \in Nat /\ Len(raw') = n + 1
      /\ \A q \in Labels : \A k \in Nat \ {0} : Dwells(raw', q, k, n + 1) => q = r
  BY <1>1, RunsExtend DEF IInv
<1>5. StreakIsRun'
  BY <1>1, <1>2, <1>4 DEF StreakIsRun, Dwells
<1>6. StreakIsLongest'
  <2> SUFFICES ASSUME NEW q \in Regimes \ {committed'}, NEW k \in Nat \ {0}, Dwells(raw', q, k, n + 1)
               PROVE  challenger' = q /\ k <= streak'
    BY <1>4 DEF StreakIsLongest, Dwells
  <2>1. q = r
    BY <1>4 DEF Labels
  <2> QED BY <1>1, <1>2, <2>1
<1>7. \A q \in Regimes : ~Dwells(raw', q, MinDwell, n + 1)
  <2> SUFFICES ASSUME NEW q \in Regimes, Dwells(raw', q, MinDwell, n + 1) PROVE FALSE
    OBVIOUS
  <2>1. q = r
    BY <1>4, Dwell DEF Labels
  <2> QED BY <1>1, <1>2, <2>1, Dwell
<1> QED BY <1>1, <1>3, <1>5, <1>6, <1>7, LabelledKeeps DEF IInv

LEMMA CommitIInv == ASSUME IInv, NEW r \in Labels, Commit(r) PROVE IInv'
<1> DEFINE n == Len(raw)
<1>1. /\ committed' = r /\ challenger' = UNKNOWN /\ streak' = 0
      /\ Labelled(r) /\ raw' = Append(raw, r) /\ Challenges(r) /\ Streak(r) >= MinDwell
  BY DEF Commit, Labelled
<1>2. r \in Regimes /\ Streak(r) \in Nat \ {0} /\ Dwells(raw', r, Streak(r), n + 1)
  BY <1>1, StreakMeasures
<1>3. committed' \in Labels /\ challenger' \in Labels /\ streak' \in 0 .. MinDwell - 1
  BY <1>1, Dwell, UnknownIsNoRegime
<1>4. /\ n \in Nat /\ Len(raw') = n + 1
      /\ \A q \in Labels : \A k \in Nat \ {0} : Dwells(raw', q, k, n + 1) => q = r
  BY <1>1, RunsExtend DEF IInv
<1>5. StreakIsRun'
  BY <1>1 DEF StreakIsRun
<1>6. StreakIsLongest'
  <2> SUFFICES ASSUME NEW q \in Regimes \ {committed'}, NEW k \in Nat \ {0}, Dwells(raw', q, k, n + 1)
               PROVE  FALSE
    BY <1>4 DEF StreakIsLongest, Dwells
  <2> QED BY <1>1, <1>4 DEF Labels
<1>7. Dwells(raw', r, MinDwell, n + 1)
  BY <1>1, <1>2, <1>4, Dwell DEF Dwells
<1>8. committed' \in Regimes /\ Dwells(raw', committed', MinDwell, n + 1)
  BY <1>1, <1>2, <1>7 DEF Dwells
<1> QED BY <1>1, <1>3, <1>5, <1>6, <1>8, LabelledKeeps DEF IInv

LEMMA NextIInv == IInv /\ [RouterNext]_routerVars => IInv'
<1> SUFFICES ASSUME IInv, [RouterNext]_routerVars PROVE IInv'
  OBVIOUS
<1>1. ASSUME RouterNext PROVE IInv'
  <2>1. PICK valid \in BOOLEAN, trend \in BOOLEAN, high_vol \in BOOLEAN :
          \/ Keep(RawLabel(valid, trend, high_vol))
          \/ Challenge(RawLabel(valid, trend, high_vol))
          \/ Commit(RawLabel(valid, trend, high_vol))
    BY <1>1 DEF RouterNext
  <2>2. RawLabel(valid, trend, high_vol) \in Labels
    BY RawLabelType
  <2> QED BY <2>1, <2>2, KeepIInv, ChallengeIInv, CommitIInv
<1>2. CASE UNCHANGED routerVars
  <2>1. RouterTypeOK' /\ CommittedIsSaid'
    BY <1>2 DEF routerVars, IInv, RouterTypeOK, CommittedIsSaid, Before
  <2>2. StreakIsRun' /\ StreakIsLongest'
    BY <1>2 DEF routerVars, IInv, StreakIsRun, StreakIsLongest, Dwells
  <2>3. SwitchesAreEarned'
    BY <1>2 DEF routerVars, IInv, SwitchesAreEarned, Dwells, Before
  <2> QED BY <2>1, <2>2, <2>3 DEF IInv
<1> QED BY <1>1, <1>2

LEMMA Invariance == RouterSpec => []IInv
BY InitIInv, NextIInv, PTL DEF RouterSpec

\* The locals of the smoothing loop keep their types, for every min_dwell: the
\* streak never reaches it.
THEOREM RouterTypeCorrect == RouterSpec => []RouterTypeOK
<1>1. IInv => RouterTypeOK
  BY DEF IInv
<1> QED BY <1>1, Invariance, PTL

\* For every min_dwell and every sequence of bars the loop's two locals decide
\* as the whole past would: a regime is committed at the bar that makes its
\* run min_dwell long and at no other.
THEOREM SwitchesAlwaysEarned == RouterSpec => []SwitchesAreEarned
<1>1. IInv => SwitchesAreEarned
  BY DEF IInv
<1> QED BY <1>1, Invariance, PTL

-----------------------------------------------------------------------------
(* Arithmetic of lots and money.                                           *)

LEMMA Cancel ==
  ASSUME NEW a \in Int, NEW b \in Int, NEW c \in Int, c >= 1, a * c <= b * c
  PROVE  a <= b
OBVIOUS

LEMMA Scale ==
  ASSUME NEW a \in Int, NEW b \in Int, NEW c \in Int, c >= 0, a <= b
  PROVE  a * c <= b * c
OBVIOUS

LEMMA DivBounds ==
  ASSUME NEW a \in Nat, NEW b \in Int, b >= 1
  PROVE  a \div b \in Nat /\ b * (a \div b) <= a /\ a < b * (a \div b) + b
OBVIOUS

LEMMA ModZero ==
  ASSUME NEW a \in Nat, NEW b \in Int, b >= 1, a % b = 0
  PROVE  a \div b \in Nat /\ a = b * (a \div b)
OBVIOUS

LEMMA ModMultiple ==
  ASSUME NEW a \in Nat, NEW b \in Int, b >= 1
  PROVE  (a * b) % b = 0
<1>1. a * b \in Int
  OBVIOUS
<1> DEFINE c == a * b
           r == c % b
           d == c \div b
<1>2. d \in Int /\ r \in 0 .. b - 1 /\ c = b * d + r
  BY <1>1
<1>3. r = b * (a - d)
  BY <1>2
<1> HIDE DEF c, r, d
<1>4. ~(a - d >= 1)
  <2> SUFFICES ASSUME a - d >= 1 PROVE FALSE
    OBVIOUS
  <2>1. b * (a - d) >= b
    BY <1>2
  <2> QED BY <1>2, <1>3, <2>1
<1>5. ~(a - d <= -1)
  <2> SUFFICES ASSUME a - d <= -1 PROVE FALSE
    OBVIOUS
  <2>1. b * (a - d) <= -b
    BY <1>2
  <2> QED BY <1>2, <1>3, <2>1
<1>6. a - d = 0
  BY <1>2, <1>4, <1>5
<1> QED BY <1>3, <1>6 DEF r, c

LEMMA ProductType == ASSUME NEW a \in Int, NEW b \in Int PROVE a * b \in Int
OBVIOUS

\* Of two bounds, A * t <= X and A * p <= Y, the one that is tighter for some
\* A is tighter for every A.
LEMMA TighterBound ==
  ASSUME NEW A \in Int, NEW X \in Int, NEW Y \in Int, NEW p \in Int, NEW t \in Int,
         p >= 1, t >= 1, A * p <= Y, X * p >= Y * t
  PROVE  A * t <= X
<1>1. A * p \in Int /\ A * t \in Int /\ X * p \in Int /\ Y * t \in Int
  BY ProductType
<1>2. (A * p) * t <= Y * t
  BY <1>1, Scale
<1>3. (A * p) * t = (A * t) * p
  OBVIOUS
<1>4. (A * t) * p <= X * p
  <2>1. (A * t) * p \in Int
    BY <1>1, ProductType
  <2> QED BY <1>1, <1>2, <1>3, <2>1
<1> QED BY <1>1, <1>4, Cancel

-----------------------------------------------------------------------------
(* round_lot returns the largest size of the lot grid.                     *)

LEMMA RoundLotFits ==
  ASSUME NEW s \in Specs, NEW num \in Int, NEW den \in Int, den >= 1
  PROVE  LET q == RoundLot(s, num, den) IN
         /\ num < s.min_lot * den => q = 0
         /\ num >= s.min_lot * den =>
              /\ q \in s.min_lot .. s.max_lot /\ q * den <= num
              /\ q # s.max_lot => (q - s.min_lot) % s.lot_step = 0
              /\ q + s.lot_step <= s.max_lot => (q + s.lot_step) * den > num
              /\ \A n \in s.min_lot .. s.max_lot :
                   (n - s.min_lot) % s.lot_step = 0 /\ n * den <= num => n <= q
<1> DEFINE m == s.min_lot
           st == s.lot_step
           M == s.max_lot
           a == num - m * den
           b == st * den
           k == a \div b
           q == RoundLot(s, num, den)
<1>1. m \in Int /\ m >= 1 /\ st \in Int /\ st >= 1 /\ M \in Int /\ m <= M
  BY InstrumentAssumption
<1>2. num < m * den => q = 0
  BY DEF RoundLot
<1> SUFFICES ASSUME num >= m * den
             PROVE  /\ q \in m .. M /\ q * den <= num
                    /\ q # M => (q - m) % st = 0
                    /\ q + st <= M => (q + st) * den > num
                    /\ \A n \in m .. M : (n - m) % st = 0 /\ n * den <= num => n <= q
  BY <1>2
<1>3. m * den \in Int /\ b \in Int /\ b >= 1
  <2>1. 1 * den <= st * den
    BY <1>1, Scale
  <2> QED BY <1>1, <2>1, ProductType
<1>4. a \in Nat
  BY <1>3
<1>5. q = Least(m + k * st, M)
  BY <1>3 DEF RoundLot
<1> HIDE DEF m, st, M, a, b, q
<1>6. k \in Nat /\ b * k <= a /\ a < b * k + b
  BY <1>3, <1>4, DivBounds
<1> HIDE DEF k
<1>7. k * st \in Int /\ k * st >= 0
  <2>1. 0 * st <= k * st
    BY <1>1, <1>6, Scale
  <2> QED BY <1>1, <1>6, <2>1, ProductType
<1> DEFINE g == m + k * st
<1>8. g \in Int /\ g >= m /\ g * den = m * den + b * k
  BY <1>1, <1>6, <1>7 DEF b
<1>9. g * den <= num /\ num < (g + st) * den
  <2>1. (g + st) * den = g * den + b
    BY <1>1, <1>8 DEF b
  <2>2. b * k \in Int
    BY <1>3, <1>6, ProductType
  <2> HIDE DEF g
  <2> QED BY <1>3, <1>6, <1>8, <2>1, <2>2 DEF a
<1>10. CASE g <= M
  <2>1. q = g
    BY <1>1, <1>5, <1>8, <1>10 DEF Least
  <2>2. ASSUME NEW n \in m .. M, (n - m) % st = 0, n * den <= num
        PROVE  n <= g
    <3> DEFINE j == (n - m) \div st
    <3>1. n - m \in Nat /\ n \in Int
      BY <1>1
    <3>2. j \in Nat /\ n - m = st * j
      BY <1>1, <2>2, <3>1, ModZero
    <3> HIDE DEF j
    <3>3. SUFFICES ASSUME j >= k + 1 PROVE FALSE
      <4>1. j <= k => j * st <= k * st
        BY <1>1, <1>6, <3>2, Scale
      <4>2. st * j = j * st /\ j * st \in Int
        BY <1>1, <3>2
      <4> QED BY <1>1, <1>6, <1>7, <3>1, <3>2, <4>1, <4>2
    <3>4. (k + 1) * st <= j * st
      BY <1>1, <1>6, <3>2, <3>3, Scale
    <3>5. g + st <= n
      <4>1. (k + 1) * st = k * st + st /\ st * j = j * st /\ j * st \in Int
        BY <1>1, <1>6, <3>2
      <4> QED BY <1>1, <1>7, <3>1, <3>2, <3>4, <4>1
    <3>6. (g + st) * den <= n * den
      <4>1. g + st \in Int
        BY <1>1, <1>8
      <4> HIDE DEF g
      <4> QED BY <3>1, <3>5, <4>1, Scale
    <3>7. (g + st) * den \in Int /\ n * den \in Int
      BY <1>1, <1>8, <3>1, ProductType
    <3> HIDE DEF g
    <3> QED BY <1>9, <2>2, <3>6, <3>7
  <2>3. (g - m) % st = 0
    <3>1. g - m = k * st
      BY <1>1, <1>7
    <3> QED BY <1>1, <1>6, <3>1, ModMultiple
  <2> HIDE DEF g
  <2> QED BY <1>1, <1>8, <1>9, <1>10, <2>1, <2>2, <2>3
<1>11. CASE ~(g <= M)
  <2>1. q = M
    BY <1>1, <1>5, <1>8, <1>11 DEF Least
  <2>2. M * den <= g * den
    <3> HIDE DEF g
    <3> QED BY <1>1, <1>8, <1>11, Scale
  <2>3. M * den <= num
    <3>1. M * den \in Int /\ g * den \in Int
      BY <1>1, <1>8, ProductType
    <3> HIDE DEF g
    <3> QED BY <1>9, <2>2, <3>1
  <2> QED BY <1>1, <2>1, <2>3
<1> QED BY <1>10, <1>11

-----------------------------------------------------------------------------
(* Sizes.                                                                  *)

Instrument == spec \in Specs /\ stated \in Statements

\* A size is affordable exactly when it is no more than the raw lots: the
\* tighter of the two limits is the one RawLots takes.
LEMMA RawLotsAfford ==
  ASSUME Instrument, NEW o \in Orders, o.stop > 0
  PROVE  LET raw_lots == RawLots(o) IN
         /\ raw_lots.num \in Int /\ raw_lots.den \in Int /\ raw_lots.den >= 1
         /\ \A n \in Int : Affordable(o, n) <=> n * raw_lots.den <= raw_lots.num
<1> DEFINE L == LotSize
           X == o.equity * o.risk
           Y == o.equity * stated.max_leverage
           p == o.price
           t == 100 * o.stop
<1>1. /\ L \in Int /\ L >= 1 /\ p \in Int /\ p >= 1 /\ t \in Int /\ t >= 1
      /\ o.equity \in Int /\ o.risk \in Int /\ stated.max_leverage \in Int /\ o.stop \in Int
  BY InstrumentAssumption, StatementAssumption, OrderAssumption DEF Instrument
<1>2. X \in Int /\ Y \in Int
  BY <1>1, ProductType
<1>3. Capped(o) <=> X * p > Y * t
  <2>1. o.equity * stated.max_leverage * 100 * o.stop = Y * t
    BY <1>1
  <2> QED BY <2>1 DEF Capped
<1>4. ASSUME NEW n \in Int
      PROVE  /\ n * L \in Int
             /\ Affordable(o, n) <=> (n * L) * t <= X /\ (n * L) * p <= Y
  <2>1. n * L \in Int
    BY <1>1, ProductType
  <2>2. 100 * n * L * o.stop = (n * L) * t
    BY <1>1
  <2> QED BY <2>1, <2>2 DEF Affordable
<1>5. CASE Capped(o)
  <2>1. RawLots(o) = [num |-> Y, den |-> p * L]
    BY <1>5 DEF RawLots
  <2>2. p * L \in Int /\ p * L >= 1
    <3>1. 1 * L <= p * L
      BY <1>1, Scale
    <3> QED BY <1>1, <3>1, ProductType
  <2>3. ASSUME NEW n \in Int
        PROVE  Affordable(o, n) <=> n * (p * L) <= Y
    <3>1. n * (p * L) = (n * L) * p
      BY <1>1
    <3>2. X * p \in Int /\ Y * t \in Int
      BY <1>1, <1>2, ProductType
    <3>3. (n * L) * p <= Y => (n * L) * t <= X
      <4> HIDE DEF L, X, Y, p, t
      <4>1. X * p >= Y * t
        BY <1>3, <1>5, <3>2
      <4> QED BY <1>1, <1>2, <1>4, <4>1, TighterBound
    <3> HIDE DEF L, X, Y, p, t
    <3> QED BY <1>4, <3>1, <3>3
  <2> HIDE DEF L, X, Y, p, t
  <2> QED BY <1>2, <2>1, <2>2, <2>3
<1>6. CASE ~Capped(o)
  <2>1. RawLots(o) = [num |-> X, den |-> t * L]
    BY <1>6 DEF RawLots
  <2>2. t * L \in Int /\ t * L >= 1
    <3>1. 1 * L <= t * L
      BY <1>1, Scale
    <3> HIDE DEF t
    <3> QED BY <1>1, <3>1, ProductType
  <2>3. ASSUME NEW n \in Int
        PROVE  Affordable(o, n) <=> n * (t * L) <= X
    <3>1. n * (t * L) = (n * L) * t
      <4> HIDE DEF t
      <4> QED BY <1>1
    <3>2. X * p \in Int /\ Y * t \in Int
      BY <1>1, <1>2, ProductType
    <3>3. (n * L) * t <= X => (n * L) * p <= Y
      <4> HIDE DEF L, X, Y, p, t
      <4>1. Y * t >= X * p
        BY <1>3, <1>6, <3>2
      <4> QED BY <1>1, <1>2, <1>4, <4>1, TighterBound
    <3> HIDE DEF L, X, Y, p, t
    <3> QED BY <1>4, <3>1, <3>3
  <2> HIDE DEF L, X, Y, p, t
  <2> QED BY <1>2, <2>1, <2>2, <2>3
<1> QED BY <1>5, <1>6

Floor == MinNotional(spec, stated)

CostsAgree ==
  /\ Instrument
  /\ costs \in {Absent, Unresolved} \/ (costs.min_notional = Floor /\ Floor \in Int)

LEMMA FloorType == ASSUME Instrument PROVE Floor \in Int \cup {Absent}
BY InstrumentAssumption, StatementAssumption DEF Instrument, Floor, MinNotional

LEMMA CostsInit == CostInit => CostsAgree /\ SizingIsSafe
BY DEF CostInit, CostsAgree, Instrument, SizingIsSafe

\* One order.
LEMMA SizeIsSafe ==
  ASSUME CostsAgree, NEW o \in Orders, Size(o)
  PROVE  SizingIsSafe'
<1> DEFINE raw_lots == RawLots(o)
           q == RoundLot(spec, raw_lots.num, raw_lots.den)
           result == SizePosition(o)
           m == spec.min_lot
           M == spec.max_lot
           worth(n) == n * LotSize * o.price
<1>1. /\ sized' = [order |-> o, result |-> result] /\ UNCHANGED << spec, stated, costs >>
      /\ costs.min_notional = Floor /\ Floor \in Int
  BY DEF Size, CostsAgree
<1>2. /\ m \in Int /\ m >= 1 /\ M \in Int /\ m <= M /\ spec.lot_step \in Int
      /\ o.stop \in Int /\ o.price \in Int /\ o.price >= 1 /\ LotSize \in Int /\ LotSize >= 1
  BY InstrumentAssumption, OrderAssumption DEF CostsAgree, Instrument
<1>3. ASSUME o.stop > 0
      PROVE  /\ q \in Int
             /\ q <= 0 => q = 0 /\ ~Affordable(o, m)
             /\ q > 0 => /\ q \in m .. M /\ Affordable(o, q)
                         /\ q # M => (q - m) % spec.lot_step = 0
                         /\ q + spec.lot_step <= M => ~Affordable(o, q + spec.lot_step)
                         /\ \A n \in m .. M :
                              Affordable(o, n) /\ (n - m) % spec.lot_step = 0 => n <= q
  <2>1. /\ raw_lots.num \in Int /\ raw_lots.den \in Int /\ raw_lots.den >= 1
        /\ \A n \in Int : Affordable(o, n) <=> n * raw_lots.den <= raw_lots.num
    BY <1>3, RawLotsAfford DEF CostsAgree
  <2>2. /\ raw_lots.num < m * raw_lots.den => q = 0
        /\ raw_lots.num >= m * raw_lots.den =>
             /\ q \in m .. M /\ q * raw_lots.den <= raw_lots.num
             /\ q # M => (q - m) % spec.lot_step = 0
             /\ q + spec.lot_step <= M => (q + spec.lot_step) * raw_lots.den > raw_lots.num
             /\ \A n \in m .. M :
                  (n - m) % spec.lot_step = 0 /\ n * raw_lots.den <= raw_lots.num => n <= q
    <3> HIDE DEF raw_lots
    <3> QED BY <2>1, RoundLotFits DEF CostsAgree, Instrument
  <2> HIDE DEF raw_lots, q, m, M
  <2>3. /\ m * raw_lots.den \in Int
        /\ \A n \in Int : n * raw_lots.den \in Int
    BY <1>2, <2>1, ProductType
  <2>4. CASE raw_lots.num < m * raw_lots.den
    <3>1. ~(m * raw_lots.den <= raw_lots.num)
      BY <2>1, <2>3, <2>4
    <3> QED BY <1>2, <2>1, <2>2, <2>4, <3>1
  <2>5. CASE raw_lots.num >= m * raw_lots.den
    <3>1. q \in Int /\ q > 0 /\ q + spec.lot_step \in Int
      BY <1>2, <2>2, <2>5
    <3>2. Affordable(o, q)
      BY <2>1, <2>2, <2>5, <3>1
    <3>3. q + spec.lot_step <= M => ~Affordable(o, q + spec.lot_step)
      BY <2>1, <2>2, <2>3, <2>5, <3>1
    <3>4. \A n \in m .. M : Affordable(o, n) /\ (n - m) % spec.lot_step = 0 => n <= q
      BY <1>2, <2>1, <2>2, <2>5
    <3> QED BY <2>2, <2>5, <3>1, <3>2, <3>3, <3>4
  <2> QED BY <2>1, <2>3, <2>4, <2>5
<1>4. ASSUME NEW i \in Int, NEW j \in Int, i <= j
      PROVE  worth(i) \in Int /\ worth(j) \in Int /\ worth(i) <= worth(j)
  <2>1. i * LotSize <= j * LotSize /\ i * LotSize \in Int /\ j * LotSize \in Int
    BY <1>2, <1>4, Scale, ProductType
  <2> QED BY <1>2, <2>1, Scale, ProductType
<1> DEFINE Safe ==
      CASE result.reason = Absent ->
              /\ result.lots \in m .. M
              /\ Affordable(o, result.lots)
              /\ worth(result.lots) >= Floor
              /\ result.lots # M => (result.lots - m) % spec.lot_step = 0
              /\ result.lots + spec.lot_step <= M => ~Affordable(o, result.lots + spec.lot_step)
        [] result.reason = "below_min_lot" -> ~Affordable(o, m)
        [] result.reason = "below_min_notional" ->
              \A n \in m .. M :
                Affordable(o, n) /\ (n - m) % spec.lot_step = 0 => worth(n) < Floor
        [] result.reason = "invalid_stop_distance" -> o.stop <= 0
<1>5. Safe
  <2>1. CASE o.stop <= 0
    <3>1. result = NoTrade("invalid_stop_distance")
      BY <2>1 DEF SizePosition
    <3>2. result.reason = "invalid_stop_distance"
      BY <3>1 DEF NoTrade
    <3> HIDE DEF result
    <3> QED BY <2>1, <3>2, AbsentAssumption
  <2>2. CASE o.stop > 0 /\ q <= 0
    <3>1. result = NoTrade("below_min_lot")
      BY <1>2, <2>2 DEF SizePosition
    <3>2. result.reason = "below_min_lot"
      BY <3>1 DEF NoTrade
    <3> HIDE DEF result, q, m
    <3> QED BY <1>3, <2>2, <3>2, AbsentAssumption
  <2>3. CASE o.stop > 0 /\ q > 0 /\ worth(q) < Floor
    <3>1. result = NoTrade("below_min_notional")
      BY <1>1, <1>2, <1>3, <2>3 DEF SizePosition
    <3>2. result.reason = "below_min_notional"
      BY <3>1 DEF NoTrade
    <3>3. \A n \in m .. M :
            Affordable(o, n) /\ (n - m) % spec.lot_step = 0 => worth(n) < Floor
      <4> SUFFICES ASSUME NEW n \in m .. M, Affordable(o, n), (n - m) % spec.lot_step = 0
                   PROVE  worth(n) < Floor
        OBVIOUS
      <4>1. n <= q /\ n \in Int /\ q \in Int
        <5> HIDE DEF q, m, M
        <5> QED BY <1>2, <1>3, <2>3
      <4>2. worth(n) \in Int /\ worth(q) \in Int /\ worth(n) <= worth(q)
        <5> HIDE DEF q, worth
        <5> QED BY <1>4, <4>1
      <4> HIDE DEF q, worth
      <4> QED BY <1>1, <2>3, <4>2
    <3> HIDE DEF result, q, m, M, worth
    <3> QED BY <3>2, <3>3, AbsentAssumption
  <2>4. CASE o.stop > 0 /\ q > 0 /\ ~(worth(q) < Floor)
    <3>1. result = [lots |-> q, reason |-> Absent]
      BY <1>1, <1>2, <1>3, <2>4 DEF SizePosition
    <3>2. result.reason = Absent /\ result.lots = q
      BY <3>1
    <3>3. worth(q) \in Int
      <4> HIDE DEF q, worth
      <4> QED BY <1>3, <1>4, <2>4
    <3> HIDE DEF result, q, m, M, worth
    <3>4. /\ result.lots \in m .. M /\ Affordable(o, result.lots)
          /\ result.lots # M => (result.lots - m) % spec.lot_step = 0
          /\ result.lots + spec.lot_step <= M => ~Affordable(o, result.lots + spec.lot_step)
      BY <1>3, <2>4, <3>2
    <3>5. worth(result.lots) >= Floor
      BY <1>1, <2>4, <3>2, <3>3
    <3> QED BY <3>2, <3>4, <3>5, AbsentAssumption
  <2>5. o.stop > 0 => q \in Int
    BY <1>3
  <2> HIDE DEF q, worth, result, Safe
  <2>6. (o.stop <= 0 \/ o.stop > 0) /\ (o.stop > 0 => q <= 0 \/ q > 0)
    BY <1>2, <2>5
  <2> QED BY <2>1, <2>2, <2>3, <2>4, <2>6
<1>6. sized'.order = o /\ sized'.result = result
  BY <1>1
<1>7. Floor = IF spec.min_notional # Absent THEN spec.min_notional ELSE stated.min_notional
  BY DEF Floor, MinNotional
<1> HIDE DEF result
<1> QED BY <1>1, <1>5, <1>6, <1>7 DEF SizingIsSafe, Affordable

LEMMA CostsStep ==
  CostsAgree /\ SizingIsSafe /\ [CostNext]_costVars => CostsAgree' /\ SizingIsSafe'
<1> SUFFICES ASSUME CostsAgree, SizingIsSafe, [CostNext]_costVars
             PROVE  CostsAgree' /\ SizingIsSafe'
  OBVIOUS
<1>1. CASE Resolve
  <2>1. UNCHANGED << spec, stated, sized >> /\ costs' = ResolveCosts(spec, stated)
    BY <1>1 DEF Resolve
  <2>2. SizingIsSafe'
    BY <2>1 DEF SizingIsSafe, Affordable
  <2>3. costs' = Unresolved \/ (costs'.min_notional = Floor /\ Floor # Absent)
    BY <2>1 DEF ResolveCosts, Floor
  <2>4. Instrument' /\ Floor' = Floor
    BY <2>1 DEF CostsAgree, Instrument, Floor
  <2> QED BY <2>2, <2>3, <2>4, FloorType DEF CostsAgree
<1>2. ASSUME NEW o \in Orders, Size(o) PROVE CostsAgree' /\ SizingIsSafe'
  <2>1. UNCHANGED << spec, stated, costs >>
    BY <1>2 DEF Size
  <2>2. CostsAgree'
    BY <2>1 DEF CostsAgree, Instrument, Floor
  <2> QED BY <1>2, <2>2, SizeIsSafe
<1>3. CASE UNCHANGED costVars
  BY <1>3 DEF costVars, CostsAgree, Instrument, Floor, SizingIsSafe, Affordable
<1> QED BY <1>1, <1>2, <1>3 DEF CostNext

\* Whatever the lot grid, the leverage, the equity left and the risk are, a
\* size is the largest the order can afford, or the reason why there is none
\* is true (costs.py:157-216, contracts.py:103-113).
THEOREM SizingAlwaysSafe == CostSpec => []SizingIsSafe
BY CostsInit, CostsStep, PTL DEF CostSpec

-----------------------------------------------------------------------------
(* The memory: rows of the log and what the index says of them.            *)

\* A candidate that never traded is not labelled as a losing one.
Labellings ==
  { l \in SUBSET KnownLabels :
      "NO_SIGNAL" \notin l \/ "NO_EDGE_UNDER_REALISTIC_COSTS" \notin l }

ChildRows ==
  [kind : {"candidate_evaluated"}, context : Contexts, operator : Mutations \cup {None},
   reward : {"won", "lost", None}, labels : Labellings]

LessonRows ==
  [kind : {"lesson_added"}, lesson : LessonIds, confidence : Confidences,
   contexts : SUBSET Contexts, supersedes : LessonIds \cup {None}]

Rows == ChildRows \cup LessonRows

LessonsUpTo(log, n) == { i \in 1 .. n : log[i].kind = "lesson_added" }

Retiring(log, n, i) ==
  { j \in LessonsUpTo(log, n) : log[j].supersedes = log[i].lesson }

EntryOf(log, n, i) ==
  LET s == Retiring(log, n, i) IN
  [said |-> log[i], active |-> s = {}, by |-> IF s = {} THEN None ELSE log[Max(s)].lesson]

\* The index is what the first n rows of the log say.
Describes(index, log, n) ==
  /\ DOMAIN index = { log[i].lesson : i \in LessonsUpTo(log, n) }
  /\ \A i \in LessonsUpTo(log, n) : index[log[i].lesson] = EntryOf(log, n, i)

\* Row i of the log: an id is used once, and a lesson supersedes an earlier one.
IsNew(log, i) ==
  log[i].kind = "lesson_added" =>
    /\ \A j \in LessonsUpTo(log, i - 1) : log[j].lesson # log[i].lesson
    /\ log[i].supersedes # None =>
         \E j \in LessonsUpTo(log, i - 1) : log[j].lesson = log[i].supersedes

LessonsAreNew(log) == \A i \in DOMAIN log : IsNew(log, i)

LEMMA RowKinds ==
  /\ \A e \in Rows : e.kind \in {"candidate_evaluated", "lesson_added"}
  /\ \A e \in Rows : e.kind = "lesson_added" => e \in LessonRows
  /\ \A e \in Rows : e.kind = "candidate_evaluated" => e \in ChildRows
  /\ \A e \in LessonRows : e \in Rows /\ e.kind = "lesson_added" /\ e.lesson \in LessonIds /\ e.lesson # None
  /\ \A e \in ChildRows : e \in Rows /\ e.kind = "candidate_evaluated"
BY MemoryAssumption DEF Rows, ChildRows, LessonRows

\* A row that is no lesson changes nothing in the index.
LEMMA OtherRowsAreSilent ==
  ASSUME NEW log, NEW n \in Nat, NEW index, Describes(index, log, n),
         log[n + 1].kind # "lesson_added"
  PROVE  Describes(WithRow(index, log[n + 1]), log, n + 1)
<1>1. LessonsUpTo(log, n + 1) = LessonsUpTo(log, n)
  BY DEF LessonsUpTo
<1>2. \A i : EntryOf(log, n + 1, i) = EntryOf(log, n, i)
  BY <1>1 DEF EntryOf, Retiring
<1>3. WithRow(index, log[n + 1]) = index
  BY DEF WithRow
<1> QED BY <1>1, <1>2, <1>3 DEF Describes

\* A lesson that retires another is the last to do so.
LEMMA LastRetires ==
  ASSUME NEW n \in Nat, NEW s \in SUBSET (1 .. n)
  PROVE  Max(s \cup {n + 1}) = n + 1
<1>1. n + 1 \in s \cup {n + 1} /\ \A y \in s \cup {n + 1} : n + 1 >= y /\ y \in Int
  OBVIOUS
<1>2. ASSUME NEW x \in s \cup {n + 1}, \A y \in s \cup {n + 1} : x >= y PROVE x = n + 1
  BY <1>1, <1>2
<1> QED BY <1>1, <1>2 DEF Max

\* The next lesson of the log joins the index.
LEMMA LessonsJoin ==
  ASSUME NEW log \in Seq(Rows), LessonsAreNew(log), NEW n \in Nat, n + 1 \in DOMAIN log,
         NEW index, Describes(index, log, n), log[n + 1].kind = "lesson_added"
  PROVE  Describes(WithRow(index, log[n + 1]), log, n + 1)
<1> DEFINE e == log[n + 1]
           new == WithLesson(index, e)
           L == LessonsUpTo(log, n)
           known(l) == IF l = e.lesson THEN [said |-> e, active |-> TRUE, by |-> None] ELSE index[l]
<1>1. /\ LessonsUpTo(log, n + 1) = L \cup {n + 1} /\ n + 1 \notin L
      /\ L \subseteq 1 .. n
  BY DEF LessonsUpTo
<1>2. /\ e \in LessonRows /\ e.lesson \in LessonIds /\ e.lesson # None
      /\ \A i \in L : log[i].lesson # e.lesson
      /\ e.supersedes # None => \E j \in L : log[j].lesson = e.supersedes
  <2>1. (n + 1) - 1 = n /\ e \in Rows
    OBVIOUS
  <2> QED BY <2>1, RowKinds DEF LessonsAreNew, IsNew
<1>3. WithRow(index, e) = new
  BY DEF WithRow
<1>4. DOMAIN new = DOMAIN index \cup {e.lesson}
  BY DEF WithLesson
<1>5. \A l \in DOMAIN index \cup {e.lesson} :
        new[l] = IF l = e.supersedes THEN [said |-> known(l).said, active |-> FALSE, by |-> e.lesson]
                 ELSE known(l)
  BY DEF WithLesson
<1>6. DOMAIN index = { log[i].lesson : i \in L } /\ \A i \in L : index[log[i].lesson] = EntryOf(log, n, i)
  BY DEF Describes
<1>7. DOMAIN new = { log[i].lesson : i \in L \cup {n + 1} }
  BY <1>4, <1>6
<1>8. e.supersedes # e.lesson
  BY <1>2
<1>9. ASSUME NEW i \in L PROVE new[log[i].lesson] = EntryOf(log, n + 1, i)
  <2> DEFINE l == log[i].lesson
             s == Retiring(log, n, i)
  <2>1. l # e.lesson /\ l \in DOMAIN index /\ known(l) = EntryOf(log, n, i)
    BY <1>2, <1>6, <1>9
  <2>2. CASE e.supersedes = l
    <3>1. Retiring(log, n + 1, i) = s \cup {n + 1}
      BY <1>1, <2>2 DEF Retiring
    <3>2. s \in SUBSET (1 .. n)
      BY <1>1 DEF Retiring
    <3>3. Max(s \cup {n + 1}) = n + 1
      BY <3>2, LastRetires
    <3>4. EntryOf(log, n + 1, i) = [said |-> log[i], active |-> FALSE, by |-> e.lesson]
      BY <3>1, <3>3 DEF EntryOf
    <3>5. EntryOf(log, n, i).said = log[i]
      BY DEF EntryOf
    <3>6. new[l] = [said |-> log[i], active |-> FALSE, by |-> e.lesson]
      BY <1>5, <2>1, <2>2, <3>5
    <3> QED BY <3>4, <3>6
  <2>3. CASE e.supersedes # l
    <3>1. Retiring(log, n + 1, i) = s
      BY <1>1, <2>3 DEF Retiring
    <3>2. EntryOf(log, n + 1, i) = EntryOf(log, n, i)
      BY <3>1 DEF EntryOf
    <3>3. new[l] = known(l)
      BY <1>5, <2>1, <2>3
    <3> QED BY <2>1, <3>2, <3>3
  <2> QED BY <2>2, <2>3
<1>10. new[e.lesson] = EntryOf(log, n + 1, n + 1)
  <2>1. Retiring(log, n + 1, n + 1) = {}
    <3> SUFFICES ASSUME NEW j \in L \cup {n + 1}, log[j].supersedes = e.lesson PROVE FALSE
      BY <1>1 DEF Retiring
    <3>1. j \in L
      BY <1>8
    <3>2. j \in DOMAIN log /\ j \in 1 .. n /\ log[j].kind = "lesson_added"
      BY <3>1 DEF LessonsUpTo
    <3>3. PICK k \in LessonsUpTo(log, j - 1) : log[k].lesson = e.lesson
      BY <1>2, <3>2 DEF LessonsAreNew, IsNew
    <3>4. k \in L
      BY <3>2, <3>3 DEF LessonsUpTo
    <3> QED BY <1>2, <3>3, <3>4
  <2>2. EntryOf(log, n + 1, n + 1) = [said |-> e, active |-> TRUE, by |-> None]
    BY <2>1 DEF EntryOf
  <2> QED BY <1>5, <1>8, <2>2
<1> QED BY <1>1, <1>3, <1>7, <1>9, <1>10 DEF Describes

Entries == [said : LessonRows, active : BOOLEAN, by : LessonIds \cup {None}]

Indexes == UNION { [D -> Entries] : D \in SUBSET LessonIds }

LEMMA EmptyIndex ==
  /\ << >> \in Indexes
  /\ \A log : Describes(<< >>, log, 0)
<1>1. << >> \in [{} -> Entries] /\ {} \in SUBSET LessonIds
  OBVIOUS
<1>2. DOMAIN << >> = {}
  OBVIOUS
<1>3. ASSUME NEW log PROVE Describes(<< >>, log, 0)
  <2>1. LessonsUpTo(log, 0) = {}
    BY DEF LessonsUpTo
  <2> QED BY <1>2, <2>1 DEF Describes
<1> QED BY <1>1, <1>3 DEF Indexes

LEMMA WithRowType ==
  ASSUME NEW index \in Indexes, NEW e \in Rows
  PROVE  WithRow(index, e) \in Indexes
<1>1. CASE e.kind # "lesson_added"
  BY <1>1 DEF WithRow
<1>2. CASE e.kind = "lesson_added"
  <2>1. e \in LessonRows /\ e.lesson \in LessonIds
    BY <1>2, RowKinds
  <2>2. PICK D \in SUBSET LessonIds : index \in [D -> Entries]
    BY DEF Indexes
  <2>3. D \cup {e.lesson} \in SUBSET LessonIds /\ DOMAIN index = D
    BY <2>1, <2>2
  <2> DEFINE known(l) == IF l = e.lesson THEN [said |-> e, active |-> TRUE, by |-> None] ELSE index[l]
  <2>4. ASSUME NEW l \in D \cup {e.lesson}
        PROVE  /\ known(l) \in Entries
               /\ [said |-> known(l).said, active |-> FALSE, by |-> e.lesson] \in Entries
    <3>1. known(l) \in Entries
      BY <2>1, <2>2 DEF Entries
    <3>2. known(l).said \in LessonRows
      BY <3>1 DEF Entries
    <3> HIDE DEF known
    <3> QED BY <2>1, <3>1, <3>2 DEF Entries
  <2>5. WithLesson(index, e) \in [D \cup {e.lesson} -> Entries]
    BY <2>3, <2>4 DEF WithLesson
  <2>6. WithRow(index, e) = WithLesson(index, e)
    BY <1>2 DEF WithRow
  <2> QED BY <2>3, <2>5, <2>6 DEF Indexes
<1> QED BY <1>1, <1>2

\* The replay goes through the log row by row.
LEMMA ReplayRuns ==
  ASSUME NEW n \in Nat, NEW log \in [1 .. n -> Rows]
  PROVE  \E run \in [0 .. n -> Indexes] :
           /\ run[0] = << >> /\ run[n] = Replayed(log)
           /\ \A i \in 1 .. n : run[i] = WithRow(run[i - 1], log[i])
<1> DEFINE V == Indexes
           D == 1 .. n
           turn == [p \in V \X Rows |-> WithRow(p[1], p[2])]
           Recursion(it) ==
             it = [q \in SUBSET D |->
                     IF q = {} THEN << >> ELSE WithRow(it[q \ {Max(q)}], log[Max(q)])]
           it == CHOOSE it : Recursion(it)
<1>1. Replayed(log) = it[D]
  <2>1. DOMAIN log = D
    OBVIOUS
  <2> QED BY <2>1 DEF Replayed, FoldLeft, MapThenFoldSet
<1>2. /\ << >> \in V
      /\ \A v \in V : \A e \in Rows : WithRow(v, e) \in V
  BY EmptyIndex, WithRowType
<1> HIDE DEF V
<1>3. turn \in [V \X Rows -> V]
  BY <1>2
<1>4. \A v \in V : \A e \in Rows : turn[<< v, e >>] = WithRow(v, e)
  OBVIOUS
<1>5. \A q \in SUBSET D : q # {} => Max(q) \in q
  BY MaxIndex
<1> HIDE DEF turn
<1>6. PICK h \in [SUBSET D -> V] : IsFoldLeft(h, n, << >>, log, turn)
  BY <1>2, <1>3, FoldLeftExists
<1>7. \A q \in SUBSET D :
        h[q] = IF q = {} THEN << >> ELSE WithRow(h[q \ {Max(q)}], log[Max(q)])
  <2> TAKE q \in SUBSET D
  <2>1. CASE q = {}
    BY <1>6, <2>1 DEF IsFoldLeft
  <2>2. CASE q # {}
    <3>1. h[q] = turn[<< h[q \ {Max(q)}], log[Max(q)] >>]
      BY <1>6, <2>2 DEF IsFoldLeft
    <3>2. h[q \ {Max(q)}] \in V /\ log[Max(q)] \in Rows
      BY <1>5, <2>2
    <3> QED BY <1>4, <2>2, <3>1, <3>2
  <2> QED BY <2>1, <2>2
<1>8. Recursion(h)
  BY <1>7
<1>9. Recursion(it)
  BY <1>8
<1>10. \A q \in SUBSET D :
         it[q] = IF q = {} THEN << >> ELSE WithRow(it[q \ {Max(q)}], log[Max(q)])
  BY <1>9
<1> HIDE DEF it, Recursion
<1>11. \A q \in SUBSET D : it[q] \in V
  <2>1. IsFiniteSet(D)
    BY FS_Interval
  <2>2. it[{}] \in V
    BY <1>2, <1>10
  <2>3. ASSUME NEW q \in SUBSET D, q # {}
        PROVE  \E x \in q : it[q \ {x}] \in V => it[q] \in V
    <3>1. Max(q) \in q /\ log[Max(q)] \in Rows
      BY <1>5, <2>3
    <3>2. it[q] = WithRow(it[q \ {Max(q)}], log[Max(q)])
      BY <1>10, <2>3
    <3>3. it[q \ {Max(q)}] \in V => it[q] \in V
      BY <1>2, <3>1, <3>2
    <3> QED BY <3>1, <3>3
  <2> HIDE DEF D
  <2> QED BY <2>1, <2>2, <2>3, FoldType
<1>12. IsFoldLeft(it, n, << >>, log, turn)
  <2> SUFFICES ASSUME NEW q \in SUBSET D
               PROVE  it[q] = IF q = {} THEN << >> ELSE turn[<< it[q \ {Max(q)}], log[Max(q)] >>]
    BY DEF IsFoldLeft
  <2>1. CASE q = {}
    BY <1>10, <2>1
  <2>2. CASE q # {}
    <3>1. it[q] = WithRow(it[q \ {Max(q)}], log[Max(q)])
      BY <1>10, <2>2
    <3>2. it[q \ {Max(q)}] \in V /\ log[Max(q)] \in Rows
      BY <1>5, <1>11, <2>2
    <3> QED BY <1>4, <2>2, <3>1, <3>2
  <2> QED BY <2>1, <2>2
<1>13. PICK run \in [0 .. n -> V] : IsRun(run, n, << >>, log, turn, it)
  BY <1>2, <1>3, <1>12, FoldLeftRuns
<1>14. ASSUME NEW i \in 1 .. n PROVE run[i] = WithRow(run[i - 1], log[i])
  <2>1. i - 1 \in 0 .. n
    OBVIOUS
  <2>2. run[i - 1] \in V /\ log[i] \in Rows
    BY <2>1
  <2> QED BY <1>4, <1>13, <2>2 DEF IsRun
<1> QED BY <1>1, <1>13, <1>14 DEF IsRun, V

\* Opening a session rebuilds the index from the log.
LEMMA ReplayDescribes ==
  ASSUME NEW log \in Seq(Rows), LessonsAreNew(log)
  PROVE  Describes(Replayed(log), log, Len(log))
<1> DEFINE n == Len(log)
<1>0. n \in Nat /\ log \in [1 .. n -> Rows]
  OBVIOUS
<1>1. PICK run \in [0 .. n -> Indexes] :
        /\ run[0] = << >> /\ run[n] = Replayed(log)
        /\ \A i \in 1 .. n : run[i] = WithRow(run[i - 1], log[i])
  <2> HIDE DEF n
  <2> QED BY <1>0, ReplayRuns
<1> DEFINE S == {i \in Nat : i <= n => Describes(run[i], log, i)}
<1>2. 0 \in S
  BY <1>1, EmptyIndex
<1>3. ASSUME NEW i \in Nat, i \in S PROVE i + 1 \in S
  <2> SUFFICES ASSUME i + 1 <= n PROVE Describes(run[i + 1], log, i + 1)
    OBVIOUS
  <2>1. Describes(run[i], log, i) /\ i + 1 \in 1 .. n /\ (i + 1) - 1 = i /\ i + 1 \in DOMAIN log
    BY <1>0, <1>3
  <2>2. run[i + 1] = WithRow(run[i], log[i + 1])
    BY <1>1, <2>1
  <2> HIDE DEF S, n
  <2> QED BY <2>1, <2>2, OtherRowsAreSilent, LessonsJoin
<1> HIDE DEF S
<1>4. Nat \subseteq S
  BY <1>2, <1>3, Induction
<1> QED BY <1>0, <1>1, <1>4 DEF S

\* What a row appended to the log leaves as it was.
LEMMA AppendedLog ==
  ASSUME NEW log \in Seq(Rows), NEW e \in Rows, LessonsAreNew(log),
         e.kind = "lesson_added" =>
           /\ \A j \in LessonsUpTo(log, Len(log)) : log[j].lesson # e.lesson
           /\ e.supersedes # None => \E j \in LessonsUpTo(log, Len(log)) : log[j].lesson = e.supersedes
  PROVE  /\ Append(log, e) \in Seq(Rows)
         /\ LessonsAreNew(Append(log, e))
         /\ \A index : Describes(index, log, Len(log)) <=> Describes(index, Append(log, e), Len(log))
<1> DEFINE n == Len(log)
           new == Append(log, e)
<1>1. /\ n \in Nat /\ new \in Seq(Rows) /\ Len(new) = n + 1 /\ new[n + 1] = e
      /\ \A i \in 1 .. n : new[i] = log[i]
      /\ DOMAIN new = 1 .. n + 1 /\ DOMAIN log = 1 .. n
  OBVIOUS
<1> HIDE DEF new, n
<1>2. \A k \in 0 .. n : LessonsUpTo(new, k) = LessonsUpTo(log, k)
  BY <1>1 DEF LessonsUpTo
<1>3. ASSUME NEW i \in 1 .. n + 1 PROVE IsNew(new, i)
  <2>1. i - 1 \in 0 .. n
    BY <1>1
  <2>2. LessonsUpTo(new, i - 1) = LessonsUpTo(log, i - 1)
    BY <1>2, <2>1
  <2>3. \A j \in LessonsUpTo(log, i - 1) : new[j] = log[j]
    BY <1>1 DEF LessonsUpTo
  <2>4. CASE i <= n
    <3>1. IsNew(log, i) /\ new[i] = log[i]
      BY <1>1, <2>4 DEF LessonsAreNew
    <3> QED BY <2>2, <2>3, <3>1 DEF IsNew
  <2>5. CASE i = n + 1
    <3>1. i - 1 = n /\ new[i] = e
      BY <1>1, <2>5
    <3> QED BY <2>2, <2>3, <3>1 DEF IsNew, n
  <2> QED BY <1>1, <2>4, <2>5
<1>4. \A i \in LessonsUpTo(log, n) : new[i] = log[i] /\ i \in 1 .. n
  BY <1>1 DEF LessonsUpTo
<1>5. ASSUME NEW i \in LessonsUpTo(log, n) PROVE EntryOf(new, n, i) = EntryOf(log, n, i)
  <2> DEFINE s == Retiring(log, n, i)
  <2>1. n \in 0 .. n
    BY <1>1
  <2>2. Retiring(new, n, i) = s
    BY <1>2, <1>4, <2>1 DEF Retiring
  <2>3. s # {} => Max(s) \in s
    <3>1. s \in SUBSET (1 .. n)
      BY <1>4 DEF Retiring
    <3> QED BY <1>1, <3>1, MaxIndex
  <2>4. s # {} => new[Max(s)] = log[Max(s)]
    BY <1>4, <2>3 DEF Retiring
  <2> HIDE DEF s
  <2>5. EntryOf(new, n, i) = [said |-> new[i], active |-> s = {},
                              by |-> IF s = {} THEN None ELSE new[Max(s)].lesson]
    BY <2>2 DEF EntryOf
  <2>6. EntryOf(log, n, i) = [said |-> log[i], active |-> s = {},
                              by |-> IF s = {} THEN None ELSE log[Max(s)].lesson]
    BY DEF EntryOf, s
  <2>7. new[i] = log[i]
    BY <1>4
  <2> QED BY <2>4, <2>5, <2>6, <2>7
<1>6. ASSUME NEW index PROVE Describes(index, log, n) <=> Describes(index, new, n)
  <2>1. n \in 0 .. n
    BY <1>1
  <2>2. LessonsUpTo(new, n) = LessonsUpTo(log, n)
    BY <1>2, <2>1
  <2>3. { new[i].lesson : i \in LessonsUpTo(log, n) } = { log[i].lesson : i \in LessonsUpTo(log, n) }
    BY <1>4
  <2> QED BY <1>4, <1>5, <2>2, <2>3 DEF Describes
<1> QED BY <1>1, <1>3, <1>6 DEF LessonsAreNew, new, n

-----------------------------------------------------------------------------
(* The memory: counts.                                                     *)

Tallies == [ok : Nat, ko : Nat]

IsOutcome(e, c, o, won) ==
  /\ e.kind = "candidate_evaluated"
  /\ Decided(e) /\ e.context = c /\ e.operator = o /\ (e.reward = "won") = won

LEMMA LogIsFinite ==
  ASSUME NEW log \in Seq(Rows), NEW s \in SUBSET DOMAIN log
  PROVE  IsFiniteSet(s) /\ Cardinality(s) \in Nat
<1>1. DOMAIN log = 1 .. Len(log) /\ Len(log) \in Nat
  OBVIOUS
<1>2. IsFiniteSet(1 .. Len(log))
  BY <1>1, FS_Interval
<1>3. IsFiniteSet(s)
  BY <1>1, <1>2, FS_Subset
<1> QED BY <1>3, FS_CardinalityType

\* A row adds to the outcomes it is one of, and to no others.
LEMMA OneMoreOutcome ==
  ASSUME NEW log \in Seq(Rows), NEW e \in Rows, NEW c, NEW o, NEW won \in BOOLEAN
  PROVE  /\ Cardinality(Outcomes(log, c, o, won)) \in Nat
         /\ Cardinality(Outcomes(Append(log, e), c, o, won))
              = Cardinality(Outcomes(log, c, o, won)) + (IF IsOutcome(e, c, o, won) THEN 1 ELSE 0)
<1> DEFINE n == Len(log)
           new == Append(log, e)
           s == Outcomes(log, c, o, won)
<1>1. /\ n \in Nat /\ new[n + 1] = e /\ \A i \in 1 .. n : new[i] = log[i]
      /\ DOMAIN new = 1 .. n + 1 /\ DOMAIN log = 1 .. n
  OBVIOUS
<1>2. s = { i \in 1 .. n : IsOutcome(log[i], c, o, won) }
  BY <1>1 DEF Outcomes, Candidates, IsOutcome
<1>3. Outcomes(new, c, o, won) = { i \in 1 .. n + 1 : IsOutcome(new[i], c, o, won) }
  BY <1>1 DEF Outcomes, Candidates, IsOutcome
<1>4. s \in SUBSET DOMAIN log /\ n + 1 \notin s
  BY <1>1, <1>2
<1>5. IsFiniteSet(s) /\ Cardinality(s) \in Nat
  BY <1>4, LogIsFinite
<1> HIDE DEF new, n
<1>6. Outcomes(new, c, o, won) = IF IsOutcome(e, c, o, won) THEN s \cup {n + 1} ELSE s
  <2> HIDE DEF s
  <2>1. \A i \in 1 .. n : IsOutcome(new[i], c, o, won) <=> IsOutcome(log[i], c, o, won)
    BY <1>1
  <2>2. IsOutcome(new[n + 1], c, o, won) <=> IsOutcome(e, c, o, won)
    BY <1>1
  <2> QED BY <1>1, <1>2, <1>3, <2>1, <2>2
<1> HIDE DEF s
<1>7. Cardinality(s \cup {n + 1}) = Cardinality(s) + 1
  BY <1>4, <1>5, FS_AddElement
<1> QED BY <1>5, <1>6, <1>7 DEF s, new

LEMMA OutcomesType ==
  ASSUME NEW log \in Seq(Rows)
  PROVE  /\ OperatorOutcomes(log) \in [Contexts -> [Mutations -> Tallies]]
         /\ \A c \in Contexts : \A o \in Mutations :
              OperatorOutcomes(log)[c][o] = [ok |-> Cardinality(Outcomes(log, c, o, TRUE)),
                                            ko |-> Cardinality(Outcomes(log, c, o, FALSE))]
<1>1. \A c, o : \A won \in BOOLEAN : Cardinality(Outcomes(log, c, o, won)) \in Nat
  <2> SUFFICES ASSUME NEW c, NEW o, NEW won \in BOOLEAN
               PROVE  Cardinality(Outcomes(log, c, o, won)) \in Nat
    OBVIOUS
  <2>1. Outcomes(log, c, o, won) \in SUBSET DOMAIN log
    BY DEF Outcomes, Candidates
  <2> QED BY <2>1, LogIsFinite
<1>2. OperatorOutcomes(log) \in [Contexts -> [Mutations -> Tallies]]
  BY <1>1 DEF OperatorOutcomes, Tallies
<1>3. ASSUME NEW c \in Contexts, NEW o \in Mutations
      PROVE  OperatorOutcomes(log)[c][o] = [ok |-> Cardinality(Outcomes(log, c, o, TRUE)),
                                            ko |-> Cardinality(Outcomes(log, c, o, FALSE))]
  BY DEF OperatorOutcomes
<1> QED BY <1>2, <1>3

-----------------------------------------------------------------------------
(* The memory: the invariant.                                              *)

MemoryTypeOK ==
  /\ events \in Seq(Rows) /\ LessonsAreNew(events)
  /\ session \in Contexts \cup {None}
  /\ step \in {"idle", "rewarded", "logged"}
  /\ counts \in [Operators -> Tallies]
  /\ opened \in [Contexts -> [Mutations -> Tallies]]
  /\ session = None => step = "idle" /\ counts = [o \in Operators |-> Zero]

\* The event that is not written yet is of this session, and rewards none but
\* the selector's operators.
PendingIsOurs ==
  step = "rewarded" =>
    /\ pending \in ChildRows /\ pending.context = session
    /\ pending.reward # None => pending.operator \in Operators

\* Between the append and the index a lesson is the one row ahead.
IndexAgrees ==
  session # None =>
    IF step = "logged"
    THEN /\ Len(events) >= 1
         /\ pending = events[Len(events)] /\ pending.kind = "lesson_added"
         /\ Describes(lessons, events, Len(events) - 1)
    ELSE Describes(lessons, events, Len(events))

MemoryInv == MemoryTypeOK /\ PendingIsOurs /\ IndexAgrees /\ SelectorIsTheLog

LEMMA MemoryInitInv == MemoryInit => MemoryInv
<1> SUFFICES ASSUME MemoryInit PROVE MemoryInv
  OBVIOUS
<1> USE DEF MemoryInit
<1>1. Zero \in Tallies
  BY DEF Zero, Tallies
<1>2. NoOutcomes \in [Contexts -> [Mutations -> Tallies]]
  BY <1>1 DEF NoOutcomes
<1>3. counts \in [Operators -> Tallies]
  BY <1>1
<1>4. events \in Seq(Rows) /\ LessonsAreNew(events)
  BY DEF LessonsAreNew
<1>5. MemoryTypeOK
  BY <1>2, <1>3, <1>4 DEF MemoryTypeOK
<1>6. PendingIsOurs /\ IndexAgrees /\ SelectorIsTheLog
  BY DEF PendingIsOurs, IndexAgrees, SelectorIsTheLog
<1> QED BY <1>5, <1>6 DEF MemoryInv

\* The selector's count, the log's count and the reward on its way, of one
\* operator of the session.
Tally(o) ==
  LET now == OperatorOutcomes(events)[session][o]
      was == opened[session][o]
      own == IF o \in Operators THEN counts[o] ELSE Zero
      early == IF step = "rewarded" /\ pending.operator = o THEN pending.reward ELSE None
  IN /\ own.ok = now.ok - was.ok + (IF early = "won" THEN 1 ELSE 0)
     /\ own.ko = now.ko - was.ko + (IF early = "lost" THEN 1 ELSE 0)

LEMMA TallyOfEach == SelectorIsTheLog <=> (session # None => \A o \in Mutations : Tally(o))
BY DEF SelectorIsTheLog, Tally

LEMMA OpenStep == ASSUME MemoryInv, NEW c \in Contexts, Open(c) PROVE MemoryInv'
<1>1. /\ events \in Seq(Rows) /\ LessonsAreNew(events) /\ step = "idle"
      /\ counts = [o \in Operators |-> Zero] /\ session = None
      /\ session' = c /\ c # None /\ lessons' = Replayed(events)
      /\ opened' = OperatorOutcomes(events)
      /\ UNCHANGED << events, step, pending, counts >>
  BY MemoryAssumption DEF MemoryInv, MemoryTypeOK, Open
<1>2. opened' \in [Contexts -> [Mutations -> Tallies]]
  BY <1>1, OutcomesType
<1>3. MemoryTypeOK' /\ PendingIsOurs'
  BY <1>1, <1>2 DEF MemoryInv, MemoryTypeOK, PendingIsOurs
<1>4. IndexAgrees'
  BY <1>1, ReplayDescribes DEF IndexAgrees
<1>5. ASSUME NEW o \in Mutations PROVE Tally(o)'
  <2> DEFINE now == OperatorOutcomes(events)[c][o]
  <2>1. now \in Tallies
    BY <1>1, OutcomesType
  <2>2. (IF o \in Operators THEN counts'[o] ELSE Zero) = Zero
    BY <1>1
  <2>3. now.ok - now.ok = 0 /\ now.ko - now.ko = 0
    <3>1. now.ok \in Nat /\ now.ko \in Nat
      BY <2>1 DEF Tallies
    <3> HIDE DEF now
    <3> QED BY <3>1
  <2>4. None # "won" /\ None # "lost"
    BY MemoryAssumption
  <2>5. OperatorOutcomes(events') = OperatorOutcomes(events)
    BY <1>1
  <2> HIDE DEF now
  <2> QED BY <1>1, <2>2, <2>3, <2>4, <2>5 DEF now, Zero, Tally
<1>6. SelectorIsTheLog'
  <2>1. session' # None => \A o \in Mutations : Tally(o)'
    BY <1>5
  <2> QED BY <2>1 DEF SelectorIsTheLog, Tally
<1> QED BY <1>3, <1>4, <1>6 DEF MemoryInv

\* The four numbers of an operator are numbers.
LEMMA TallyTypes ==
  ASSUME MemoryTypeOK, session # None, NEW o \in Mutations
  PROVE  /\ OperatorOutcomes(events)[session][o] \in Tallies
         /\ opened[session][o] \in Tallies
         /\ (IF o \in Operators THEN counts[o] ELSE Zero) \in Tallies
<1>1. session \in Contexts /\ events \in Seq(Rows)
  BY DEF MemoryTypeOK
<1>2. OperatorOutcomes(events) \in [Contexts -> [Mutations -> Tallies]]
  BY <1>1, OutcomesType
<1>3. Zero \in Tallies
  BY DEF Tallies, Zero
<1> QED BY <1>1, <1>2, <1>3 DEF MemoryTypeOK

\* What a child's operation leaves in the types, and in the index.
LEMMA EvaluateStep ==
  ASSUME MemoryInv, NEW o \in Mutations \cup {None}, NEW ev \in Evaluations, NEW won \in BOOLEAN,
         EvaluateChild(o, ev, won)
  PROVE  MemoryInv'
<1> DEFINE reward == IF Rewarded(o) THEN (IF won THEN "won" ELSE "lost") ELSE None
           row == [kind |-> "candidate_evaluated", context |-> session, operator |-> o,
                   reward |-> reward, labels |-> FailureLabels(ev)]
<1>1. /\ session # None /\ step = "idle" /\ step' = "rewarded" /\ pending' = row
      /\ UNCHANGED << events, session, lessons, opened >>
  BY DEF EvaluateChild, Busy
<1>2. IF Rewarded(o) THEN SelectorUpdate(o, won) ELSE UNCHANGED counts
  BY DEF EvaluateChild
<1>3. MemoryTypeOK /\ session \in Contexts
  BY <1>1 DEF MemoryInv, MemoryTypeOK
<1>4. Rewarded(o) <=> o \in Operators
  BY MemoryAssumption DEF Rewarded, Mutations
<1>5. FailureLabels(ev) \in Labellings
  <2>1. "NO_SIGNAL" \in FailureLabels(ev) => ev.trades = 0
    BY DEF FailureLabels
  <2>2. "NO_EDGE_UNDER_REALISTIC_COSTS" \in FailureLabels(ev) => ev.trades > 0
    BY DEF FailureLabels
  <2>3. ev.trades = 0 => ~(ev.trades > 0)
    OBVIOUS
  <2>4. FailureLabels(ev) \in SUBSET KnownLabels
    BY DEF FailureLabels
  <2> QED BY <2>1, <2>2, <2>3, <2>4 DEF Labellings
<1>6. row \in ChildRows
  BY <1>3, <1>5 DEF ChildRows
<1>7. PendingIsOurs'
  <2>1. pending'.context = session' /\ pending'.reward = reward /\ pending'.operator = o
    BY <1>1
  <2> QED BY <1>1, <1>4, <1>6, <2>1 DEF PendingIsOurs
<1>8. \A p \in Operators :
        counts'[p] = IF p # o \/ ~Rewarded(o) THEN counts[p]
                     ELSE IF won THEN [ok |-> counts[p].ok + 1, ko |-> counts[p].ko]
                          ELSE [ok |-> counts[p].ok, ko |-> counts[p].ko + 1]
  <2>1. counts \in [Operators -> Tallies]
    BY <1>3 DEF MemoryTypeOK
  <2>2. CASE ~Rewarded(o)
    BY <1>2, <2>2
  <2>3. CASE Rewarded(o) /\ won
    <3>1. counts' = [counts EXCEPT ![o].ok = @ + 1]
      BY <1>2, <1>4, <2>3 DEF SelectorUpdate
    <3> QED BY <1>4, <2>1, <2>3, <3>1 DEF Tallies
  <2>4. CASE Rewarded(o) /\ ~won
    <3>1. counts' = [counts EXCEPT ![o].ko = @ + 1]
      BY <1>2, <1>4, <2>4 DEF SelectorUpdate
    <3> QED BY <1>4, <2>1, <2>4, <3>1 DEF Tallies
  <2> QED BY <2>2, <2>3, <2>4
<1>9. counts' \in [Operators -> Tallies]
  <2>1. counts \in [Operators -> Tallies]
    BY <1>3 DEF MemoryTypeOK
  <2>2. DOMAIN counts' = Operators /\ counts' = [p \in Operators |-> counts'[p]]
    BY <1>2, <1>4, <2>1 DEF SelectorUpdate
  <2>3. ASSUME NEW p \in Operators PROVE counts'[p] \in Tallies
    <3>1. counts[p] \in Tallies /\ counts[p].ok \in Nat /\ counts[p].ko \in Nat
      BY <2>1 DEF Tallies
    <3>2. /\ [ok |-> counts[p].ok + 1, ko |-> counts[p].ko] \in Tallies
          /\ [ok |-> counts[p].ok, ko |-> counts[p].ko + 1] \in Tallies
      BY <3>1 DEF Tallies
    <3> QED BY <1>8, <3>1, <3>2
  <2> QED BY <2>2, <2>3
<1>10. MemoryTypeOK'
  BY <1>1, <1>3, <1>9 DEF MemoryTypeOK
<1>11. IndexAgrees'
  BY <1>1 DEF MemoryInv, IndexAgrees
<1> HIDE DEF row
<1>12. ASSUME NEW p \in Mutations PROVE Tally(p)'
  <2> DEFINE own == IF p \in Operators THEN counts[p] ELSE Zero
             mine == IF p \in Operators THEN counts'[p] ELSE Zero
             now == OperatorOutcomes(events)[session][p]
             was == opened[session][p]
             early == IF p = o THEN reward ELSE None
  <2>0. None # "won" /\ None # "lost" /\ None \notin Mutations
    BY MemoryAssumption
  <2>1. Tally(p)
    BY <1>1, TallyOfEach DEF MemoryInv
  <2>2. now \in Tallies /\ was \in Tallies /\ own \in Tallies
    BY <1>1, <1>3, TallyTypes
  <2>3. own.ok = now.ok - was.ok /\ own.ko = now.ko - was.ko
    <3>1. own.ok = now.ok - was.ok + 0 /\ own.ko = now.ko - was.ko + 0
      BY <1>1, <2>0, <2>1 DEF Tally
    <3>2. now.ok \in Nat /\ now.ko \in Nat /\ was.ok \in Nat /\ was.ko \in Nat
      BY <2>2 DEF Tallies
    <3> HIDE DEF now, was, own
    <3> QED BY <3>1, <3>2
  <2>5. /\ mine.ok = own.ok + (IF early = "won" THEN 1 ELSE 0)
        /\ mine.ko = own.ko + (IF early = "lost" THEN 1 ELSE 0)
    <3>1. own.ok + 0 = own.ok /\ own.ko + 0 = own.ko
      BY <2>2 DEF Tallies
    <3>2. CASE p \in Operators /\ p = o
      <4>1. CASE won
        <5>1. early = "won" /\ mine = [ok |-> own.ok + 1, ko |-> own.ko]
          BY <1>4, <1>8, <3>2, <4>1
        <5> HIDE DEF early, mine, own
        <5> QED BY <3>1, <5>1
      <4>2. CASE ~won
        <5>1. early = "lost" /\ mine = [ok |-> own.ok, ko |-> own.ko + 1]
          BY <1>4, <1>8, <3>2, <4>2
        <5> HIDE DEF early, mine, own
        <5> QED BY <3>1, <5>1
      <4> QED BY <4>1, <4>2
    <3>3. CASE p \notin Operators \/ p # o
      <4>1. early = None /\ mine = own
        BY <1>4, <1>8, <3>3
      <4> HIDE DEF early, mine, own
      <4> QED BY <2>0, <3>1, <4>1
    <3> QED BY <3>2, <3>3
  <2>6. pending'.operator = o /\ pending'.reward = reward
    BY <1>1 DEF row
  <2>7. OperatorOutcomes(events') = OperatorOutcomes(events)
    BY <1>1
  <2>8. early = IF step' = "rewarded" /\ pending'.operator = p THEN pending'.reward ELSE None
    BY <1>1, <2>6
  <2> HIDE DEF now, was, own, mine, early
  <2>9. /\ mine.ok = now.ok - was.ok + (IF early = "won" THEN 1 ELSE 0)
        /\ mine.ko = now.ko - was.ko + (IF early = "lost" THEN 1 ELSE 0)
    BY <2>3, <2>5
  <2> QED BY <1>1, <2>7, <2>8, <2>9 DEF Tally, now, was, mine
<1>13. SelectorIsTheLog'
  <2>1. session' # None => \A p \in Mutations : Tally(p)'
    BY <1>12
  <2> QED BY <2>1 DEF SelectorIsTheLog, Tally
<1> QED BY <1>7, <1>10, <1>11, <1>13 DEF MemoryInv

LEMMA RecordStep == ASSUME MemoryInv, RecordEvent PROVE MemoryInv'
<1>1. /\ step = "rewarded" /\ step' = "idle" /\ events' = Append(events, pending)
      /\ UNCHANGED << session, counts, lessons, opened >>
  BY DEF RecordEvent
<1>2. MemoryTypeOK /\ session # None /\ session \in Contexts
  BY <1>1 DEF MemoryInv, MemoryTypeOK
<1>3. /\ pending \in ChildRows /\ pending.context = session
      /\ pending.reward # None => pending.operator \in Operators
  BY <1>1 DEF MemoryInv, PendingIsOurs
<1>4. pending \in Rows /\ pending.kind = "candidate_evaluated"
  BY <1>3, RowKinds
<1>5. events \in Seq(Rows) /\ LessonsAreNew(events)
  BY <1>2 DEF MemoryTypeOK
<1>6. /\ events' \in Seq(Rows) /\ LessonsAreNew(events')
      /\ \A index : Describes(index, events, Len(events)) <=> Describes(index, events', Len(events))
  BY <1>1, <1>4, <1>5, AppendedLog
<1>7. MemoryTypeOK' /\ PendingIsOurs'
  BY <1>1, <1>2, <1>6 DEF MemoryTypeOK, PendingIsOurs
<1>8. Len(events) \in Nat /\ Len(events') = Len(events) + 1 /\ events'[Len(events) + 1] = pending
  BY <1>1, <1>4, <1>5
<1>9. IndexAgrees'
  <2>1. Describes(lessons, events', Len(events))
    BY <1>1, <1>2, <1>6 DEF MemoryInv, IndexAgrees
  <2>2. events'[Len(events) + 1].kind # "lesson_added"
    BY <1>4, <1>8
  <2>3. Describes(WithRow(lessons, events'[Len(events) + 1]), events', Len(events) + 1)
    BY <1>8, <2>1, <2>2, OtherRowsAreSilent
  <2>4. WithRow(lessons, events'[Len(events) + 1]) = lessons
    BY <2>2 DEF WithRow
  <2>5. Describes(lessons', events', Len(events'))
    BY <1>1, <1>8, <2>3, <2>4
  <2> QED BY <1>1, <2>5 DEF IndexAgrees
<1>10. ASSUME NEW p \in Mutations PROVE Tally(p)'
  <2> DEFINE own == IF p \in Operators THEN counts[p] ELSE Zero
             now == OperatorOutcomes(events)[session][p]
             new == OperatorOutcomes(events')[session][p]
             was == opened[session][p]
             early == IF pending.operator = p THEN pending.reward ELSE None
             won == IsOutcome(pending, session, p, TRUE)
             lost == IsOutcome(pending, session, p, FALSE)
  <2>1. Tally(p)
    BY <1>2, TallyOfEach DEF MemoryInv
  <2>2. now \in Tallies /\ was \in Tallies /\ own \in Tallies
    BY <1>2, TallyTypes
  <2>3. None # "won" /\ None # "lost" /\ None \notin Mutations
    BY MemoryAssumption
  <2>4. /\ own.ok = now.ok - was.ok + (IF early = "won" THEN 1 ELSE 0)
        /\ own.ko = now.ko - was.ko + (IF early = "lost" THEN 1 ELSE 0)
    BY <1>1, <2>1 DEF Tally
  <2>5. /\ now = [ok |-> Cardinality(Outcomes(events, session, p, TRUE)),
                  ko |-> Cardinality(Outcomes(events, session, p, FALSE))]
        /\ new = [ok |-> Cardinality(Outcomes(events', session, p, TRUE)),
                  ko |-> Cardinality(Outcomes(events', session, p, FALSE))]
    BY <1>2, <1>5, <1>6, OutcomesType
  <2>6. /\ Cardinality(Outcomes(events', session, p, TRUE))
             = Cardinality(Outcomes(events, session, p, TRUE)) + (IF won THEN 1 ELSE 0)
        /\ Cardinality(Outcomes(events', session, p, FALSE))
             = Cardinality(Outcomes(events, session, p, FALSE)) + (IF lost THEN 1 ELSE 0)
    BY <1>1, <1>4, <1>5, OneMoreOutcome
  <2>7. won <=> early = "won"
    BY <1>3, <1>4, <2>3 DEF IsOutcome, Decided
  <2>8. lost <=> early = "lost"
    <3>1. pending.reward \in {"won", "lost", None}
      BY <1>3 DEF ChildRows
    <3> QED BY <1>3, <1>4, <2>3, <3>1 DEF IsOutcome, Decided
  <2>9. /\ new.ok = now.ok + (IF early = "won" THEN 1 ELSE 0)
        /\ new.ko = now.ko + (IF early = "lost" THEN 1 ELSE 0)
    <3> HIDE DEF now, new, won, lost, early
    <3>1. /\ new.ok = Cardinality(Outcomes(events', session, p, TRUE))
          /\ new.ko = Cardinality(Outcomes(events', session, p, FALSE))
          /\ now.ok = Cardinality(Outcomes(events, session, p, TRUE))
          /\ now.ko = Cardinality(Outcomes(events, session, p, FALSE))
      BY <2>5
    <3> QED BY <2>6, <2>7, <2>8, <3>1
  <2>10. /\ now.ok \in Nat /\ now.ko \in Nat /\ was.ok \in Nat /\ was.ko \in Nat
    BY <2>2 DEF Tallies
  <2>11. (IF step' = "rewarded" /\ pending'.operator = p THEN pending'.reward ELSE None) = None
    BY <1>1
  <2> HIDE DEF now, was, own, new, early
  <2>12. own.ok = new.ok - was.ok + 0 /\ own.ko = new.ko - was.ko + 0
    BY <2>4, <2>9, <2>10
  <2> QED BY <1>1, <2>3, <2>11, <2>12 DEF Tally, new, was, own
<1>11. SelectorIsTheLog'
  <2>1. session' # None => \A p \in Mutations : Tally(p)'
    BY <1>10
  <2> QED BY <2>1 DEF SelectorIsTheLog, Tally
<1> QED BY <1>7, <1>9, <1>11 DEF MemoryInv

\* A lesson in the log is an outcome of nothing.
LEMMA LessonsAreNoOutcomes ==
  ASSUME MemoryInv, session # None, step = "idle", step' # "rewarded",
         NEW e \in LessonRows, events' = Append(events, e), events' \in Seq(Rows),
         UNCHANGED << session, counts, opened >>
  PROVE  SelectorIsTheLog'
<1>1. MemoryTypeOK /\ session \in Contexts /\ events \in Seq(Rows)
  BY DEF MemoryInv, MemoryTypeOK
<1>2. e \in Rows /\ e.kind = "lesson_added"
  BY RowKinds
<1>3. ASSUME NEW p \in Mutations PROVE Tally(p)'
  <2>1. Tally(p)
    BY TallyOfEach DEF MemoryInv
  <2>2. \A won \in BOOLEAN : Cardinality(Outcomes(events', session, p, won))
                               = Cardinality(Outcomes(events, session, p, won))
    <3> SUFFICES ASSUME NEW won \in BOOLEAN
                 PROVE  Cardinality(Outcomes(events', session, p, won))
                          = Cardinality(Outcomes(events, session, p, won))
      OBVIOUS
    <3>1. ~IsOutcome(e, session, p, won)
      BY <1>2 DEF IsOutcome
    <3>2. /\ Cardinality(Outcomes(events, session, p, won)) \in Nat
          /\ Cardinality(Outcomes(events', session, p, won))
               = Cardinality(Outcomes(events, session, p, won))
                   + (IF IsOutcome(e, session, p, won) THEN 1 ELSE 0)
      BY <1>1, <1>2, OneMoreOutcome
    <3> QED BY <3>1, <3>2
  <2>3. OperatorOutcomes(events')[session][p] = OperatorOutcomes(events)[session][p]
    BY <1>1, <2>2, OutcomesType
  <2>4. /\ (IF step' = "rewarded" /\ pending'.operator = p THEN pending'.reward ELSE None) = None
        /\ (IF step = "rewarded" /\ pending.operator = p THEN pending.reward ELSE None) = None
    OBVIOUS
  <2> QED BY <2>1, <2>3, <2>4 DEF Tally
<1>4. session' # None => \A p \in Mutations : Tally(p)'
  BY <1>3
<1> QED BY <1>4 DEF SelectorIsTheLog, Tally

LEMMA LearnStep ==
  ASSUME MemoryInv, NEW l \in LessonIds, NEW confidence \in Confidences,
         NEW contexts \in SUBSET Contexts, NEW s \in DOMAIN lessons \cup {None},
         Learn(l, confidence, contexts, s)
  PROVE  MemoryInv'
<1> DEFINE row == [kind |-> "lesson_added", lesson |-> l, confidence |-> confidence,
                   contexts |-> contexts, supersedes |-> s]
           n == Len(events)
<1>1. /\ session # None /\ step = "idle" /\ step' = "logged"
      /\ \A i \in DOMAIN events : events[i].kind = "lesson_added" => events[i].lesson # l
      /\ pending' = row /\ events' = Append(events, row)
      /\ UNCHANGED << session, counts, lessons, opened >>
  BY DEF Learn
<1>2. MemoryTypeOK /\ events \in Seq(Rows) /\ LessonsAreNew(events)
  BY DEF MemoryInv, MemoryTypeOK
<1>3. Describes(lessons, events, n)
  BY <1>1 DEF MemoryInv, IndexAgrees
<1>4. s # None => \E j \in LessonsUpTo(events, n) : events[j].lesson = s
  BY <1>3 DEF Describes
<1>5. DOMAIN events = 1 .. n /\ n \in Nat
  BY <1>2
<1>6. \A j \in LessonsUpTo(events, n) :
        /\ events[j] \in LessonRows /\ events[j].lesson \in LessonIds /\ events[j].lesson # l
  <2> TAKE j \in LessonsUpTo(events, n)
  <2>1. j \in DOMAIN events /\ events[j].kind = "lesson_added" /\ events[j] \in Rows
    BY <1>2, <1>5 DEF LessonsUpTo
  <2>2. events[j] \in LessonRows
    BY <2>1, RowKinds
  <2> QED BY <1>1, <2>1, <2>2, RowKinds
<1>7. s \in LessonIds \cup {None}
  BY <1>4, <1>6
<1>8. row \in LessonRows
  BY <1>7 DEF LessonRows
<1>9. row \in Rows /\ row.kind = "lesson_added" /\ row.lesson = l /\ row.supersedes = s
  BY <1>8, RowKinds
<1> HIDE DEF row
<1>10. /\ events' \in Seq(Rows) /\ LessonsAreNew(events')
       /\ \A index : Describes(index, events, n) <=> Describes(index, events', n)
  BY <1>1, <1>2, <1>4, <1>6, <1>9, AppendedLog
<1>11. Len(events') = n + 1 /\ events'[n + 1] = row
  BY <1>1, <1>2, <1>5, <1>9
<1>12. MemoryTypeOK' /\ PendingIsOurs'
  BY <1>1, <1>2, <1>10 DEF MemoryTypeOK, PendingIsOurs
<1>13. IndexAgrees'
  <2>1. (n + 1) - 1 = n /\ n + 1 >= 1
    BY <1>5
  <2> HIDE DEF n
  <2> QED BY <1>1, <1>3, <1>9, <1>10, <1>11, <2>1 DEF IndexAgrees
<1>14. SelectorIsTheLog'
  BY <1>1, <1>8, <1>10, LessonsAreNoOutcomes
<1> QED BY <1>12, <1>13, <1>14 DEF MemoryInv

LEMMA IndexStep == ASSUME MemoryInv, IndexLesson PROVE MemoryInv'
<1> DEFINE n == Len(events) - 1
<1>1. /\ step = "logged" /\ step' = "idle" /\ lessons' = WithLesson(lessons, pending)
      /\ UNCHANGED << events, session, counts, opened >>
  BY DEF IndexLesson
<1>2. MemoryTypeOK /\ events \in Seq(Rows) /\ LessonsAreNew(events) /\ session # None
  BY <1>1 DEF MemoryInv, MemoryTypeOK
<1>3. /\ Len(events) >= 1 /\ pending = events[Len(events)] /\ pending.kind = "lesson_added"
      /\ Describes(lessons, events, n)
  BY <1>1, <1>2 DEF MemoryInv, IndexAgrees
<1>4. n \in Nat /\ n + 1 = Len(events) /\ n + 1 \in DOMAIN events
  BY <1>2, <1>3
<1> HIDE DEF n
<1>5. Describes(WithRow(lessons, events[n + 1]), events, n + 1)
  BY <1>2, <1>3, <1>4, LessonsJoin
<1>6. WithRow(lessons, events[n + 1]) = lessons'
  BY <1>1, <1>3, <1>4 DEF WithRow
<1>7. IndexAgrees'
  BY <1>1, <1>4, <1>5, <1>6 DEF IndexAgrees
<1>8. MemoryTypeOK' /\ PendingIsOurs'
  BY <1>1, <1>2 DEF MemoryTypeOK, PendingIsOurs
<1>9. SelectorIsTheLog'
  <2>1. SelectorIsTheLog /\ step # "rewarded" /\ step' # "rewarded"
    BY <1>1 DEF MemoryInv
  <2> QED BY <1>1, <2>1 DEF SelectorIsTheLog
<1> QED BY <1>7, <1>8, <1>9 DEF MemoryInv

LEMMA EndStep == ASSUME MemoryInv, EndSession PROVE MemoryInv'
<1>1. /\ session' = None /\ step' = "idle" /\ counts' = [o \in Operators |-> Zero]
      /\ opened' = NoOutcomes /\ UNCHANGED events
  BY DEF EndSession
<1>2. MemoryTypeOK
  BY DEF MemoryInv
<1>3. Zero \in Tallies
  BY DEF Zero, Tallies
<1>4. NoOutcomes \in [Contexts -> [Mutations -> Tallies]] /\ counts' \in [Operators -> Tallies]
  BY <1>1, <1>3 DEF NoOutcomes
<1>5. MemoryTypeOK'
  BY <1>1, <1>2, <1>4 DEF MemoryTypeOK
<1>6. PendingIsOurs' /\ IndexAgrees' /\ SelectorIsTheLog'
  BY <1>1 DEF PendingIsOurs, IndexAgrees, SelectorIsTheLog
<1> QED BY <1>5, <1>6 DEF MemoryInv

LEMMA MemoryStep == MemoryInv /\ [MemoryNext]_memoryVars => MemoryInv'
<1> SUFFICES ASSUME MemoryInv, [MemoryNext]_memoryVars PROVE MemoryInv'
  OBVIOUS
<1>1. ASSUME NEW c \in Contexts, Open(c) PROVE MemoryInv'
  BY <1>1, OpenStep
<1>2. ASSUME NEW o \in Mutations \cup {None}, NEW ev \in Evaluations, NEW won \in BOOLEAN,
             EvaluateChild(o, ev, won)
      PROVE  MemoryInv'
  BY <1>2, EvaluateStep
<1>3. CASE RecordEvent
  BY <1>3, RecordStep
<1>4. ASSUME NEW l \in LessonIds, NEW confidence \in Confidences, NEW contexts \in SUBSET Contexts,
             NEW s \in DOMAIN lessons \cup {None}, Learn(l, confidence, contexts, s)
      PROVE  MemoryInv'
  BY <1>4, LearnStep
<1>5. CASE IndexLesson
  BY <1>5, IndexStep
<1>6. CASE EndSession
  BY <1>6, EndStep
<1>7. CASE UNCHANGED memoryVars
  BY <1>7 DEF memoryVars, MemoryInv, MemoryTypeOK, PendingIsOurs, IndexAgrees, SelectorIsTheLog
<1> QED BY <1>1, <1>2, <1>3, <1>4, <1>5, <1>6, <1>7 DEF MemoryNext

-----------------------------------------------------------------------------
(* The memory: what the index and the digest say.                          *)

LEMMA LessonsOfTheLog ==
  ASSUME MemoryInv, session # None, step # "logged"
  PROVE  /\ IndexIsTheLog
         /\ DOMAIN lessons = { events[i].lesson : i \in LessonEvents }
         /\ \A i \in LessonEvents :
              /\ events[i] \in LessonRows
              /\ lessons[events[i].lesson].said = events[i]
              /\ lessons[events[i].lesson].active = (Superseding(i) = {})
<1> DEFINE n == Len(events)
<1>1. /\ events \in Seq(Rows) /\ DOMAIN events = 1 .. n
      /\ \A i \in DOMAIN events : events[i] \in Rows
  BY DEF MemoryInv, MemoryTypeOK
<1>2. LessonsUpTo(events, n) = LessonEvents
  BY <1>1 DEF LessonsUpTo, LessonEvents
<1>3. \A i : Retiring(events, n, i) = Superseding(i)
  BY <1>2 DEF Retiring, Superseding
<1>4. Describes(lessons, events, n)
  BY DEF MemoryInv, IndexAgrees
<1> HIDE DEF n
<1>5. ASSUME NEW i \in LessonEvents
      PROVE  /\ events[i] \in LessonRows
             /\ lessons[events[i].lesson] =
                  [said |-> events[i], active |-> Superseding(i) = {},
                   by |-> IF Superseding(i) = {} THEN None ELSE events[Max(Superseding(i))].lesson]
  <2>1. events[i] \in Rows /\ events[i].kind = "lesson_added"
    BY <1>1 DEF LessonEvents
  <2>2. events[i] \in LessonRows
    BY <2>1, RowKinds
  <2>3. lessons[events[i].lesson] = EntryOf(events, n, i)
    BY <1>2, <1>4 DEF Describes
  <2> QED BY <1>3, <2>2, <2>3 DEF EntryOf
<1>6. DOMAIN lessons = { events[i].lesson : i \in LessonEvents }
  BY <1>2, <1>4 DEF Describes
<1>7. IndexIsTheLog
  BY <1>5, <1>6 DEF IndexIsTheLog
<1>8. ASSUME NEW i \in LessonEvents
      PROVE  /\ lessons[events[i].lesson].said = events[i]
             /\ lessons[events[i].lesson].active = (Superseding(i) = {})
  <2> DEFINE a == Superseding(i) = {}
             b == IF Superseding(i) = {} THEN None ELSE events[Max(Superseding(i))].lesson
  <2>1. lessons[events[i].lesson] = [said |-> events[i], active |-> a, by |-> b]
    BY <1>5
  <2> HIDE DEF a, b
  <2>2. lessons[events[i].lesson].said = events[i] /\ lessons[events[i].lesson].active = a
    BY <2>1
  <2> QED BY <2>2 DEF a
<1> QED BY <1>5, <1>6, <1>7, <1>8

LiveIds(c) ==
  { events[i].lesson : i \in { i \in LessonEvents : Superseding(i) = {} /\ c \in events[i].contexts } }

BetterPairs == { p \in LessonIds \X LessonIds : Better(p[1], p[2]) }

\* The lessons of a context are finitely many and in order.
LEMMA HitsInOrder ==
  ASSUME MemoryInv, session # None, step = "idle", NEW c \in Contexts
  PROVE  /\ Hits(c) = LiveIds(c) /\ IsFiniteSet(Hits(c))
         /\ \A l, m \in Hits(c) : << l, m >> \in BetterPairs <=> Better(l, m)
         /\ IsOrder(BetterPairs, Hits(c))
<1>1. /\ DOMAIN lessons = { events[i].lesson : i \in LessonEvents }
      /\ \A i \in LessonEvents :
           /\ events[i] \in LessonRows
           /\ lessons[events[i].lesson].said = events[i]
           /\ lessons[events[i].lesson].active = (Superseding(i) = {})
  BY LessonsOfTheLog
<1>2. Hits(c) = LiveIds(c)
  <2>1. ASSUME NEW i \in LessonEvents
        PROVE  events[i].lesson \in Hits(c) <=> Superseding(i) = {} /\ c \in events[i].contexts
    BY <1>1 DEF Hits
  <2>2. \A l \in Hits(c) : \E i \in LessonEvents : l = events[i].lesson
    BY <1>1 DEF Hits
  <2> QED BY <2>1, <2>2 DEF LiveIds
<1>3. IsFiniteSet(Hits(c))
  <2> DEFINE L == { i \in LessonEvents : Superseding(i) = {} /\ c \in events[i].contexts }
             f == [i \in L |-> events[i].lesson]
  <2>1. IsFiniteSet(L)
    <3>1. L \in SUBSET DOMAIN events /\ events \in Seq(Rows)
      BY DEF LessonEvents, MemoryInv, MemoryTypeOK
    <3> QED BY <3>1, LogIsFinite
  <2>2. f \in Surjection(L, Hits(c))
    <3>1. Hits(c) = { events[i].lesson : i \in L }
      BY <1>2 DEF LiveIds
    <3> HIDE DEF L
    <3> QED BY <3>1 DEF Surjection
  <2> QED BY <2>1, <2>2, FS_Surjection
<1>4. \A l \in Hits(c) : l \in Nat /\ l \in LessonIds /\ lessons[l].said.confidence \in Nat
  <2> SUFFICES ASSUME NEW l \in Hits(c)
               PROVE  l \in Nat /\ l \in LessonIds /\ lessons[l].said.confidence \in Nat
    OBVIOUS
  <2>1. PICK i \in LessonEvents : l = events[i].lesson
    BY <1>2 DEF LiveIds
  <2>2. /\ events[i] \in LessonRows /\ events[i].lesson \in LessonIds
        /\ events[i].confidence \in Confidences
    BY <1>1 DEF LessonRows
  <2>3. lessons[l].said = events[i]
    BY <1>1, <2>1
  <2> QED BY <2>1, <2>2, <2>3, MemoryAssumption
<1>5. \A l, m \in Hits(c) : << l, m >> \in BetterPairs <=> Better(l, m)
  BY <1>4 DEF BetterPairs
<1>6. IsOrder(BetterPairs, Hits(c))
  <2> DEFINE H == Hits(c)
             conf(l) == lessons[l].said.confidence
  <2>1. \A l \in H : l \in Nat /\ conf(l) \in Nat
    BY <1>4
  <2>2. ASSUME NEW l \in H, NEW m \in H
        PROVE  (<< l, m >> \in BetterPairs) = (conf(l) > conf(m) \/ (conf(l) = conf(m) /\ l < m))
    <3>1. << l, m >> \in BetterPairs <=> Better(l, m)
      BY <1>5
    <3>2. Better(l, m) <=> conf(l) > conf(m) \/ (conf(l) = conf(m) /\ l < m)
      BY DEF Better
    <3> HIDE DEF conf, H
    <3> QED BY <3>1, <3>2
  <2> HIDE DEF H, conf
  <2>3. \A x, y, z \in H : << x, y >> \in BetterPairs /\ << y, z >> \in BetterPairs
                             => << x, z >> \in BetterPairs
    <3> TAKE x, y, z \in H
    <3> QED BY <2>1, <2>2
  <2>4. \A x \in H : << x, x >> \notin BetterPairs
    BY <2>1, <2>2
  <2>5. \A x, y \in H : x # y => << x, y >> \in BetterPairs \/ << y, x >> \in BetterPairs
    BY <2>1, <2>2
  <2> QED BY <2>3, <2>4, <2>5 DEF IsOrder, H
<1> QED BY <1>2, <1>3, <1>5, <1>6

\* The better hits of one are those below it.
LEMMA RankOfHit ==
  ASSUME MemoryInv, session # None, step = "idle", NEW c \in Contexts, NEW l \in Hits(c)
  PROVE  { m \in Hits(c) : Better(m, l) } = Below(BetterPairs, Hits(c), l)
BY HitsInOrder DEF Below

\* What the digest tells: the hits of rank 0, 1, ... up to the cut.
LEMMA ToldByRank ==
  ASSUME MemoryInv, session # None, step = "idle", NEW c \in Contexts
  PROVE  LET H == Hits(c)
             told == ActiveForContext(c)
             n == Min({MaxLessons, Cardinality(H)})
         IN /\ n \in Nat /\ n <= Cardinality(H)
            /\ told \in [1 .. n -> H]
            /\ \A k \in 1 .. n : Cardinality(Below(BetterPairs, H, told[k])) = k - 1
<1> DEFINE H == Hits(c)
           told == ActiveForContext(c)
           n == Min({MaxLessons, Cardinality(H)})
           rank(l) == Cardinality(Below(BetterPairs, H, l))
           choice(k) == CHOOSE l \in H : Cardinality({ m \in H : Better(m, l) }) = k - 1
<1>1. IsFiniteSet(H) /\ IsOrder(BetterPairs, H)
  BY HitsInOrder
<1>2. Cardinality(H) \in Nat /\ MaxLessons \in Nat
  BY <1>1, FS_CardinalityType, MemoryAssumption
<1>3. n \in Nat /\ n <= Cardinality(H)
  <2> DEFINE a == MaxLessons
             b == Cardinality(H)
  <2>1. a \in Nat /\ b \in Nat
    BY <1>2
  <2> HIDE DEF a, b
  <2>2. \E x \in {a, b} : \A y \in {a, b} : x <= y
    BY <2>1
  <2>3. Min({a, b}) \in {a, b} /\ \A y \in {a, b} : Min({a, b}) <= y
    BY <2>2 DEF Min
  <2> QED BY <2>1, <2>3 DEF a, b
<1>4. told = [k \in 1 .. n |-> choice(k)]
  BY DEF ActiveForContext
<1>5. \A l \in H : Cardinality({ m \in H : Better(m, l) }) = rank(l)
  BY RankOfHit
<1>6. \A k \in 0 .. Cardinality(H) - 1 : \E l \in H : rank(l) = k
  BY <1>1, Ranks
<1> HIDE DEF H, told, n, rank
<1>7. ASSUME NEW k \in 1 .. n PROVE told[k] \in H /\ rank(told[k]) = k - 1
  <2>1. k - 1 \in 0 .. Cardinality(H) - 1
    BY <1>2, <1>3
  <2>2. \E l \in H : Cardinality({ m \in H : Better(m, l) }) = k - 1
    BY <1>5, <1>6, <2>1
  <2>3. choice(k) \in H /\ Cardinality({ m \in H : Better(m, choice(k)) }) = k - 1
    BY <2>2
  <2> HIDE DEF choice
  <2>4. told[k] = choice(k)
    BY <1>4
  <2> QED BY <1>5, <2>3, <2>4
<1>8. told \in [1 .. n -> H]
  <2> HIDE DEF choice
  <2>1. told = [k \in 1 .. n |-> told[k]]
    BY <1>4
  <2> QED BY <1>7, <2>1
<1> QED BY <1>3, <1>7, <1>8 DEF H, told, n, rank

LEMMA LabelsAreFinite == IsFiniteSet(KnownLabels)
<1>1. /\ IsFiniteSet({"NO_SIGNAL", "INSUFFICIENT_TRADES"})
      /\ IsFiniteSet({"OVERFIRE", "FOLD_INSTABILITY"})
      /\ IsFiniteSet({"STOP_GAP_RISK", "NO_EDGE_UNDER_REALISTIC_COSTS"})
      /\ IsFiniteSet({"EXCESS_COMPLEXITY"})
  <2>1. ASSUME NEW x, NEW y PROVE IsFiniteSet({x, y})
    <3>1. {x, y} = {x} \cup {y}
      OBVIOUS
    <3>2. IsFiniteSet({x}) /\ IsFiniteSet({y})
      BY FS_Singleton, Zenon
    <3>3. IsFiniteSet({x} \cup {y})
      BY <3>2, FS_Union
    <3> QED BY <3>1, <3>3
  <2> QED BY <2>1, FS_Singleton
<1>2. KnownLabels = (({"NO_SIGNAL", "INSUFFICIENT_TRADES"} \cup {"OVERFIRE", "FOLD_INSTABILITY"})
                       \cup {"STOP_GAP_RISK", "NO_EDGE_UNDER_REALISTIC_COSTS"})
                    \cup {"EXCESS_COMPLEXITY"}
  BY DEF KnownLabels
<1> QED BY <1>1, <1>2, FS_Union

\* A candidate is counted as silent or as losing, not as both.
LEMMA LabelsAreCountedOnce ==
  ASSUME events \in Seq(Rows), NEW c
  PROVE  FailureLabelCounts(events, c)["NO_SIGNAL"]
           + FailureLabelCounts(events, c)["NO_EDGE_UNDER_REALISTIC_COSTS"]
         <= Cardinality({ i \in Candidates(events) : events[i].context = c })
<1> DEFINE C == { i \in Candidates(events) : events[i].context = c }
           silent == { i \in C : "NO_SIGNAL" \in events[i].labels }
           losing == { i \in C : "NO_EDGE_UNDER_REALISTIC_COSTS" \in events[i].labels }
<1>1. /\ FailureLabelCounts(events, c)["NO_SIGNAL"] = Cardinality(silent)
      /\ FailureLabelCounts(events, c)["NO_EDGE_UNDER_REALISTIC_COSTS"] = Cardinality(losing)
  <2>1. /\ "NO_SIGNAL" \in KnownLabels /\ "NO_EDGE_UNDER_REALISTIC_COSTS" \in KnownLabels
    BY DEF KnownLabels
  <2>2. \A l \in KnownLabels : FailureLabelCounts(events, c)[l]
          = Cardinality({ i \in Candidates(events) : events[i].context = c /\ l \in events[i].labels })
    BY DEF FailureLabelCounts
  <2>3. \A l : { i \in Candidates(events) : events[i].context = c /\ l \in events[i].labels }
               = { i \in C : l \in events[i].labels }
    OBVIOUS
  <2> HIDE DEF C
  <2> QED BY <2>1, <2>2, <2>3
<1>2. C \in SUBSET DOMAIN events
  BY DEF Candidates
<1>3. silent \cap losing = {}
  <2> SUFFICES ASSUME NEW i \in silent \cap losing PROVE FALSE
    OBVIOUS
  <2>1. events[i] \in Rows /\ events[i].kind = "candidate_evaluated"
    BY <1>2 DEF Candidates
  <2>2. events[i] \in ChildRows
    BY <2>1, RowKinds
  <2>3. events[i].labels \in Labellings
    BY <2>2 DEF ChildRows
  <2> QED BY <2>3 DEF Labellings
<1> HIDE DEF C
<1>4. silent \in SUBSET C /\ losing \in SUBSET C /\ silent \cup losing \in SUBSET C
  OBVIOUS
<1> HIDE DEF silent, losing
<1>5. IsFiniteSet(C) /\ Cardinality(C) \in Nat
  BY <1>2, LogIsFinite
<1>6. /\ IsFiniteSet(silent) /\ Cardinality(silent) \in Nat
      /\ IsFiniteSet(losing) /\ Cardinality(losing) \in Nat
  BY <1>4, <1>5, FS_Subset, FS_CardinalityType
<1>7. Cardinality(silent \cup losing) = Cardinality(silent) + Cardinality(losing)
  <2>1. Cardinality(silent \cup losing)
          = Cardinality(silent) + Cardinality(losing) - Cardinality(silent \cap losing)
    BY <1>6, FS_Union
  <2>2. Cardinality(silent \cap losing) = 0
    BY <1>3, FS_EmptySet
  <2> QED BY <1>6, <2>1, <2>2
<1>8. Cardinality(silent \cup losing) <= Cardinality(C)
  BY <1>4, <1>5, FS_Subset
<1> QED BY <1>1, <1>7, <1>8 DEF C

\* A label that outweighs one that is cut off is cut off for as many others.
LEMMA NoneMoreFrequent ==
  ASSUME NEW c, NEW l \in TopFailures(events, c), NEW m \in KnownLabels \ TopFailures(events, c),
         events \in Seq(Rows)
  PROVE  FailureLabelCounts(events, c)[m] <= FailureLabelCounts(events, c)[l]
<1> DEFINE counted == FailureLabelCounts(events, c)
           above(x) == { n \in KnownLabels : Outweighs(events, c, n, x) }
<1>1. \A x \in KnownLabels : counted[x] \in Nat
  <2> SUFFICES ASSUME NEW x \in KnownLabels PROVE counted[x] \in Nat
    OBVIOUS
  <2> DEFINE rows == { i \in Candidates(events) : events[i].context = c /\ x \in events[i].labels }
  <2>1. counted[x] = Cardinality(rows)
    BY DEF FailureLabelCounts
  <2>2. rows \in SUBSET DOMAIN events
    BY DEF Candidates
  <2> HIDE DEF rows, counted
  <2> QED BY <2>1, <2>2, LogIsFinite
<1>2. SUFFICES ASSUME counted[m] > counted[l] PROVE FALSE
  BY <1>1 DEF TopFailures
<1>3. l \in KnownLabels /\ m \in KnownLabels /\ counted[l] > 0 /\ Cardinality(above(l)) < MaxFailureLabels
  BY DEF TopFailures
<1>4. ~(Cardinality(above(m)) < MaxFailureLabels)
  <2>1. counted[m] > 0
    BY <1>1, <1>2, <1>3
  <2> QED BY <2>1, <1>3 DEF TopFailures
<1>5. above(m) \subseteq above(l)
  <2> SUFFICES ASSUME NEW n \in KnownLabels, Outweighs(events, c, n, m)
               PROVE  Outweighs(events, c, n, l)
    OBVIOUS
  <2>1. counted[n] > counted[m] \/ counted[n] = counted[m]
    BY DEF Outweighs
  <2>2. counted[n] > counted[l]
    <3> HIDE DEF counted
    <3> QED BY <1>1, <1>2, <1>3, <2>1
  <2> QED BY <2>2 DEF Outweighs
<1>6. IsFiniteSet(above(l)) /\ IsFiniteSet(above(m))
  BY LabelsAreFinite, FS_Subset
<1>7. Cardinality(above(m)) <= Cardinality(above(l))
  BY <1>5, <1>6, FS_Subset
<1>8. Cardinality(above(m)) \in Nat /\ Cardinality(above(l)) \in Nat
  BY <1>6, FS_CardinalityType
<1> HIDE DEF above, counted
<1> QED BY <1>3, <1>4, <1>7, <1>8, MemoryAssumption

LEMMA DigestTells == MemoryInv => DigestIsCurrent
<1> SUFFICES ASSUME MemoryInv, session # None, step = "idle", NEW c \in Contexts
             PROVE  LET digest == Digest(c)
                        told == digest.lessons
                        failures == DOMAIN digest.failures
                        counted == FailureLabelCounts(events, c)
                        live == { i \in LessonEvents : Superseding(i) = {} /\ c \in events[i].contexts }
                        ids == { events[i].lesson : i \in live }
                    IN /\ ToSet(told) \subseteq ids
                       /\ Len(told) = Min({MaxLessons, Cardinality(ids)})
                       /\ \A k \in DOMAIN told : \A l \in ids \ ToSet(SubSeq(told, 1, k)) : Better(told[k], l)
                       /\ \A l \in failures, m \in KnownLabels \ failures : counted[m] <= counted[l]
                       /\ {"NO_SIGNAL", "NO_EDGE_UNDER_REALISTIC_COSTS"} \subseteq failures =>
                            digest.failures["NO_SIGNAL"]
                                + digest.failures["NO_EDGE_UNDER_REALISTIC_COSTS"]
                              <= Cardinality({ i \in Candidates(events) : events[i].context = c })
  BY DEF DigestIsCurrent
<1> DEFINE H == Hits(c)
           told == ActiveForContext(c)
           n == Min({MaxLessons, Cardinality(H)})
           rank(l) == Cardinality(Below(BetterPairs, H, l))
           F == TopFailures(events, c)
           counted == FailureLabelCounts(events, c)
<1>1. Digest(c).lessons = told /\ Digest(c).failures = [l \in F |-> counted[l]]
  BY DEF Digest
<1>2. LiveIds(c) = H /\ IsFiniteSet(H) /\ IsOrder(BetterPairs, H)
      /\ \A l, m \in H : << l, m >> \in BetterPairs <=> Better(l, m)
  BY HitsInOrder
<1>3. /\ n \in Nat /\ n <= Cardinality(H) /\ told \in [1 .. n -> H]
      /\ \A k \in 1 .. n : rank(told[k]) = k - 1
  BY ToldByRank
<1>4. /\ \A l \in H : rank(l) \in 0 .. Cardinality(H) - 1
      /\ \A l, m \in H : rank(l) < rank(m) <=> << l, m >> \in BetterPairs
  BY <1>2, Ranks
<1>5. Cardinality(H) \in Nat
  BY <1>2, FS_CardinalityType
<1>6. events \in Seq(Rows)
  BY DEF MemoryInv, MemoryTypeOK
<1>7. /\ DOMAIN Digest(c).failures = F
      /\ \A l \in F, m \in KnownLabels \ F : counted[m] <= counted[l]
      /\ {"NO_SIGNAL", "NO_EDGE_UNDER_REALISTIC_COSTS"} \subseteq F =>
           Digest(c).failures["NO_SIGNAL"] + Digest(c).failures["NO_EDGE_UNDER_REALISTIC_COSTS"]
             <= Cardinality({ i \in Candidates(events) : events[i].context = c })
  <2>1. \A l \in F, m \in KnownLabels \ F : counted[m] <= counted[l]
    BY <1>6, NoneMoreFrequent
  <2>2. \A l \in F : Digest(c).failures[l] = counted[l]
    BY <1>1
  <2>3. counted["NO_SIGNAL"] + counted["NO_EDGE_UNDER_REALISTIC_COSTS"]
          <= Cardinality({ i \in Candidates(events) : events[i].context = c })
    BY <1>6, LabelsAreCountedOnce
  <2> HIDE DEF F, counted
  <2> QED BY <1>1, <2>1, <2>2, <2>3
<1>8. LiveIds(c) = { events[i].lesson : i \in { i \in LessonEvents : Superseding(i) = {} /\ c \in events[i].contexts } }
  BY DEF LiveIds
<1> HIDE DEF H, told, rank, n, F, counted
<1>9. ToSet(told) \subseteq H /\ Len(told) = n /\ DOMAIN told = 1 .. n
  BY <1>3 DEF ToSet
<1>10. ASSUME NEW k \in DOMAIN told, NEW l \in H, l \notin ToSet(SubSeq(told, 1, k))
       PROVE  Better(told[k], l)
  <2>1. k \in 1 .. n /\ told[k] \in H /\ rank(told[k]) = k - 1
    BY <1>3, <1>9
  <2>2. \A j \in 1 .. k : told[j] \in ToSet(SubSeq(told, 1, k))
    <3>1. told \in Seq(H)
      BY <1>3
    <3>2. SubSeq(told, 1, k) = [j \in 1 .. k |-> told[j]]
      BY <1>9, <2>1, <3>1
    <3> QED BY <3>2 DEF ToSet
  <2>3. rank(l) \in Nat
    BY <1>4, <1>5
  <2>4. ~(rank(l) < k)
    <3> SUFFICES ASSUME rank(l) < k PROVE FALSE
      OBVIOUS
    <3> DEFINE j == rank(l) + 1
    <3>1. j \in 1 .. k /\ j \in 1 .. n /\ j - 1 = rank(l)
      BY <1>3, <2>1, <2>3
    <3> HIDE DEF j
    <3>2. told[j] \in H /\ rank(told[j]) = rank(l)
      BY <1>3, <3>1
    <3>3. told[j] # l
      BY <1>10, <2>2, <3>1
    <3>4. rank(told[j]) < rank(l) \/ rank(l) < rank(told[j])
      BY <1>2, <1>4, <3>2, <3>3 DEF IsOrder
    <3> QED BY <2>3, <3>2, <3>4
  <2>5. rank(told[k]) < rank(l)
    BY <2>1, <2>3, <2>4
  <2> QED BY <1>2, <1>4, <2>1, <2>5
<1> QED BY <1>1, <1>2, <1>7, <1>8, <1>9, <1>10 DEF n, H, F, counted

\* What a session's selector, index and digest say is what the log says,
\* whatever operations came before and wherever the process died.
THEOREM MemoryAlwaysRebuilt == MemorySpec => []MemoryIsRebuilt
<1>1. MemoryInv => MemoryIsRebuilt
  <2>1. ASSUME MemoryInv PROVE IndexIsTheLog
    BY <2>1, LessonsOfTheLog DEF IndexIsTheLog
  <2> QED BY <2>1, DigestTells DEF MemoryInv, MemoryIsRebuilt
<1> QED BY <1>1, MemoryInitInv, MemoryStep, PTL DEF MemorySpec

-----------------------------------------------------------------------------
(* Features: recursion over the nodes of an expression.                    *)

LEMMA NodesOf ==
  ASSUME NEW e \in Expressions
  PROVE  /\ DOMAIN e = 1 .. Len(e) /\ Len(e) \in Nat /\ Len(e) >= 1
         /\ \A k \in DOMAIN e :
              /\ e[k].op \in Ops /\ e[k].period \in Nat /\ e[k].args \in Seq(Nat)
              /\ e[k].value \in Int
              /\ DOMAIN e[k].args = 1 .. Len(e[k].args) /\ Len(e[k].args) \in Nat
              /\ \A c \in DOMAIN e[k].args : e[k].args[c] \in 1 .. k - 1
<1> DEFINE Node == [op : Ops, period : Nat, args : Seq(Nat), value : Int,
                    unit : Numeric \cup {"BOOL", "none"}]
<1>1. /\ e \in Seq(Node) /\ Len(e) >= 1
      /\ \A k \in DOMAIN e : \A c \in DOMAIN e[k].args : e[k].args[c] \in 1 .. k - 1
  BY ExpressionAssumption
<1>2. \A x \in Node : x.op \in Ops /\ x.period \in Nat /\ x.args \in Seq(Nat) /\ x.value \in Int
  OBVIOUS
<1> HIDE DEF Node
<1>3. \A k \in DOMAIN e : e[k] \in Node
  BY <1>1
<1>4. DOMAIN e = 1 .. Len(e) /\ Len(e) \in Nat
  BY <1>1
<1>5. \A s \in Seq(Nat) : DOMAIN s = 1 .. Len(s) /\ Len(s) \in Nat
  OBVIOUS
<1> QED BY <1>1, <1>2, <1>3, <1>4, <1>5

\* What the first nodes read is the same in two functions that agree on them.
LEMMA SameChildren ==
  ASSUME NEW e \in Expressions, NEW k \in DOMAIN e, NEW f, NEW g,
         \A j \in 1 .. k - 1 : g[j] = f[j]
  PROVE  Children(e, k, g) = Children(e, k, f)
<1>1. \A c \in DOMAIN e[k].args : g[e[k].args[c]] = f[e[k].args[c]]
  BY NodesOf
<1> QED BY <1>1 DEF Children

DimsOn(e, m, f) == f = [k \in 1 .. m |-> DimensionOf(e[k], Children(e, k, f))]

BacksOn(e, m, f) ==
  f = [k \in 1 .. m |-> OwnLookback(e[k]) + Max({0} \cup ToSet(Children(e, k, f)))]

ArraysOn(e, bars, m, f) == f = [k \in 1 .. m |-> BatchNode(e[k], bars, Children(e, k, f))]

LEMMA DimensionsUnfold ==
  ASSUME NEW e \in Expressions
  PROVE  DimsOn(e, Len(e), Dimensions(e))
<1> DEFINE n == Len(e)
           S == {m \in Nat : m <= n => \E f : DimsOn(e, m, f)}
<1>1. 0 \in S
  <2>1. DimsOn(e, 0, << >>)
    BY DEF DimsOn
  <2> QED BY <2>1
<1>2. ASSUME NEW m \in Nat, m \in S PROVE m + 1 \in S
  <2> SUFFICES ASSUME m + 1 <= n PROVE \E g : DimsOn(e, m + 1, g)
    OBVIOUS
  <2>1. \A k \in 1 .. m + 1 : k \in DOMAIN e /\ k - 1 <= m
    BY NodesOf
  <2>2. PICK f : DimsOn(e, m, f)
    BY <1>2, NodesOf
  <2> DEFINE x == DimensionOf(e[m + 1], Children(e, m + 1, f))
             g == [k \in 1 .. m + 1 |-> IF k <= m THEN f[k] ELSE x]
  <2>3. \A k \in 1 .. m : f[k] = DimensionOf(e[k], Children(e, k, f))
    BY <2>2 DEF DimsOn
  <2>4. \A k \in 1 .. m + 1 : g[k] = DimensionOf(e[k], Children(e, k, f))
    BY <2>3
  <2>5. \A j \in 1 .. m : g[j] = f[j]
    OBVIOUS
  <2>6. g = [k \in 1 .. m + 1 |-> g[k]]
    OBVIOUS
  <2> HIDE DEF g
  <2>7. \A k \in 1 .. m + 1 : Children(e, k, g) = Children(e, k, f)
    BY <2>1, <2>5, SameChildren
  <2>8. DimsOn(e, m + 1, g)
    BY <2>4, <2>6, <2>7 DEF DimsOn
  <2> QED BY <2>8
<1>3. n \in S
  <2>1. n \in Nat
    BY NodesOf
  <2> HIDE DEF S, n
  <2> QED BY <1>1, <1>2, <2>1, Induction
<1>4. \E f : DimsOn(e, n, f)
  BY <1>3, NodesOf
<1>5. Dimensions(e) = CHOOSE f : DimsOn(e, n, f)
  BY NodesOf DEF Dimensions, DimsOn
<1> QED BY <1>4, <1>5

LEMMA LookbacksUnfold ==
  ASSUME NEW e \in Expressions
  PROVE  BacksOn(e, Len(e), Lookbacks(e))
<1> DEFINE n == Len(e)
           S == {m \in Nat : m <= n => \E f : BacksOn(e, m, f)}
<1>1. 0 \in S
  <2>1. BacksOn(e, 0, << >>)
    BY DEF BacksOn
  <2> QED BY <2>1
<1>2. ASSUME NEW m \in Nat, m \in S PROVE m + 1 \in S
  <2> SUFFICES ASSUME m + 1 <= n PROVE \E g : BacksOn(e, m + 1, g)
    OBVIOUS
  <2>1. \A k \in 1 .. m + 1 : k \in DOMAIN e /\ k - 1 <= m
    BY NodesOf
  <2>2. PICK f : BacksOn(e, m, f)
    BY <1>2, NodesOf
  <2> DEFINE x == OwnLookback(e[m + 1]) + Max({0} \cup ToSet(Children(e, m + 1, f)))
             g == [k \in 1 .. m + 1 |-> IF k <= m THEN f[k] ELSE x]
  <2>3. \A k \in 1 .. m : f[k] = OwnLookback(e[k]) + Max({0} \cup ToSet(Children(e, k, f)))
    BY <2>2 DEF BacksOn
  <2>4. \A k \in 1 .. m + 1 : g[k] = OwnLookback(e[k]) + Max({0} \cup ToSet(Children(e, k, f)))
    <3>1. \A k \in 1 .. m : g[k] = f[k]
      OBVIOUS
    <3>2. g[m + 1] = x
      OBVIOUS
    <3> HIDE DEF g
    <3>3. g[m + 1] = OwnLookback(e[m + 1]) + Max({0} \cup ToSet(Children(e, m + 1, f)))
      BY <3>2
    <3>4. \A k \in 1 .. m : g[k] = OwnLookback(e[k]) + Max({0} \cup ToSet(Children(e, k, f)))
      BY <2>3, <3>1, Zenon
    <3>5. 1 .. m + 1 = 1 .. m \cup {m + 1}
      OBVIOUS
    <3> QED BY <3>3, <3>4, <3>5, Zenon
  <2>5. \A j \in 1 .. m : g[j] = f[j]
    OBVIOUS
  <2>6. g = [k \in 1 .. m + 1 |-> g[k]]
    OBVIOUS
  <2> HIDE DEF g
  <2>7. \A k \in 1 .. m + 1 : Children(e, k, g) = Children(e, k, f)
    BY <2>1, <2>5, SameChildren
  <2>8. BacksOn(e, m + 1, g)
    BY <2>4, <2>6, <2>7 DEF BacksOn
  <2> QED BY <2>8
<1>3. n \in S
  <2>1. n \in Nat
    BY NodesOf
  <2> HIDE DEF S, n
  <2> QED BY <1>1, <1>2, <2>1, Induction
<1>4. \E f : BacksOn(e, n, f)
  BY <1>3, NodesOf
<1>5. Lookbacks(e) = CHOOSE f : BacksOn(e, n, f)
  BY NodesOf DEF Lookbacks, BacksOn
<1> QED BY <1>4, <1>5

LEMMA EvaluateUnfolds ==
  ASSUME NEW e \in Expressions, NEW bars
  PROVE  ArraysOn(e, bars, Len(e), Evaluate(e, bars))
<1> DEFINE n == Len(e)
           S == {m \in Nat : m <= n => \E f : ArraysOn(e, bars, m, f)}
<1>1. 0 \in S
  <2>1. ArraysOn(e, bars, 0, << >>)
    BY DEF ArraysOn
  <2> QED BY <2>1
<1>2. ASSUME NEW m \in Nat, m \in S PROVE m + 1 \in S
  <2> SUFFICES ASSUME m + 1 <= n PROVE \E g : ArraysOn(e, bars, m + 1, g)
    OBVIOUS
  <2>1. \A k \in 1 .. m + 1 : k \in DOMAIN e /\ k - 1 <= m
    BY NodesOf
  <2>2. PICK f : ArraysOn(e, bars, m, f)
    BY <1>2, NodesOf
  <2> DEFINE x == BatchNode(e[m + 1], bars, Children(e, m + 1, f))
             g == [k \in 1 .. m + 1 |-> IF k <= m THEN f[k] ELSE x]
  <2>3. \A k \in 1 .. m : f[k] = BatchNode(e[k], bars, Children(e, k, f))
    BY <2>2 DEF ArraysOn
  <2>4. \A k \in 1 .. m + 1 : g[k] = BatchNode(e[k], bars, Children(e, k, f))
    BY <2>3
  <2>5. \A j \in 1 .. m : g[j] = f[j]
    OBVIOUS
  <2>6. g = [k \in 1 .. m + 1 |-> g[k]]
    OBVIOUS
  <2> HIDE DEF g
  <2>7. \A k \in 1 .. m + 1 : Children(e, k, g) = Children(e, k, f)
    BY <2>1, <2>5, SameChildren
  <2>8. ArraysOn(e, bars, m + 1, g)
    BY <2>4, <2>6, <2>7 DEF ArraysOn
  <2> QED BY <2>8
<1>3. n \in S
  <2>1. n \in Nat
    BY NodesOf
  <2> HIDE DEF S, n
  <2> QED BY <1>1, <1>2, <2>1, Induction
<1>4. \E f : ArraysOn(e, bars, n, f)
  BY <1>3, NodesOf
<1>5. Evaluate(e, bars) = CHOOSE f : ArraysOn(e, bars, n, f)
  BY NodesOf DEF Evaluate, ArraysOn
<1> QED BY <1>4, <1>5

-----------------------------------------------------------------------------
(* Features: windows.                                                      *)

\* What a deque of length w holds after the first i values of x.
Kept(x, i, w) == SubSeq(x, IF i < w THEN 1 ELSE i - w + 1, i)

\* k is the part of x after low, up to i.
Spans(k, x, low, i, S) ==
  /\ k \in Seq(S)
  /\ Len(k) = i - low
  /\ \A j \in 1 .. i - low : k[j] = x[low + j]

LEMMA KeptIs ==
  ASSUME NEW x, NEW i \in Nat, NEW w \in Nat, w >= 1,
         NEW S, \A j \in 1 .. i : x[j] \in S,
         NEW low, low = IF i < w THEN 0 ELSE i - w
  PROVE  Spans(Kept(x, i, w), x, low, i, S)
<1> DEFINE m == IF i < w THEN 1 ELSE i - w + 1
<1>1. m \in Int /\ m >= 1
  OBVIOUS
<1>2. \A j \in m .. i : x[j] \in S
  BY <1>1
<1>3. /\ SubSeq(x, m, i) \in Seq(S)
      /\ Len(SubSeq(x, m, i)) = IF m <= i THEN i - m + 1 ELSE 0
      /\ \A j \in 1 .. i - m + 1 : SubSeq(x, m, i)[j] = x[m + j - 1]
  <2> HIDE DEF m
  <2> QED BY <1>1, <1>2, SubSeqProperties
<1> QED BY <1>3 DEF Kept, Spans

\* Two arrays have the same first values.
SameTo(x, y, i) == \A j \in 1 .. i : y[j] = x[j]

\* deque(maxlen) keeps the last values.
LEMMA PushKeeps ==
  ASSUME NEW x, NEW y, NEW i \in Nat, NEW w \in Nat, w >= 1,
         SameTo(x, y, i), NEW next, next = i + 1
  PROVE  Push(Kept(x, i, w), y[next], w) = Kept(y, next, w)
<1>0. \A j \in 1 .. i : y[j] = x[j]
  BY DEF SameTo
<1> SUFFICES Push(Kept(x, i, w), y[i + 1], w) = Kept(y, i + 1, w)
  OBVIOUS
<1> DEFINE S == {y[j] : j \in 1 .. i + 1}
           low == IF i < w THEN 0 ELSE i - w
           top == IF i + 1 < w THEN 0 ELSE i + 1 - w
           k == Kept(x, i, w)
           l == Kept(y, i + 1, w)
<1>1. /\ k \in Seq(S) /\ Len(k) = i - low
      /\ \A j \in 1 .. i - low : k[j] = x[low + j]
  <2>1. \A j \in 1 .. i : x[j] \in S
    BY <1>0
  <2>2. low = IF i < w THEN 0 ELSE i - w
    OBVIOUS
  <2> HIDE DEF S, low
  <2>3. Spans(k, x, low, i, S)
    BY <2>1, <2>2, KeptIs
  <2> QED BY <2>3 DEF Spans
<1>2. /\ l \in Seq(S) /\ Len(l) = (i + 1) - top
      /\ \A j \in 1 .. (i + 1) - top : l[j] = y[top + j]
  <2>1. \A j \in 1 .. i + 1 : y[j] \in S
    OBVIOUS
  <2> DEFINE n == i + 1
  <2>2. n \in Nat /\ (\A j \in 1 .. n : y[j] \in S) /\ top = IF n < w THEN 0 ELSE n - w
    BY <2>1
  <2> HIDE DEF S, top, n
  <2>3. Spans(Kept(y, n, w), y, top, n, S)
    BY <2>2, KeptIs
  <2> QED BY <2>3, Zenon DEF Spans, n, l
<1>3. y[i + 1] \in S
  OBVIOUS
<1> HIDE DEF S, k, l
<1>4. CASE i < w
  <2>1. Push(k, y[i + 1], w) = Append(k, y[i + 1])
    BY <1>1, <1>4 DEF Push
  <2>2. /\ Append(k, y[i + 1]) \in Seq(S) /\ Len(Append(k, y[i + 1])) = i + 1
        /\ \A j \in 1 .. i + 1 : Append(k, y[i + 1])[j] = IF j <= i THEN k[j] ELSE y[i + 1]
    BY <1>1, <1>3, <1>4, AppendProperties
  <2>3. top = 0 /\ low = 0
    BY <1>4
  <2>4. \A j \in 1 .. i + 1 : Append(k, y[i + 1])[j] = l[j]
    <3>1. \A j \in 1 .. i : k[j] = x[j]
      BY <1>1, <2>3
    <3>2. \A j \in 1 .. i + 1 : l[j] = y[j]
      BY <1>2, <2>3
    <3> HIDE DEF low, top
    <3> QED BY <1>0, <2>2, <3>1, <3>2
  <2>5. Len(l) = i + 1
    BY <1>2, <2>3
  <2>6. Append(k, y[i + 1]) = l
    BY <1>2, <2>2, <2>4, <2>5, SeqEqual
  <2> QED BY <2>1, <2>6 DEF k, l
<1>5. CASE i >= w
  <2> DEFINE t == Tail(k)
  <2>0. low = i - w /\ top = i + 1 - w
    BY <1>5
  <2>1. Push(k, y[i + 1], w) = Append(t, y[i + 1]) /\ k # << >>
    BY <1>1, <1>5 DEF Push
  <2>2. t \in Seq(S) /\ Len(t) = w - 1 /\ \A j \in 1 .. w - 1 : t[j] = k[j + 1]
    BY <1>1, <1>5, <2>1, <2>0, HeadTailProperties
  <2> HIDE DEF t
  <2>3. /\ Append(t, y[i + 1]) \in Seq(S) /\ Len(Append(t, y[i + 1])) = w
        /\ \A j \in 1 .. w : Append(t, y[i + 1])[j] = IF j <= w - 1 THEN t[j] ELSE y[i + 1]
    BY <1>3, <2>2, AppendProperties
  <2>4. \A j \in 1 .. w : Append(t, y[i + 1])[j] = l[j]
    <3> SUFFICES ASSUME NEW j \in 1 .. w PROVE Append(t, y[i + 1])[j] = l[j]
      OBVIOUS
    <3>1. l[j] = y[i + 1 - w + j]
      BY <1>2, <1>5, <2>0
    <3>2. CASE j = w
      BY <2>3, <3>1, <3>2
    <3>3. CASE j < w
      BY <1>0, <1>1, <2>0, <2>2, <2>3, <3>1, <3>3, <1>5
    <3>4. j = w \/ j < w
      OBVIOUS
    <3> QED BY <3>2, <3>3, <3>4, Zenon
  <2>5. Append(t, y[i + 1]) = l
    BY <1>2, <2>0, <2>3, <2>4, SeqEqual
  <2> QED BY <2>1, <2>5 DEF k, l
<1> QED BY <1>4, <1>5

\* A window reads the bars it spans.
LEMMA SameWindow ==
  ASSUME NEW x, NEW y, NEW i \in Nat, NEW w \in Nat, i >= w,
         \A j \in 1 .. i : y[j] = x[j]
  PROVE  SubSeq(y, i - w + 1, i) = SubSeq(x, i - w + 1, i)
<1> DEFINE S == {x[j] : j \in 1 .. i}
           m == i - w + 1
<1>1. m \in Int /\ m >= 1 /\ \A j \in m .. i : x[j] \in S /\ y[j] \in S /\ y[j] = x[j]
  OBVIOUS
<1> HIDE DEF S, m
<1>2. /\ SubSeq(x, m, i) \in Seq(S)
      /\ Len(SubSeq(x, m, i)) = IF m <= i THEN i - m + 1 ELSE 0
      /\ \A j \in 1 .. i - m + 1 : SubSeq(x, m, i)[j] = x[m + j - 1]
  BY <1>1, SubSeqProperties
<1>3. /\ SubSeq(y, m, i) \in Seq(S)
      /\ Len(SubSeq(y, m, i)) = IF m <= i THEN i - m + 1 ELSE 0
      /\ \A j \in 1 .. i - m + 1 : SubSeq(y, m, i)[j] = y[m + j - 1]
  BY <1>1, SubSeqProperties
<1>4. \A j \in 1 .. Len(SubSeq(x, m, i)) : SubSeq(y, m, i)[j] = SubSeq(x, m, i)[j]
  BY <1>1, <1>2, <1>3
<1> QED BY <1>2, <1>3, <1>4, SeqEqual DEF m

-----------------------------------------------------------------------------
(* Features: the smoothed values.                                          *)

EmaOn(x, p, m, f) ==
  f = [i \in 1 .. m |-> IF Isnan(x[i]) THEN NaN ELSE Smoothed(PrevOf(x, f, i), x[i], p)]

LEMMA SamePrev ==
  ASSUME NEW x, NEW f, NEW y, NEW g, NEW i \in Nat, i >= 1,
         \A j \in 1 .. i - 1 : y[j] = x[j] /\ g[j] = f[j]
  PROVE  PrevOf(y, g, i) = PrevOf(x, f, i)
<1>1. { j \in 1 .. i - 1 : ~Isnan(y[j]) } = { j \in 1 .. i - 1 : ~Isnan(x[j]) }
  OBVIOUS
<1> DEFINE seen == { j \in 1 .. i - 1 : ~Isnan(x[j]) }
<1>2. seen # {} => g[Max(seen)] = f[Max(seen)]
  <2> SUFFICES ASSUME seen # {} PROVE g[Max(seen)] = f[Max(seen)]
    OBVIOUS
  <2>1. i - 1 \in Nat /\ seen \in SUBSET (0 .. i - 1)
    OBVIOUS
  <2>2. seen \subseteq 1 .. i - 1
    OBVIOUS
  <2> HIDE DEF seen
  <2>3. \E j \in seen : \A l \in seen : j >= l
    BY <2>1, Largest
  <2>4. Max(seen) \in seen
    BY <2>3 DEF Max
  <2> QED BY <2>2, <2>4
<1> QED BY <1>1, <1>2 DEF PrevOf

LEMMA BatchEmaUnfold ==
  ASSUME NEW x, NEW p, NEW n \in Nat, DOMAIN x = 1 .. n
  PROVE  EmaOn(x, p, n, BatchEma(x, p))
<1> DEFINE S == {m \in Nat : \E f : EmaOn(x, p, m, f)}
<1>1. 0 \in S
  <2>1. EmaOn(x, p, 0, << >>)
    BY DEF EmaOn
  <2> QED BY <2>1
<1>2. ASSUME NEW m \in Nat, m \in S PROVE m + 1 \in S
  <2>1. PICK f : EmaOn(x, p, m, f)
    BY <1>2
  <2> DEFINE v(i) == IF Isnan(x[i]) THEN NaN ELSE Smoothed(PrevOf(x, f, i), x[i], p)
             g == [i \in 1 .. m + 1 |-> v(i)]
  <2>2. \A i \in 1 .. m : g[i] = f[i]
    BY <2>1 DEF EmaOn
  <2>3. \A i \in 1 .. m + 1 : PrevOf(x, g, i) = PrevOf(x, f, i)
    <3> HIDE DEF g
    <3> TAKE i \in 1 .. m + 1
    <3>1. i \in Nat /\ i >= 1 /\ \A j \in 1 .. i - 1 : x[j] = x[j] /\ g[j] = f[j]
      BY <2>2
    <3> QED BY <3>1, SamePrev
  <2>4. g = [i \in 1 .. m + 1 |-> IF Isnan(x[i]) THEN NaN ELSE Smoothed(PrevOf(x, g, i), x[i], p)]
    BY <2>3, Zenon
  <2>5. EmaOn(x, p, m + 1, g)
    BY <2>4 DEF EmaOn
  <2> QED BY <2>5
<1>3. n \in S
  <2> HIDE DEF S
  <2> QED BY <1>1, <1>2, Induction
<1>4. \E f : EmaOn(x, p, n, f)
  BY <1>3
<1>5. BatchEma(x, p) = CHOOSE f : EmaOn(x, p, n, f)
  BY DEF BatchEma, EmaOn
<1> QED BY <1>4, <1>5

\* The smoothed values of a longer array.
LEMMA EmaPrefix ==
  ASSUME NEW x, NEW y, NEW p, NEW n \in Nat, NEW m \in Nat, n <= m,
         DOMAIN x = 1 .. n, DOMAIN y = 1 .. m, \A i \in 1 .. n : y[i] = x[i]
  PROVE  \A i \in 1 .. n : BatchEma(y, p)[i] = BatchEma(x, p)[i]
<1> DEFINE f == BatchEma(x, p)
           g == BatchEma(y, p)
           S == {k \in Nat : \A i \in 1 .. n : i <= k => g[i] = f[i]}
<1>1. \A i \in 1 .. n : f[i] = IF Isnan(x[i]) THEN NaN ELSE Smoothed(PrevOf(x, f, i), x[i], p)
  <2>1. EmaOn(x, p, n, f)
    BY BatchEmaUnfold
  <2> QED BY <2>1 DEF EmaOn
<1>2. \A i \in 1 .. n : g[i] = IF Isnan(y[i]) THEN NaN ELSE Smoothed(PrevOf(y, g, i), y[i], p)
  <2>1. EmaOn(y, p, m, g)
    BY BatchEmaUnfold
  <2>2. \A i \in 1 .. n : i \in 1 .. m
    OBVIOUS
  <2> QED BY <2>1, <2>2 DEF EmaOn
<1> HIDE DEF f, g
<1>3. 0 \in S
  OBVIOUS
<1>4. ASSUME NEW k \in Nat, k \in S PROVE k + 1 \in S
  <2> SUFFICES ASSUME k + 1 \in 1 .. n PROVE g[k + 1] = f[k + 1]
    BY <1>4
  <2>1. \A j \in 1 .. (k + 1) - 1 : y[j] = x[j] /\ g[j] = f[j]
    BY <1>4
  <2>2. PrevOf(y, g, k + 1) = PrevOf(x, f, k + 1)
    BY <2>1, SamePrev
  <2>3. y[k + 1] = x[k + 1]
    OBVIOUS
  <2> QED BY <1>1, <1>2, <2>2, <2>3
<1>5. n \in S
  <2> HIDE DEF S
  <2> QED BY <1>3, <1>4, Induction
<1> QED BY <1>5 DEF f, g

-----------------------------------------------------------------------------
(* Features: one node.                                                     *)

\* A node that infer_dimension accepts, of an expression.
Sound(n) ==
  /\ WellFormed(n)
  /\ n.op \in Ops /\ n.period \in Nat /\ n.value \in Int
  /\ DOMAIN n.args = 1 .. Len(n.args) /\ Len(n.args) \in Nat

LEMMA SoundNode ==
  ASSUME NEW n, Sound(n)
  PROVE  /\ n.op \in WindowOps \cup {"ema"} \cup Crosses => 1 \in DOMAIN n.args
         /\ n.op \in Crosses => 2 \in DOMAIN n.args
         /\ n.op \in WindowOps => Width(n) \in Nat /\ Width(n) >= 1
         /\ n.op \in {"ema", "atr", "chop"} => n.period >= 1
BY DEF Sound, WellFormed, Arity, NeedsPeriod, MinPeriod, Width, WindowOps, Crosses, Sources, Ops,
       Elementwise

\* An operator has one kind.
LEMMA Kinds ==
  ASSUME NEW op
  PROVE  LET Others == {"constant", "ema", "atr", "chop"} IN
         /\ op \in Sources => op \notin Elementwise \cup Crosses \cup WindowOps \cup Others
         /\ op \in Elementwise => op \notin Crosses \cup WindowOps \cup Others
         /\ op \in Crosses => op \notin WindowOps \cup Others
         /\ op \in WindowOps => op \notin Others
BY DEF Sources, Elementwise, Crosses, WindowOps

\* The arrays ch of the children of n over m bars.
Over(n, m, ch) ==
  /\ DOMAIN ch = DOMAIN n.args
  /\ \A c \in DOMAIN n.args : DOMAIN ch[c] = 1 .. m

\* The arrays of a longer history.
Longer(n, m, ch, ch2) ==
  /\ Over(n, m, ch) /\ Over(n, m + 1, ch2)
  /\ \A c \in DOMAIN n.args : \A i \in 1 .. m : ch2[c][i] = ch[c][i]

LEMMA LongerBars ==
  ASSUME NEW bars \in Seq(Candles), NEW bar \in Candles
  PROVE  LET m == Len(bars)
             more == Append(bars, bar)
         IN /\ m \in Nat /\ DOMAIN bars = 1 .. m /\ DOMAIN more = 1 .. m + 1 /\ Len(more) = m + 1
            /\ more \in Seq(Candles)
            /\ \A i \in 1 .. m : more[i] = bars[i]
            /\ more[m + 1] = bar
OBVIOUS

LEMMA LongerRanges ==
  ASSUME NEW bars \in Seq(Candles), NEW bar \in Candles
  PROVE  LET m == Len(bars)
             more == Append(bars, bar)
         IN \A i \in 1 .. m :
              /\ BatchTr(more)[i] = BatchTr(bars)[i]
              /\ Highs(more)[i] = Highs(bars)[i]
              /\ Lows(more)[i] = Lows(bars)[i]
<1> DEFINE m == Len(bars)
           more == Append(bars, bar)
<1>1. /\ m \in Nat /\ DOMAIN bars = 1 .. m /\ DOMAIN more = 1 .. m + 1
      /\ \A i \in 1 .. m : more[i] = bars[i]
  BY LongerBars
<1> SUFFICES ASSUME NEW i \in 1 .. m
             PROVE  /\ BatchTr(more)[i] = BatchTr(bars)[i]
                    /\ Highs(more)[i] = Highs(bars)[i]
                    /\ Lows(more)[i] = Lows(bars)[i]
  OBVIOUS
<1> HIDE DEF m, more
<1>2. i \in DOMAIN bars /\ i \in DOMAIN more /\ more[i] = bars[i]
  BY <1>1
<1>3. i # 1 => more[i - 1] = bars[i - 1]
  BY <1>1
<1> QED BY <1>2, <1>3 DEF BatchTr, Highs, Lows

\* The array of a node says nothing of later bars.
LEMMA PrefixAt ==
  ASSUME NEW bars \in Seq(Candles), NEW bar \in Candles, NEW n, Sound(n), NEW ch, NEW ch2,
         Longer(n, Len(bars), ch, ch2), NEW i \in 1 .. Len(bars)
  PROVE  BatchAt(n, Append(bars, bar), ch2, i) = BatchAt(n, bars, ch, i)
<1> DEFINE m == Len(bars)
           more == Append(bars, bar)
<1>1. /\ m \in Nat /\ DOMAIN bars = 1 .. m /\ DOMAIN more = 1 .. m + 1
      /\ \A j \in 1 .. m : more[j] = bars[j]
  BY LongerBars
<1>2. \A c \in DOMAIN n.args :
        /\ DOMAIN ch[c] = 1 .. m /\ DOMAIN ch2[c] = 1 .. m + 1
        /\ \A j \in 1 .. m : ch2[c][j] = ch[c][j]
  BY DEF Longer, Over
<1>3. DOMAIN ch = DOMAIN n.args /\ DOMAIN ch2 = DOMAIN n.args
  BY DEF Longer, Over
<1>4. \A j \in 1 .. m : /\ BatchTr(more)[j] = BatchTr(bars)[j]
                        /\ Highs(more)[j] = Highs(bars)[j]
                        /\ Lows(more)[j] = Lows(bars)[j]
  BY LongerRanges
<1>5. i \in 1 .. m /\ n.period \in Nat
  BY DEF Sound
<1> HIDE DEF m, more
<1>6. CASE n.op \in Sources
  <2>1. \A b, c : BatchAt(n, b, c, i) = b[i][n.op]
    BY <1>6, Kinds, Zenon DEF BatchAt
  <2> QED BY <1>1, <1>5, <2>1 DEF more
<1>7. CASE n.op = "constant"
  BY <1>7, Kinds, Zenon DEF BatchAt
<1>8. CASE n.op \in Elementwise
  <2>1. [c \in DOMAIN ch2 |-> ch2[c][i]] = [c \in DOMAIN ch |-> ch[c][i]]
    BY <1>2, <1>3, <1>5
  <2> QED BY <1>8, <2>1, Kinds, Zenon DEF BatchAt
<1>9. CASE n.op \in Crosses
  <2>1. {1, 2} \subseteq DOMAIN n.args
    BY <1>9, SoundNode
  <2>2. /\ ch2[1][i] = ch[1][i] /\ ch2[2][i] = ch[2][i]
        /\ i # 1 => ch2[1][i - 1] = ch[1][i - 1] /\ ch2[2][i - 1] = ch[2][i - 1]
    BY <1>1, <1>2, <1>5, <2>1
  <2>3. \A b, c : BatchAt(n, b, c, i) =
           IF i = 1 THEN FALSE
           ELSE Crossed(n.op = "cross_above", c[1][i - 1], c[2][i - 1], c[1][i], c[2][i])
    BY <1>9, Kinds, Zenon DEF BatchAt
  <2>4. CASE i = 1
    BY <2>3, <2>4, Zenon
  <2>5. CASE i # 1
    <3> DEFINE above == n.op = "cross_above"
    <3>1. \A b, c : BatchAt(n, b, c, i)
            = Crossed(above, c[1][i - 1], c[2][i - 1], c[1][i], c[2][i])
      BY <2>3, <2>5, Zenon
    <3> HIDE DEF above
    <3> QED BY <2>2, <2>5, <3>1
  <2> QED BY <2>4, <2>5, Zenon
<1>10. CASE n.op \in WindowOps
  <2>1. 1 \in DOMAIN n.args /\ Width(n) \in Nat
    BY <1>10, SoundNode
  <2>2. i >= Width(n) =>
          SubSeq(ch2[1], i - Width(n) + 1, i) = SubSeq(ch[1], i - Width(n) + 1, i)
    BY <1>1, <1>2, <1>5, <2>1, SameWindow
  <2>3. \A b, c : BatchAt(n, b, c, i) = Rolling(c[1], Width(n), n.op, i)
    BY <1>10, Kinds, Zenon DEF BatchAt
  <2>4. i < Width(n) \/ i >= Width(n)
    BY <1>5, <2>1
  <2> QED BY <1>5, <2>2, <2>3, <2>4 DEF Rolling
<1>11. CASE n.op = "ema"
  <2>1. 1 \in DOMAIN n.args
    BY <1>11, SoundNode
  <2>2. BatchEma(ch2[1], n.period)[i] = BatchEma(ch[1], n.period)[i]
    <3>1. m + 1 \in Nat /\ m <= m + 1
      BY <1>1
    <3> QED BY <1>1, <1>2, <1>5, <2>1, <3>1, EmaPrefix
  <2>3. \A b, c : BatchAt(n, b, c, i) = BatchEma(c[1], n.period)[i]
    BY <1>11, Kinds, Zenon DEF BatchAt
  <2> QED BY <2>2, <2>3
<1>12. CASE n.op = "atr"
  <2>1. i >= n.period => SubSeq(BatchTr(more), i - n.period + 1, i)
                         = SubSeq(BatchTr(bars), i - n.period + 1, i)
    <3>1. i \in Nat /\ \A j \in 1 .. i : BatchTr(more)[j] = BatchTr(bars)[j]
      BY <1>1, <1>4, <1>5
    <3> QED BY <1>5, <3>1, SameWindow
  <2>2. \A b, c : BatchAt(n, b, c, i) = Rolling(BatchTr(b), n.period, "sma", i)
    BY <1>12, Kinds, Zenon DEF BatchAt
  <2>3. i < n.period \/ i >= n.period
    BY <1>5
  <2> QED BY <2>1, <2>2, <2>3 DEF Rolling, more
<1>13. CASE n.op = "chop"
  <2>1. i >= n.period =>
          /\ SubSeq(BatchTr(more), i - n.period + 1, i) = SubSeq(BatchTr(bars), i - n.period + 1, i)
          /\ SubSeq(Highs(more), i - n.period + 1, i) = SubSeq(Highs(bars), i - n.period + 1, i)
          /\ SubSeq(Lows(more), i - n.period + 1, i) = SubSeq(Lows(bars), i - n.period + 1, i)
    <3>1. i \in Nat /\ \A j \in 1 .. i : /\ BatchTr(more)[j] = BatchTr(bars)[j]
                                         /\ Highs(more)[j] = Highs(bars)[j]
                                         /\ Lows(more)[j] = Lows(bars)[j]
      BY <1>1, <1>4, <1>5
    <3> QED BY <1>5, <3>1, SameWindow
  <2>2. \A b, c : BatchAt(n, b, c, i) = BatchChop(b, n.period, i)
    BY <1>13, Kinds, Zenon DEF BatchAt
  <2>3. i < n.period \/ i >= n.period
    BY <1>5
  <2> QED BY <2>1, <2>2, <2>3 DEF BatchChop, more
<1> QED BY <1>6, <1>7, <1>8, <1>9, <1>10, <1>11, <1>12, <1>13 DEF Sound, Ops, more

IsOp(s) == s = [buf |-> s.buf, hi |-> s.hi, lo |-> s.lo, prev |-> s.prev, prev_b |-> s.prev_b]

\* The StreamOp of node n after bars, when its children have the arrays ch.
StateIs(n, s, bars, ch) ==
  LET m == Len(bars) IN
  /\ IsOp(s)
  /\ n.op \in WindowOps => s.buf = Kept(ch[1], m, Width(n))
  /\ n.op = "ema" => s.prev = PrevOf(ch[1], BatchEma(ch[1], n.period), m + 1)
  /\ n.op \in Crosses => /\ s.prev = IF m = 0 THEN NaN ELSE ch[1][m]
                         /\ s.prev_b = IF m = 0 THEN NaN ELSE ch[2][m]
  /\ n.op \in {"atr", "chop"} =>
       /\ s.buf = Kept(BatchTr(bars), m, n.period)
       /\ s.hi = Kept(Highs(bars), m, n.period)
       /\ s.lo = Kept(Lows(bars), m, n.period)
       /\ s.prev = IF m = 0 THEN NaN ELSE bars[m].close

\* A deque is full when the window is, and holds it.
LEMMA KeptWindow ==
  ASSUME NEW x, NEW i \in Nat, NEW w \in Nat, w >= 1
  PROVE  /\ Len(Kept(x, i, w)) < w <=> i < w
         /\ i >= w => Kept(x, i, w) = SubSeq(x, i - w + 1, i)
<1> DEFINE S == {x[j] : j \in 1 .. i}
           low == IF i < w THEN 0 ELSE i - w
<1>1. (\A j \in 1 .. i : x[j] \in S) /\ low = IF i < w THEN 0 ELSE i - w
  OBVIOUS
<1> HIDE DEF S
<1>2. Spans(Kept(x, i, w), x, low, i, S)
  <2> HIDE DEF low
  <2> QED BY <1>1, KeptIs
<1>3. Len(Kept(x, i, w)) = i - low
  BY <1>2 DEF Spans
<1> QED BY <1>3 DEF Kept

LEMMA StartsFresh ==
  ASSUME NEW n, Sound(n), NEW ch, Over(n, 0, ch)
  PROVE  StateIs(n, FreshOp, << >>, ch)
<1>1. \A x, w : w \in Nat /\ w >= 1 => Kept(x, 0, w) = << >>
  <2> SUFFICES ASSUME NEW x, NEW w, w \in Nat, w >= 1 PROVE SubSeq(x, 1, 0) = << >>
    BY DEF Kept
  <2> QED BY SubSeqEmpty
<1>2. Len(<< >>) = 0
  OBVIOUS
<1>3. IsOp(FreshOp)
  BY DEF IsOp, FreshOp
<1>4. n.op \in WindowOps => Width(n) \in Nat /\ Width(n) >= 1
  BY SoundNode
<1>5. n.op \in {"atr", "chop"} => n.period \in Nat /\ n.period >= 1
  BY SoundNode DEF Sound
<1>6. PrevOf(ch[1], BatchEma(ch[1], n.period), 1) = NaN
  <2>1. \A f : PrevOf(ch[1], f, 1) = NaN
    BY DEF PrevOf
  <2> QED BY <2>1
<1> QED BY <1>1, <1>2, <1>3, <1>4, <1>5, <1>6 DEF StateIs, FreshOp

LEMMA LastRange ==
  ASSUME NEW bars \in Seq(Candles), NEW bar \in Candles
  PROVE  LET m == Len(bars)
             more == Append(bars, bar)
         IN /\ BatchTr(more)[m + 1]
                 = TrueRange(bar.high, bar.low, IF m = 0 THEN NaN ELSE bars[m].close)
            /\ Highs(more)[m + 1] = bar.high
            /\ Lows(more)[m + 1] = bar.low
<1> DEFINE m == Len(bars)
           more == Append(bars, bar)
<1>1. /\ m \in Nat /\ m + 1 \in DOMAIN more /\ more[m + 1] = bar
      /\ m # 0 => more[(m + 1) - 1] = bars[m]
      /\ m + 1 = 1 <=> m = 0
  BY LongerBars
<1> HIDE DEF m, more
<1>2. BatchTr(more)[m + 1]
        = TrueRange(bar.high, bar.low, IF m + 1 = 1 THEN NaN ELSE more[(m + 1) - 1].close)
  BY <1>1 DEF BatchTr
<1>3. BatchTr(more)[m + 1] = TrueRange(bar.high, bar.low, IF m = 0 THEN NaN ELSE bars[m].close)
  BY <1>1, <1>2
<1> QED BY <1>1, <1>3 DEF Highs, Lows, m, more

LEMMA PrevGrows ==
  ASSUME NEW x, NEW f, NEW i \in Nat, i >= 1
  PROVE  PrevOf(x, f, i + 1) = IF Isnan(x[i]) THEN PrevOf(x, f, i) ELSE f[i]
<1> DEFINE seen == { j \in 1 .. i - 1 : ~Isnan(x[j]) }
           more == { j \in 1 .. (i + 1) - 1 : ~Isnan(x[j]) }
<1>1. CASE Isnan(x[i])
  <2>1. more = seen
    BY <1>1
  <2> QED BY <1>1, <2>1 DEF PrevOf
<1>2. CASE ~Isnan(x[i])
  <2>1. i \in more /\ \A j \in more : i >= j
    BY <1>2
  <2> HIDE DEF more
  <2>2. Max(more) \in more /\ \A j \in more : Max(more) >= j
    BY <2>1 DEF Max
  <2>3. more \subseteq Int
    BY DEF more
  <2>4. Max(more) = i
    <3>1. Max(more) \in Int /\ Max(more) >= i /\ i >= Max(more)
      BY <2>1, <2>2, <2>3
    <3> QED BY <3>1
  <2>5. more # {}
    BY <2>1
  <2> QED BY <1>2, <2>4, <2>5 DEF PrevOf, more
<1> QED BY <1>1, <1>2

\* What an update does: the state is that of the longer history, and the value
\* returned is the last one of the array.
StepIs(n, s, bar, v, more, ch2, i) ==
  /\ StateIs(n, Updated(n, s, bar, v), more, ch2)
  /\ Returned(n, s, Updated(n, s, bar, v), bar, v) = BatchAt(n, more, ch2, i)

LEMMA StepAt ==
  ASSUME NEW bars \in Seq(Candles), NEW bar \in Candles, NEW n, Sound(n), NEW ch, NEW ch2,
         Longer(n, Len(bars), ch, ch2), NEW s, StateIs(n, s, bars, ch),
         NEW v, v = [c \in DOMAIN n.args |-> ch2[c][Len(bars) + 1]]
  PROVE  StepIs(n, s, bar, v, Append(bars, bar), ch2, Len(bars) + 1)
<1> DEFINE m == Len(bars)
           more == Append(bars, bar)
           i == m + 1
           t == Updated(n, s, bar, v)
           value == Returned(n, s, t, bar, v)
<1>1. /\ m \in Nat /\ Len(more) = i /\ i \in Nat /\ i >= 1 /\ i # 0 /\ more[i] = bar
      /\ (i = 1 <=> m = 0) /\ i - 1 = m /\ i = m + 1
  BY LongerBars
<1>2. \A c \in DOMAIN n.args :
        /\ DOMAIN ch[c] = 1 .. m /\ DOMAIN ch2[c] = 1 .. i
        /\ \A j \in 1 .. m : ch2[c][j] = ch[c][j]
        /\ v[c] = ch2[c][i]
  BY DEF Longer, Over
<1>3. DOMAIN ch2 = DOMAIN n.args
  BY DEF Longer, Over
<1>4. \A j \in 1 .. m : /\ BatchTr(more)[j] = BatchTr(bars)[j]
                        /\ Highs(more)[j] = Highs(bars)[j]
                        /\ Lows(more)[j] = Lows(bars)[j]
  BY LongerRanges
<1>5. IsOp(s)
  BY DEF StateIs
<1> SUFFICES StateIs(n, t, more, ch2) /\ value = BatchAt(n, more, ch2, i)
  BY DEF StepIs
<1> HIDE DEF m, more, i
<1>6. CASE n.op \in Sources \cup Elementwise \cup {"constant"}
  <2>1. t = s
    BY <1>6, Kinds, Zenon DEF Updated
  <2>2. StateIs(n, t, more, ch2)
    <3>1. n.op \notin WindowOps \cup Crosses \cup {"ema", "atr", "chop"}
      BY <1>6, Kinds, Zenon
    <3> QED BY <1>5, <2>1, <3>1 DEF StateIs
  <2>3. CASE n.op \in Sources
    <3>1. BatchAt(n, more, ch2, i) = more[i][n.op]
      BY <2>3, Kinds, Zenon DEF BatchAt
    <3>2. value = bar[n.op]
      BY <2>3, Kinds, Zenon DEF Returned
    <3> QED BY <1>1, <2>2, <3>1, <3>2
  <2>4. CASE n.op = "constant"
    <3>1. BatchAt(n, more, ch2, i) = n.value
      BY <2>4, Kinds, Zenon DEF BatchAt
    <3>2. value = n.value
      BY <2>4, Kinds, Zenon DEF Returned
    <3> QED BY <2>2, <3>1, <3>2
  <2>5. CASE n.op \in Elementwise
    <3>1. BatchAt(n, more, ch2, i) = PointValue(n, [c \in DOMAIN ch2 |-> ch2[c][i]])
      BY <2>5, Kinds, Zenon DEF BatchAt
    <3>2. value = PointValue(n, v)
      BY <2>5, Kinds, Zenon DEF Returned
    <3>3. v = [c \in DOMAIN ch2 |-> ch2[c][i]]
      BY <1>3 DEF i, m
    <3> QED BY <2>2, <3>1, <3>2, <3>3
  <2> QED BY <1>6, <2>3, <2>4, <2>5
<1>7. CASE n.op \in Crosses
  <2> DEFINE above == n.op = "cross_above"
  <2>1. t = [s EXCEPT !.prev = v[1], !.prev_b = v[2]]
    BY <1>7, Kinds, Zenon DEF Updated
  <2>2. 1 \in DOMAIN n.args /\ 2 \in DOMAIN n.args
    BY <1>7, SoundNode
  <2>3. n.op \notin WindowOps \cup {"ema", "atr", "chop"}
    BY <1>7, Kinds, Zenon
  <2>4. IsOp(t) /\ t.prev = v[1] /\ t.prev_b = v[2]
    BY <1>5, <2>1 DEF IsOp
  <2>5. StateIs(n, t, more, ch2)
    BY <1>1, <1>2, <2>2, <2>3, <2>4 DEF StateIs
  <2>6. value = Crossed(above, s.prev, s.prev_b, v[1], v[2])
    BY <1>7, Kinds, Zenon DEF Returned
  <2>7. i = 1 => BatchAt(n, more, ch2, i) = FALSE
    BY <1>7, Kinds, Zenon DEF BatchAt
  <2>8. i # 1 => BatchAt(n, more, ch2, i)
                   = Crossed(above, ch2[1][i - 1], ch2[2][i - 1], ch2[1][i], ch2[2][i])
    BY <1>7, Kinds, Zenon DEF BatchAt
  <2> HIDE DEF above
  <2>9. s.prev = (IF m = 0 THEN NaN ELSE ch[1][m]) /\ s.prev_b = IF m = 0 THEN NaN ELSE ch[2][m]
    BY <1>7 DEF StateIs, m
  <2>10. CASE i = 1
    <3>1. s.prev = NaN
      BY <1>1, <2>9, <2>10
    <3>2. Crossed(above, s.prev, s.prev_b, v[1], v[2]) = FALSE
      BY <3>1 DEF Crossed, Isnan
    <3> QED BY <2>5, <2>6, <2>7, <2>10, <3>2, Zenon
  <2>11. CASE i # 1
    <3>1. m \in 1 .. m /\ m # 0
      BY <1>1, <2>11
    <3>2. s.prev = ch2[1][i - 1] /\ s.prev_b = ch2[2][i - 1]
      BY <1>1, <1>2, <2>2, <2>9, <3>1
    <3>3. v[1] = ch2[1][i] /\ v[2] = ch2[2][i]
      BY <1>2, <2>2
    <3> HIDE DEF value
    <3>4. value = BatchAt(n, more, ch2, i)
      BY <2>6, <2>8, <2>11, <3>2, <3>3
    <3> QED BY <2>5, <3>4
  <2> QED BY <2>10, <2>11, Zenon
<1>8. CASE n.op \in WindowOps
  <2> DEFINE w == Width(n)
  <2>1. t = [s EXCEPT !.buf = Push(@, v[1], w)]
    BY <1>8, Kinds, Zenon DEF Updated
  <2>2. 1 \in DOMAIN n.args /\ w \in Nat /\ w >= 1
    BY <1>8, SoundNode
  <2>3. n.op \notin Crosses \cup {"ema", "atr", "chop"}
    BY <1>8, Kinds, Zenon
  <2>4. value = IF Len(t.buf) < w THEN NaN ELSE Formula(n.op, t.buf)
    BY <1>8, Kinds, Zenon DEF Returned
  <2>5. BatchAt(n, more, ch2, i) = Rolling(ch2[1], w, n.op, i)
    BY <1>8, Kinds, Zenon DEF BatchAt
  <2> HIDE DEF w
  <2>6. s.buf = Kept(ch[1], m, w)
    BY <1>8 DEF StateIs, m, w
  <2>7. IsOp(t) /\ t.buf = Push(s.buf, v[1], w)
    BY <1>5, <2>1 DEF IsOp
  <2>8. t.buf = Kept(ch2[1], i, w)
    <3>1. Push(Kept(ch[1], m, w), ch2[1][i], w) = Kept(ch2[1], i, w)
      <4>1. SameTo(ch[1], ch2[1], m)
        BY <1>2, <2>2 DEF SameTo
      <4> QED BY <1>1, <2>2, <4>1, PushKeeps
    <3> QED BY <1>2, <2>2, <2>6, <2>7, <3>1
  <2> HIDE DEF t, value
  <2>9. StateIs(n, t, more, ch2)
    BY <1>1, <2>3, <2>7, <2>8 DEF StateIs, w
  <2>10. value = Rolling(ch2[1], w, n.op, i)
    <3>1. Len(Kept(ch2[1], i, w)) < w <=> i < w
      BY <1>1, <2>2, KeptWindow, Zenon
    <3>2. i >= w => Kept(ch2[1], i, w) = SubSeq(ch2[1], i - w + 1, i)
      <4> SUFFICES ASSUME i >= w PROVE Kept(ch2[1], i, w) = SubSeq(ch2[1], i - w + 1, i)
        OBVIOUS
      <4>1. ~(i < w)
        BY <1>1, <2>2
      <4> QED BY <4>1, Zenon DEF Kept
    <3>3. i < w \/ i >= w
      BY <1>1, <2>2
    <3> QED BY <2>4, <2>8, <3>1, <3>2, <3>3 DEF Rolling
  <2> QED BY <2>5, <2>9, <2>10
<1>9. CASE n.op = "ema"
  <2> DEFINE p == n.period
             x == ch[1]
             y == ch2[1]
             g == BatchEma(y, p)
  <2>1. t = [s EXCEPT !.prev = IF Isnan(v[1]) THEN @ ELSE Smoothed(@, v[1], p)]
    BY <1>9, Kinds, Zenon DEF Updated
  <2>2. 1 \in DOMAIN n.args
    BY <1>9, SoundNode
  <2>3. n.op \notin Crosses \cup WindowOps \cup {"atr", "chop"}
    BY <1>9, Kinds, Zenon
  <2>4. value = IF Isnan(v[1]) THEN NaN ELSE t.prev
    BY <1>9, Kinds, Zenon DEF Returned
  <2>5. BatchAt(n, more, ch2, i) = g[i]
    BY <1>9, Kinds, Zenon DEF BatchAt
  <2>6. s.prev = PrevOf(x, BatchEma(x, p), i)
    BY <1>9 DEF StateIs, m, i
  <2>7. IsOp(t) /\ t.prev = IF Isnan(v[1]) THEN s.prev ELSE Smoothed(s.prev, v[1], p)
    BY <1>5, <2>1 DEF IsOp
  <2>8. v[1] = y[i] /\ DOMAIN x = 1 .. m /\ DOMAIN y = 1 .. i /\ \A j \in 1 .. m : y[j] = x[j]
    BY <1>2, <2>2
  <2> HIDE DEF t, value, p, x, y
  <2>9. \A j \in 1 .. m : g[j] = BatchEma(x, p)[j]
    <3>1. m <= i
      BY <1>1
    <3> QED BY <1>1, <2>8, <3>1, EmaPrefix
  <2>10. PrevOf(y, g, i) = s.prev
    <3> DEFINE f == BatchEma(x, p)
    <3>1. \A j \in 1 .. i - 1 : y[j] = x[j] /\ g[j] = f[j]
      BY <1>1, <2>8, <2>9
    <3> HIDE DEF f, g
    <3>2. PrevOf(y, g, i) = PrevOf(x, f, i)
      BY <1>1, <3>1, SamePrev
    <3> QED BY <2>6, <3>2 DEF f
  <2>11. g[i] = IF Isnan(y[i]) THEN NaN ELSE Smoothed(PrevOf(y, g, i), y[i], p)
    <3>1. EmaOn(y, p, i, g)
      BY <1>1, <2>8, BatchEmaUnfold
    <3>2. i \in 1 .. i
      BY <1>1
    <3> QED BY <3>1, <3>2 DEF EmaOn
  <2> HIDE DEF g
  <2>12. value = g[i]
    BY <2>4, <2>7, <2>8, <2>10, <2>11
  <2>13. PrevOf(y, g, i + 1) = IF Isnan(y[i]) THEN PrevOf(y, g, i) ELSE g[i]
    BY <1>1, PrevGrows
  <2>14. t.prev = PrevOf(y, g, i + 1)
    BY <2>7, <2>8, <2>10, <2>11, <2>13
  <2>15. StateIs(n, t, more, ch2)
    BY <1>1, <1>9, <2>3, <2>7, <2>14 DEF StateIs, g, y, p
  <2> QED BY <2>5, <2>12, <2>15
<1>10. CASE n.op \in {"atr", "chop"}
  <2> DEFINE p == n.period
             r == TrueRange(bar.high, bar.low, s.prev)
  <2>1. t = [s EXCEPT !.buf = Push(@, r, p), !.hi = Push(@, bar.high, p),
                      !.lo = Push(@, bar.low, p), !.prev = bar.close]
    BY <1>10, Kinds, Zenon DEF Updated
  <2>2. p \in Nat /\ p >= 1
    BY <1>10, SoundNode DEF Sound
  <2>3. n.op \notin Crosses \cup WindowOps \cup {"ema"}
    BY <1>10, Kinds, Zenon
  <2>4. /\ s.buf = Kept(BatchTr(bars), m, p)
        /\ s.hi = Kept(Highs(bars), m, p)
        /\ s.lo = Kept(Lows(bars), m, p)
        /\ s.prev = IF m = 0 THEN NaN ELSE bars[m].close
    BY <1>10 DEF StateIs, m
  <2> HIDE DEF p, r
  <2>5. /\ IsOp(t) /\ t.prev = bar.close
        /\ t.buf = Push(s.buf, r, p) /\ t.hi = Push(s.hi, bar.high, p)
        /\ t.lo = Push(s.lo, bar.low, p)
    BY <1>5, <2>1 DEF IsOp
  <2>6. BatchTr(more)[i] = r /\ Highs(more)[i] = bar.high /\ Lows(more)[i] = bar.low
    BY <2>4, LastRange DEF i, m, more, r
  <2>7. t.buf = Kept(BatchTr(more), i, p)
    <3>1. Push(Kept(BatchTr(bars), m, p), BatchTr(more)[i], p) = Kept(BatchTr(more), i, p)
      <4>1. SameTo(BatchTr(bars), BatchTr(more), m)
        BY <1>4 DEF SameTo
      <4> QED BY <1>1, <2>2, <4>1, PushKeeps
    <3> QED BY <2>4, <2>5, <2>6, <3>1
  <2>8. t.hi = Kept(Highs(more), i, p)
    <3>1. Push(Kept(Highs(bars), m, p), Highs(more)[i], p) = Kept(Highs(more), i, p)
      <4>1. SameTo(Highs(bars), Highs(more), m)
        BY <1>4 DEF SameTo
      <4> QED BY <1>1, <2>2, <4>1, PushKeeps
    <3> QED BY <2>4, <2>5, <2>6, <3>1
  <2>9. t.lo = Kept(Lows(more), i, p)
    <3>1. Push(Kept(Lows(bars), m, p), Lows(more)[i], p) = Kept(Lows(more), i, p)
      <4>1. SameTo(Lows(bars), Lows(more), m)
        BY <1>4 DEF SameTo
      <4> QED BY <1>1, <2>2, <4>1, PushKeeps
    <3> QED BY <2>4, <2>5, <2>6, <3>1
  <2>10. StateIs(n, t, more, ch2)
    <3> HIDE DEF t
    <3> QED BY <1>1, <1>10, <2>3, <2>5, <2>7, <2>8, <2>9 DEF StateIs, p
  <2>11. i < p \/ i >= p
    BY <1>1, <2>2
  <2>12. Len(t.buf) < p <=> i < p
    <3> HIDE DEF t
    <3>1. Len(Kept(BatchTr(more), i, p)) < p <=> i < p
      BY <1>1, <2>2, KeptWindow, Zenon
    <3> QED BY <2>7, <3>1
  <2>13. i >= p => /\ t.buf = SubSeq(BatchTr(more), i - p + 1, i)
                   /\ t.hi = SubSeq(Highs(more), i - p + 1, i)
                   /\ t.lo = SubSeq(Lows(more), i - p + 1, i)
    <3> HIDE DEF t
    <3>1. i >= p =>
            /\ Kept(BatchTr(more), i, p) = SubSeq(BatchTr(more), i - p + 1, i)
            /\ Kept(Highs(more), i, p) = SubSeq(Highs(more), i - p + 1, i)
            /\ Kept(Lows(more), i, p) = SubSeq(Lows(more), i - p + 1, i)
      <4> SUFFICES ASSUME NEW x, i >= p PROVE Kept(x, i, p) = SubSeq(x, i - p + 1, i)
        OBVIOUS
      <4>1. ~(i < p)
        BY <1>1, <2>2
      <4> QED BY <4>1, Zenon DEF Kept
    <3> QED BY <2>7, <2>8, <2>9, <3>1
  <2>14. CASE n.op = "atr"
    <3>1. value = IF Len(t.buf) < p THEN NaN ELSE Formula("sma", t.buf)
      BY <2>14, Kinds, Zenon DEF Returned, p
    <3>2. BatchAt(n, more, ch2, i) = Rolling(BatchTr(more), p, "sma", i)
      BY <2>14, Kinds, Zenon DEF BatchAt, p
    <3> HIDE DEF t, value
    <3>3. value = Rolling(BatchTr(more), p, "sma", i)
      BY <2>11, <2>12, <2>13, <3>1 DEF Rolling
    <3> QED BY <2>10, <3>2, <3>3
  <2>15. CASE n.op = "chop"
    <3>1. value = IF Len(t.buf) < p THEN NaN ELSE Chop(t.buf, t.hi, t.lo)
      BY <2>15, Kinds, Zenon DEF Returned, p
    <3>2. BatchAt(n, more, ch2, i) = BatchChop(more, p, i)
      BY <2>15, Kinds, Zenon DEF BatchAt, p
    <3> HIDE DEF t, value
    <3>3. value = BatchChop(more, p, i)
      BY <2>11, <2>12, <2>13, <3>1 DEF BatchChop
    <3> QED BY <2>10, <3>2, <3>3
  <2> QED BY <1>10, <2>14, <2>15
<1> QED BY <1>6, <1>7, <1>8, <1>9, <1>10 DEF Sound, Ops

-----------------------------------------------------------------------------
(* Features: all the nodes.                                                *)

\* Every node of a compiled expression is sound: an ill-typed one would make
\* the root ill-typed.
LEMMA CompiledIsSound ==
  ASSUME NEW e \in Expressions, Dimensions(e)[Len(e)] # IllTyped
  PROVE  \A k \in DOMAIN e : Sound(e[k]) /\ Dimensions(e)[k] # IllTyped
<1> DEFINE n == Len(e)
           d == Dimensions(e)
           ill == {k \in 1 .. n : d[k] = IllTyped}
<1>1. n \in Nat /\ n >= 1 /\ DOMAIN e = 1 .. n
  BY NodesOf
<1>2. \A k \in 1 .. n : d[k] = DimensionOf(e[k], Children(e, k, d))
  BY DimensionsUnfold DEF DimsOn
<1> HIDE DEF n, d
<1>3. ill = {}
  <2> SUFFICES ASSUME ill # {} PROVE FALSE
    OBVIOUS
  <2>1. ill \in SUBSET (0 .. n)
    BY <1>1
  <2> HIDE DEF ill
  <2>2. PICK x \in ill : \A y \in ill : x >= y
    BY <1>1, <2>1, Largest
  <2>3. x \in 1 .. n /\ d[x] = IllTyped
    BY <2>2 DEF ill
  <2>4. x \in 1 .. n - 1
    BY <1>1, <2>3 DEF n, d
  <2>5. PICK j \in DOMAIN e : x \in ToSet(e[j].args)
    BY <2>4, ExpressionAssumption DEF n
  <2>6. PICK c \in DOMAIN e[j].args : e[j].args[c] = x
    BY <2>5 DEF ToSet
  <2>7. j \in 1 .. n /\ x < j
    BY <1>1, <2>6, NodesOf
  <2>8. c \in DOMAIN Children(e, j, d) /\ Children(e, j, d)[c] = IllTyped
    BY <2>3, <2>6 DEF Children
  <2>9. d[j] = IllTyped
    BY <1>2, <2>7, <2>8 DEF DimensionOf
  <2>10. j \in ill
    BY <2>7, <2>9 DEF ill
  <2> QED BY <2>2, <2>3, <2>7, <2>10
<1>4. \A k \in 1 .. n : d[k] # IllTyped
  BY <1>3
<1>5. \A k \in 1 .. n : WellFormed(e[k])
  BY <1>2, <1>4 DEF DimensionOf
<1> QED BY <1>1, <1>4, <1>5, NodesOf DEF Sound, d

\* The array of node k, and those of its children.
LEMMA ArraysAre ==
  ASSUME NEW e \in Expressions, NEW bars \in Seq(Candles), NEW k \in DOMAIN e
  PROVE  /\ DOMAIN Evaluate(e, bars)[k] = 1 .. Len(bars)
         /\ \A i \in 1 .. Len(bars) : Evaluate(e, bars)[k][i]
              = BatchAt(e[k], bars, Children(e, k, Evaluate(e, bars)), i)
         /\ Over(e[k], Len(bars), Children(e, k, Evaluate(e, bars)))
<1> DEFINE a == Evaluate(e, bars)
           m == Len(bars)
<1>1. DOMAIN bars = 1 .. m
  OBVIOUS
<1>2. \A j \in DOMAIN e : a[j] = BatchNode(e[j], bars, Children(e, j, a))
  BY EvaluateUnfolds, NodesOf DEF ArraysOn
<1> HIDE DEF a, m
<1>3. \A j \in DOMAIN e : DOMAIN a[j] = 1 .. m
  BY <1>1, <1>2 DEF BatchNode
<1>4. \A i \in 1 .. m : a[k][i] = BatchAt(e[k], bars, Children(e, k, a), i)
  BY <1>1, <1>2 DEF BatchNode
<1>5. Over(e[k], m, Children(e, k, a))
  <2>1. \A c \in DOMAIN e[k].args : e[k].args[c] \in DOMAIN e
    BY NodesOf
  <2> QED BY <1>3, <2>1 DEF Over, Children
<1> QED BY <1>3, <1>4, <1>5 DEF a, m

\* One more bar leaves the arrays as they were.
LEMMA ArraysGrow ==
  ASSUME NEW e \in Expressions, \A k \in DOMAIN e : Sound(e[k]),
         NEW bars \in Seq(Candles), NEW bar \in Candles
  PROVE  \A k \in DOMAIN e :
           /\ \A i \in 1 .. Len(bars) :
                Evaluate(e, Append(bars, bar))[k][i] = Evaluate(e, bars)[k][i]
           /\ Longer(e[k], Len(bars), Children(e, k, Evaluate(e, bars)),
                     Children(e, k, Evaluate(e, Append(bars, bar))))
<1> DEFINE m == Len(bars)
           n == Len(e)
           more == Append(bars, bar)
           a == Evaluate(e, bars)
           b == Evaluate(e, more)
           S == {q \in Nat : \A k \in 1 .. n : k <= q => \A i \in 1 .. m : b[k][i] = a[k][i]}
<1>1. m \in Nat /\ Len(more) = m + 1 /\ more \in Seq(Candles)
  BY LongerBars
<1>2. n \in Nat /\ DOMAIN e = 1 .. n
  BY NodesOf
<1>3. \A k \in 1 .. n :
        /\ Over(e[k], m, Children(e, k, a)) /\ Over(e[k], m + 1, Children(e, k, b))
        /\ \A i \in 1 .. m : a[k][i] = BatchAt(e[k], bars, Children(e, k, a), i)
        /\ \A i \in 1 .. m : b[k][i] = BatchAt(e[k], more, Children(e, k, b), i)
  <2> SUFFICES ASSUME NEW k \in 1 .. n
               PROVE  /\ Over(e[k], m, Children(e, k, a)) /\ Over(e[k], m + 1, Children(e, k, b))
                      /\ \A i \in 1 .. m : a[k][i] = BatchAt(e[k], bars, Children(e, k, a), i)
                      /\ \A i \in 1 .. m : b[k][i] = BatchAt(e[k], more, Children(e, k, b), i)
    OBVIOUS
  <2>1. k \in DOMAIN e
    BY <1>2
  <2>2. \A i \in 1 .. m : a[k][i] = BatchAt(e[k], bars, Children(e, k, a), i)
    BY <2>1, ArraysAre
  <2>3. Over(e[k], m, Children(e, k, a))
    BY <2>1, ArraysAre
  <2> HIDE DEF more
  <2>4. \A i \in 1 .. Len(more) : b[k][i] = BatchAt(e[k], more, Children(e, k, b), i)
    BY <1>1, <2>1, ArraysAre
  <2>5. Over(e[k], Len(more), Children(e, k, b))
    BY <1>1, <2>1, ArraysAre
  <2>6. \A i \in 1 .. m : i \in 1 .. Len(more)
    BY <1>1
  <2> HIDE DEF a, b, m, n
  <2> QED BY <1>1, <2>2, <2>3, <2>4, <2>5, <2>6
<1> HIDE DEF a, b
<1>4. ASSUME NEW k \in 1 .. n, \A j \in 1 .. k - 1 : \A i \in 1 .. m : b[j][i] = a[j][i]
      PROVE  Longer(e[k], m, Children(e, k, a), Children(e, k, b))
  <2>1. \A c \in DOMAIN e[k].args : e[k].args[c] \in 1 .. k - 1
    BY <1>2, NodesOf
  <2> QED BY <1>3, <1>4, <2>1 DEF Longer, Children
<1>5. ASSUME NEW k \in 1 .. n, Longer(e[k], m, Children(e, k, a), Children(e, k, b))
      PROVE  \A i \in 1 .. m : b[k][i] = a[k][i]
  <2> TAKE i \in 1 .. m
  <2>1. Sound(e[k])
    BY <1>2
  <2>2. BatchAt(e[k], more, Children(e, k, b), i) = BatchAt(e[k], bars, Children(e, k, a), i)
    BY <1>5, <2>1, PrefixAt
  <2> QED BY <1>3, <2>2
<1>6. 0 \in S
  OBVIOUS
<1>7. ASSUME NEW q \in Nat, q \in S PROVE q + 1 \in S
  <2> SUFFICES ASSUME q + 1 \in 1 .. n PROVE \A i \in 1 .. m : b[q + 1][i] = a[q + 1][i]
    BY <1>7
  <2>1. \A j \in 1 .. (q + 1) - 1 : \A i \in 1 .. m : b[j][i] = a[j][i]
    BY <1>2, <1>7
  <2> HIDE DEF m, n, S
  <2> QED BY <1>4, <1>5, <2>1
<1>8. n \in S
  <2> HIDE DEF S, n
  <2> QED BY <1>2, <1>6, <1>7, Induction
<1>9. \A k \in 1 .. n : \A i \in 1 .. m : b[k][i] = a[k][i]
  BY <1>2, <1>8
<1>10. \A k \in 1 .. n : Longer(e[k], m, Children(e, k, a), Children(e, k, b))
  <2> TAKE k \in 1 .. n
  <2>1. \A j \in 1 .. k - 1 : \A i \in 1 .. m : b[j][i] = a[j][i]
    BY <1>2, <1>9
  <2> QED BY <1>4, <2>1
<1> QED BY <1>2, <1>9, <1>10 DEF a, b

LEMMA ArrayGrows ==
  ASSUME NEW S, NEW m \in Nat, NEW x \in [1 .. m -> S], NEW y \in [1 .. m + 1 -> S],
         SameTo(x, y, m)
  PROVE  Append(x, y[m + 1]) = y
<1>1. x \in Seq(S) /\ Len(x) = m
  OBVIOUS
<1>2. y \in Seq(S) /\ Len(y) = m + 1 /\ y[m + 1] \in S
  OBVIOUS
<1>3. /\ Append(x, y[m + 1]) \in Seq(S) /\ Len(Append(x, y[m + 1])) = m + 1
      /\ \A i \in 1 .. m : Append(x, y[m + 1])[i] = x[i]
      /\ Append(x, y[m + 1])[m + 1] = y[m + 1]
  BY <1>1, <1>2, AppendProperties
<1>4. \A i \in 1 .. m + 1 : Append(x, y[m + 1])[i] = y[i]
  <2> TAKE i \in 1 .. m + 1
  <2>1. CASE i \in 1 .. m
    BY <1>3, <2>1 DEF SameTo
  <2>2. CASE i = m + 1
    BY <1>3, <2>2
  <2> QED BY <2>1, <2>2
<1> QED BY <1>2, <1>3, <1>4, SeqEqual

-----------------------------------------------------------------------------
(* Features: the streams.                                                  *)

\* Every stream holds the state of its node after the bars so far, and the
\* root has returned its array.
StreamInv ==
  LET arrays == Evaluate(nodes, history) IN
  /\ nodes \in Expressions
  /\ \A k \in DOMAIN nodes : Sound(nodes[k])
  /\ Dimensions(nodes)[Len(nodes)] # IllTyped
  /\ history \in Seq(Candles)
  /\ \A k \in DOMAIN nodes :
       StateIs(nodes[k], ops[k], history, Children(nodes, k, arrays))
  /\ emitted = arrays[Len(nodes)]

\* What the update for bar returns at every node, as its recursion says.
OutsOn(bar, f) ==
  f = [k \in DOMAIN nodes |->
         Returned(nodes[k], ops[k],
                  Updated(nodes[k], ops[k], bar, Children(nodes, k, f)),
                  bar, Children(nodes, k, f))]

LEMMA FeatureInitInv == FeatureInit => StreamInv
<1> SUFFICES ASSUME FeatureInit PROVE StreamInv
  OBVIOUS
<1>1. /\ nodes \in Expressions /\ Dimensions(nodes)[Len(nodes)] # IllTyped
      /\ history = << >> /\ emitted = << >> /\ \A k \in DOMAIN nodes : ops[k] = FreshOp
  BY DEF FeatureInit
<1>2. history \in Seq(Candles) /\ Len(history) = 0
  BY <1>1
<1>3. \A k \in DOMAIN nodes : Sound(nodes[k])
  BY <1>1, CompiledIsSound
<1>4. ASSUME NEW k \in DOMAIN nodes
      PROVE  StateIs(nodes[k], ops[k], history, Children(nodes, k, Evaluate(nodes, history)))
  <2>1. Over(nodes[k], 0, Children(nodes, k, Evaluate(nodes, history)))
    BY <1>1, <1>2, ArraysAre
  <2>2. Sound(nodes[k])
    BY <1>3
  <2>3. StateIs(nodes[k], FreshOp, << >>, Children(nodes, k, Evaluate(nodes, history)))
    BY <2>1, <2>2, StartsFresh
  <2> QED BY <1>1, <2>3
<1>5. emitted = Evaluate(nodes, history)[Len(nodes)]
  <2> DEFINE n == Len(nodes)
             a == Evaluate(nodes, history)
  <2>1. n \in DOMAIN nodes
    BY <1>1, NodesOf
  <2>2. a[n] = BatchNode(nodes[n], history, Children(nodes, n, a))
    BY <1>1, <2>1, EvaluateUnfolds, NodesOf DEF ArraysOn
  <2>3. DOMAIN history = {}
    BY <1>1
  <2> HIDE DEF n, a
  <2>4. a[n] = << >>
    BY <2>2, <2>3 DEF BatchNode
  <2> QED BY <1>1, <2>4 DEF n, a
<1> QED BY <1>1, <1>2, <1>3, <1>4, <1>5 DEF StreamInv

\* The values an update returns are the last ones of the arrays.
LEMMA OutputsAre ==
  ASSUME StreamInv, NEW bar \in Candles
  PROVE  \A k \in DOMAIN nodes :
           /\ Outputs(bar)[k] = Evaluate(nodes, Append(history, bar))[k][Len(history) + 1]
           /\ StateIs(nodes[k], Updated(nodes[k], ops[k], bar, Children(nodes, k, Outputs(bar))),
                      Append(history, bar),
                      Children(nodes, k, Evaluate(nodes, Append(history, bar))))
<1> DEFINE e == nodes
           n == Len(e)
           i == Len(history) + 1
           more == Append(history, bar)
           b == Evaluate(e, more)
           last == [k \in DOMAIN e |-> b[k][i]]
           now == Outputs(bar)
<1>1. /\ e \in Expressions /\ history \in Seq(Candles)
      /\ \A k \in DOMAIN e : Sound(e[k])
      /\ \A k \in DOMAIN e : StateIs(e[k], ops[k], history, Children(e, k, Evaluate(e, history)))
  BY DEF StreamInv
<1>2. n \in Nat /\ DOMAIN e = 1 .. n
  BY <1>1, NodesOf
<1>3. i \in Nat /\ i >= 1 /\ Len(more) = i /\ more \in Seq(Candles)
  BY <1>1, LongerBars
<1>4. ASSUME NEW k \in DOMAIN e
      PROVE  StepIs(e[k], ops[k], bar, Children(e, k, last), more, Children(e, k, b), i)
  <2> DEFINE m == Len(history)
             ch == Children(e, k, Evaluate(e, history))
             ch2 == Children(e, k, b)
             v == Children(e, k, last)
  <2>1. Longer(e[k], m, ch, ch2)
    BY <1>1, ArraysGrow
  <2>2. v = [c \in DOMAIN e[k].args |-> ch2[c][Len(history) + 1]]
    <3>1. \A c \in DOMAIN e[k].args : e[k].args[c] \in DOMAIN e
      BY <1>1, NodesOf
    <3>2. \A c \in DOMAIN e[k].args : last[e[k].args[c]] = ch2[c][i]
      BY <3>1 DEF Children
    <3> HIDE DEF last, b
    <3> QED BY <3>2 DEF Children
  <2>3. Sound(e[k]) /\ StateIs(e[k], ops[k], history, ch)
    BY <1>1
  <2> HIDE DEF ch, ch2, v, b
  <2> QED BY <1>1, <2>1, <2>2, <2>3, StepAt DEF ch2, v
<1>5. OutsOn(bar, last)
  <2>1. \A k \in DOMAIN e : last[k]
          = Returned(e[k], ops[k], Updated(e[k], ops[k], bar, Children(e, k, last)), bar,
                     Children(e, k, last))
    <3> TAKE k \in DOMAIN e
    <3>1. Returned(e[k], ops[k], Updated(e[k], ops[k], bar, Children(e, k, last)), bar,
                   Children(e, k, last)) = BatchAt(e[k], more, Children(e, k, b), i)
      BY <1>4 DEF StepIs
    <3>2. b[k][i] = BatchAt(e[k], more, Children(e, k, b), i)
      <4>1. i \in 1 .. Len(more)
        BY <1>3
      <4> HIDE DEF more, i
      <4> QED BY <1>1, <1>3, <4>1, ArraysAre
    <3> QED BY <3>1, <3>2
  <2>2. last = [k \in DOMAIN e |-> last[k]]
    OBVIOUS
  <2> HIDE DEF last
  <2> QED BY <2>1, <2>2 DEF OutsOn
<1>6. OutsOn(bar, now)
  <2>1. now = CHOOSE f : OutsOn(bar, f)
    BY DEF Outputs, OutsOn
  <2> HIDE DEF now, last
  <2> QED BY <1>5, <2>1
<1> HIDE DEF now, last
<1>7. \A k \in 1 .. n : now[k] = last[k]
  <2> DEFINE S == {q \in Nat : \A k \in 1 .. n : k <= q => now[k] = last[k]}
  <2>1. 0 \in S
    OBVIOUS
  <2>2. ASSUME NEW q \in Nat, q \in S PROVE q + 1 \in S
    <3> SUFFICES ASSUME q + 1 \in 1 .. n PROVE now[q + 1] = last[q + 1]
      BY <2>2
    <3>1. \A j \in 1 .. (q + 1) - 1 : now[j] = last[j]
      BY <1>2, <2>2
    <3>2. q + 1 \in DOMAIN e
      BY <1>2
    <3>3. Children(e, q + 1, now) = Children(e, q + 1, last)
      BY <1>1, <3>1, <3>2, SameChildren
    <3> QED BY <1>5, <1>6, <3>2, <3>3 DEF OutsOn
  <2>3. n \in S
    <3> HIDE DEF S, n
    <3> QED BY <1>2, <2>1, <2>2, Induction
  <2> QED BY <1>2, <2>3
<1>8. ASSUME NEW k \in DOMAIN e PROVE Children(e, k, now) = Children(e, k, last)
  <2>1. \A j \in 1 .. k - 1 : now[j] = last[j]
    BY <1>2, <1>7
  <2> QED BY <1>1, <2>1, SameChildren
<1>9. \A k \in DOMAIN e : now[k] = b[k][i]
  BY <1>2, <1>7 DEF last
<1>10. \A k \in DOMAIN e :
         StateIs(e[k], Updated(e[k], ops[k], bar, Children(e, k, now)), more, Children(e, k, b))
  BY <1>4, <1>8 DEF StepIs
<1> QED BY <1>9, <1>10 DEF now

LEMMA UpdateInv == ASSUME StreamInv, NEW bar \in Candles, Update(bar) PROVE StreamInv'
<1> DEFINE n == Len(nodes)
           m == Len(history)
           more == Append(history, bar)
           a == Evaluate(nodes, history)
           b == Evaluate(nodes, more)
<1>1. /\ nodes \in Expressions /\ history \in Seq(Candles)
      /\ \A k \in DOMAIN nodes : Sound(nodes[k])
      /\ Dimensions(nodes)[Len(nodes)] # IllTyped
      /\ emitted = a[n]
  BY DEF StreamInv
<1>2. /\ nodes' = nodes /\ history' = more
      /\ ops' = [k \in DOMAIN nodes |->
                   Updated(nodes[k], ops[k], bar, Children(nodes, k, Outputs(bar)))]
      /\ emitted' = Append(emitted, Outputs(bar)[n])
  BY DEF Update
<1>3. m \in Nat /\ Len(more) = m + 1 /\ more \in Seq(Candles)
  BY <1>1, LongerBars
<1>4. n \in DOMAIN nodes
  BY <1>1, NodesOf
<1>5. \A k \in DOMAIN nodes : StateIs(nodes[k], ops'[k], more, Children(nodes, k, b))
  BY <1>2, OutputsAre
<1>6. Outputs(bar)[n] = b[n][m + 1]
  BY <1>4, OutputsAre
<1>7. \A i \in 1 .. m : b[n][i] = a[n][i]
  BY <1>1, <1>4, ArraysGrow
<1>8. DOMAIN a[n] = 1 .. m
  BY <1>1, <1>4, ArraysAre
<1>9. DOMAIN b[n] = 1 .. m + 1 /\ b[n] = [i \in 1 .. m + 1 |-> b[n][i]]
  <2> HIDE DEF more
  <2>1. DOMAIN b[n] = 1 .. m + 1
    BY <1>1, <1>3, <1>4, ArraysAre
  <2>2. b[n] = BatchNode(nodes[n], more, Children(nodes, n, b))
    BY <1>1, <1>4, EvaluateUnfolds, NodesOf DEF ArraysOn
  <2> HIDE DEF b, n
  <2>3. b[n] = [i \in DOMAIN b[n] |-> b[n][i]]
    BY <2>2 DEF BatchNode
  <2> QED BY <2>1, <2>3
<1>10. a[n] = [i \in 1 .. m |-> a[n][i]]
  <2>1. a[n] = BatchNode(nodes[n], history, Children(nodes, n, a))
    BY <1>1, <1>4, EvaluateUnfolds, NodesOf DEF ArraysOn
  <2> HIDE DEF a, n
  <2>2. a[n] = [i \in DOMAIN a[n] |-> a[n][i]]
    BY <2>1 DEF BatchNode
  <2> QED BY <1>8, <2>2 DEF n
<1> HIDE DEF a, b, n, m, more
<1>11. emitted' = b[n]
  <2> DEFINE S == {b[n][i] : i \in 1 .. m + 1}
             x == a[n]
             y == b[n]
  <2>1. \A i \in 1 .. m + 1 : y[i] \in S
    OBVIOUS
  <2>2. \A i \in 1 .. m : x[i] \in S
    <3>1. \A i \in 1 .. m : i \in 1 .. m + 1
      BY <1>3
    <3> QED BY <1>7, <2>1, <3>1
  <2> HIDE DEF S
  <2>3. x \in [1 .. m -> S]
    <3>1. [i \in 1 .. m |-> x[i]] \in [1 .. m -> S]
      BY <2>2
    <3> QED BY <1>10, <3>1
  <2>4. y \in [1 .. m + 1 -> S]
    <3>1. [i \in 1 .. m + 1 |-> y[i]] \in [1 .. m + 1 -> S]
      BY <2>1
    <3> QED BY <1>9, <3>1
  <2>5. SameTo(x, y, m)
    BY <1>7 DEF SameTo
  <2> HIDE DEF x, y
  <2>6. Append(x, y[m + 1]) = y
    BY <1>3, <2>3, <2>4, <2>5, ArrayGrows
  <2> QED BY <1>1, <1>2, <1>6, <2>6 DEF x, y
<1> QED BY <1>1, <1>2, <1>3, <1>5, <1>11 DEF StreamInv, b, n, more

LEMMA FeatureInvariance == FeatureSpec => []StreamInv
<1>1. ASSUME StreamInv, [FeatureNext]_featureVars PROVE StreamInv'
  <2>1. ASSUME NEW bar \in Candles, Update(bar) PROVE StreamInv'
    BY <1>1, <2>1, UpdateInv
  <2>2. CASE UNCHANGED featureVars
    BY <1>1, <2>2 DEF StreamInv, featureVars
  <2> QED BY <1>1, <2>1, <2>2 DEF FeatureNext
<1> QED BY <1>1, FeatureInitInv, PTL DEF FeatureSpec

-----------------------------------------------------------------------------
(* Features: the lookback.                                                 *)

LEMMA LargestValue ==
  ASSUME NEW n \in Nat, NEW f, DOMAIN f = 1 .. n, \A c \in 1 .. n : f[c] \in Nat
  PROVE  LET top == Max({0} \cup ToSet(f)) IN
         /\ top \in Nat
         /\ top = 0 \/ \E c \in 1 .. n : top = f[c]
         /\ \A c \in 1 .. n : f[c] <= top
<1> DEFINE S == {m \in Nat : m <= n => \E b \in Nat : \A c \in 1 .. m : f[c] <= b}
           V == {0} \cup ToSet(f)
<1>1. 0 \in S
  OBVIOUS
<1>2. ASSUME NEW m \in Nat, m \in S PROVE m + 1 \in S
  <2> SUFFICES ASSUME m + 1 <= n PROVE \E b \in Nat : \A c \in 1 .. m + 1 : f[c] <= b
    OBVIOUS
  <2>1. PICK b \in Nat : \A c \in 1 .. m : f[c] <= b
    BY <1>2
  <2>2. f[m + 1] \in Nat /\ \A c \in 1 .. m : f[c] \in Nat
    OBVIOUS
  <2>3. \A c \in 1 .. m + 1 : f[c] <= b + f[m + 1]
    BY <2>1, <2>2
  <2>4. b + f[m + 1] \in Nat
    BY <2>2
  <2> HIDE DEF S
  <2> QED BY <2>3, <2>4, Zenon
<1>3. n \in S
  <2> HIDE DEF S
  <2> QED BY <1>1, <1>2, Induction
<1>4. PICK b \in Nat : \A c \in 1 .. n : f[c] <= b
  BY <1>3
<1>5. V \in SUBSET (0 .. b) /\ V # {}
  BY <1>4 DEF ToSet
<1>6. \E x \in V : \A y \in V : x >= y
  <2> HIDE DEF V
  <2> QED BY <1>5, Largest
<1>7. Max(V) \in V /\ \A y \in V : Max(V) >= y
  <2> HIDE DEF V
  <2> QED BY <1>6 DEF Max
<1>8. V \subseteq Nat
  BY <1>5
<1> QED BY <1>7, <1>8 DEF ToSet

\* The children and the own lookback of a node.
LEMMA ArgsOf ==
  ASSUME NEW n, Sound(n)
  PROVE  /\ n.op \in Sources \cup {"constant", "atr", "chop"} => DOMAIN n.args = {}
         /\ n.op \in WindowOps \cup {"ema", "abs", "neg"} => DOMAIN n.args = {1}
         /\ n.op \in {"add", "sub", "gt", "lt"} \cup Crosses => DOMAIN n.args = {1, 2}
<1>1. DOMAIN n.args = 1 .. Len(n.args) /\ Len(n.args) \in Nat
  BY DEF Sound
<1>2. Arity(n.op) >= 0 => Len(n.args) = Arity(n.op)
  BY DEF Sound, WellFormed
<1>3. CASE n.op \in Sources \cup {"constant", "atr", "chop"}
  <2>1. Arity(n.op) = 0
    BY <1>3 DEF Arity
  <2>2. n.op \notin WindowOps \cup Crosses \cup {"ema", "abs", "neg", "add", "sub", "gt", "lt"}
    BY <1>3 DEF Sources, WindowOps, Crosses
  <2> QED BY <1>1, <1>2, <2>1, <2>2
<1>4. CASE n.op \in WindowOps \cup {"ema", "abs", "neg"}
  <2>1. Arity(n.op) = 1
    BY <1>4 DEF Arity, Sources, WindowOps, Crosses
  <2>2. n.op \notin Sources \cup Crosses \cup {"constant", "atr", "chop", "add", "sub", "gt", "lt"}
    BY <1>4 DEF Sources, WindowOps, Crosses
  <2>3. DOMAIN n.args = {1}
    <3>1. Len(n.args) = 1
      BY <1>2, <2>1
    <3>2. 1 .. 1 = {1}
      OBVIOUS
    <3> QED BY <1>1, <3>1, <3>2
  <2> QED BY <2>2, <2>3
<1>5. CASE n.op \in {"add", "sub", "gt", "lt"} \cup Crosses
  <2>1. Arity(n.op) = 2
    BY <1>5 DEF Arity, Sources, WindowOps, Crosses
  <2>2. n.op \notin Sources \cup WindowOps \cup {"constant", "atr", "chop", "ema", "abs", "neg"}
    BY <1>5 DEF Sources, WindowOps, Crosses
  <2>3. DOMAIN n.args = {1, 2}
    <3>1. Len(n.args) = 2
      BY <1>2, <2>1
    <3>2. 1 .. 2 = {1, 2}
      OBVIOUS
    <3> QED BY <1>1, <3>1, <3>2
  <2> QED BY <2>2, <2>3
<1> QED BY <1>3, <1>4, <1>5

LEMMA OwnIs ==
  ASSUME NEW n, Sound(n)
  PROVE  /\ n.op \in Sources \cup Elementwise \cup {"constant", "ema"} => OwnLookback(n) = 0
         /\ n.op \in WindowOps => OwnLookback(n) = Width(n) - 1
         /\ n.op \in {"atr", "chop"} => OwnLookback(n) = n.period - 1
<1>1. n.op \in Sources \cup Elementwise \cup {"constant", "ema"} => OwnLookback(n) = 0
  BY Kinds DEF OwnLookback
<1>2. n.op \in WindowOps => OwnLookback(n) = Width(n) - 1
  BY DEF OwnLookback
<1>3. n.op \in {"atr", "chop"} => OwnLookback(n) = n.period - 1
  BY DEF OwnLookback, Width, Sound
<1> QED BY <1>1, <1>2, <1>3

\* A numeric node reads numbers.
LEMMA NumericNode ==
  ASSUME NEW n, NEW d, n.op \in Ops, Rule(n, d) \notin {IllTyped, "BOOL"}
  PROVE  /\ n.op \notin Crosses \cup {"gt", "lt", "and", "or", "not"}
         /\ n.op \in WindowOps \cup {"ema", "abs", "neg", "add", "sub"} => d[1] \in Numeric
         /\ n.op \in {"add", "sub"} => d[2] \in Numeric
BY DEF Ops, Rule, IllTyped, Sources, Elementwise, Crosses, WindowOps, Numeric, Signed, Comparable

LEMMA NoNumberInFormula ==
  ASSUME NEW op \in WindowOps, NEW w, 1 \in DOMAIN w, w[1] = NaN
  PROVE  Formula(op, w) = NaN
<1>1. ~Finite(w) /\ Isnan(w[1])
  BY DEF Finite, Isnan
<1>2. CASE op \notin {"delta", "ret"}
  BY <1>1, <1>2, Zenon DEF Formula
<1>3. CASE op = "delta"
  BY <1>1, <1>3, Zenon DEF Formula
<1>4. CASE op = "ret"
  BY <1>1, <1>4, Zenon DEF Formula
<1> QED BY <1>2, <1>3, <1>4

\* The children ch, of dimensions d and lookbacks back, keep to their lookbacks.
WarmChildren(n, m, ch, d, back) ==
  /\ DOMAIN back = DOMAIN n.args
  /\ \A c \in DOMAIN n.args :
       /\ back[c] \in Nat
       /\ d[c] # "BOOL" => \A i \in 1 .. m : i <= back[c] => ch[c][i] = NaN

\* A numeric node is NaN as long as its window and its children are.
LEMMA WarmAt ==
  ASSUME NEW n, Sound(n), NEW bars, NEW d, Rule(n, d) \notin {IllTyped, "BOOL"},
         NEW m \in Nat, NEW ch, Over(n, m, ch),
         NEW back, WarmChildren(n, m, ch, d, back),
         NEW i \in 1 .. m, i <= OwnLookback(n) + Max({0} \cup ToSet(back))
  PROVE  BatchAt(n, bars, ch, i) = NaN
<1> DEFINE top == Max({0} \cup ToSet(back))
<1>1. /\ DOMAIN n.args = 1 .. Len(n.args) /\ Len(n.args) \in Nat /\ n.op \in Ops
      /\ n.period \in Nat
  BY DEF Sound
<1>2. top \in Nat /\ (top = 0 \/ \E c \in DOMAIN n.args : top = back[c])
  BY <1>1, LargestValue DEF WarmChildren
<1>3. "BOOL" \notin Numeric
  BY DEF Numeric
<1>4. /\ n.op \notin Crosses \cup {"gt", "lt", "and", "or", "not"}
      /\ n.op \in WindowOps \cup {"ema", "abs", "neg", "add", "sub"} => d[1] # "BOOL"
      /\ n.op \in {"add", "sub"} => d[2] # "BOOL"
  BY <1>1, <1>3, NumericNode
<1>5. \A c \in DOMAIN n.args : d[c] # "BOOL" => \A j \in 1 .. m : j <= back[c] => ch[c][j] = NaN
  BY DEF WarmChildren
<1>6. i <= OwnLookback(n) + top
  OBVIOUS
<1> HIDE DEF top
<1>7. CASE n.op \in Sources \cup {"constant"}
  <2>1. DOMAIN n.args = {} /\ OwnLookback(n) = 0
    BY <1>7, ArgsOf, OwnIs
  <2> QED BY <1>2, <1>6, <2>1
<1>8. CASE n.op \in {"abs", "neg", "add", "sub"}
  <2>1. OwnLookback(n) = 0 /\ \A c \in DOMAIN n.args : c = 1 \/ (c = 2 /\ n.op \in {"add", "sub"})
    <3>1. n.op \in Elementwise
      BY <1>8 DEF Elementwise
    <3> QED BY <1>8, <3>1, ArgsOf, OwnIs
  <2>2. PICK c \in DOMAIN n.args : top = back[c]
    BY <1>2, <1>6, <2>1
  <2>3. d[c] # "BOOL"
    BY <1>4, <1>8, <2>1
  <2>4. ch[c][i] = NaN
    BY <1>5, <1>6, <2>1, <2>2, <2>3, <1>2
  <2> DEFINE v == [x \in DOMAIN ch |-> ch[x][i]]
  <2>5. \E x \in DOMAIN v : Isnan(v[x])
    BY <2>4 DEF Isnan, Over
  <2> HIDE DEF v
  <2>6. PointValue(n, v) = NaN
    BY <1>8, <2>5, Zenon DEF PointValue
  <2>7. n.op \in Elementwise
    BY <1>8 DEF Elementwise
  <2> QED BY <2>6, <2>7, Kinds, Zenon DEF BatchAt, v
<1>9. CASE n.op \in WindowOps
  <2> DEFINE w == Width(n)
             x == ch[1]
  <2>1. 1 \in DOMAIN n.args /\ w \in Nat /\ w >= 1
    BY <1>9, SoundNode
  <2>2. OwnLookback(n) = w - 1 /\ \A c \in DOMAIN n.args : c = 1
    BY <1>9, ArgsOf, OwnIs
  <2>3. BatchAt(n, bars, ch, i) = Rolling(x, w, n.op, i)
    BY <1>9, Kinds, Zenon DEF BatchAt
  <2>4. DOMAIN x = 1 .. m
    BY <2>1 DEF Over
  <2>5. \A j \in 1 .. m : j <= top => x[j] = NaN
    BY <1>2, <1>4, <1>5, <1>9, <2>1, <2>2
  <2> HIDE DEF w, x
  <2>6. CASE i < w
    BY <2>3, <2>6 DEF Rolling
  <2>7. CASE i >= w
    <3> DEFINE s == SubSeq(x, i - w + 1, i)
    <3>1. i - w + 1 \in 1 .. m /\ i - w + 1 <= top
      BY <1>2, <1>6, <2>1, <2>2, <2>7
    <3>2. x[i - w + 1] = NaN
      BY <2>5, <3>1
    <3>3. 1 \in DOMAIN s /\ s[1] = x[i - w + 1]
      BY <2>1, <2>7 DEF s
    <3> HIDE DEF s
    <3>4. Formula(n.op, s) = NaN
      BY <1>9, <3>2, <3>3, NoNumberInFormula
    <3> QED BY <2>1, <2>3, <2>7, <3>4 DEF Rolling, s
  <2> QED BY <2>1, <2>6, <2>7
<1>10. CASE n.op = "ema"
  <2> DEFINE x == ch[1]
             p == n.period
  <2>1. 1 \in DOMAIN n.args
    BY <1>10, SoundNode
  <2>2. OwnLookback(n) = 0 /\ \A c \in DOMAIN n.args : c = 1
    BY <1>10, ArgsOf, OwnIs
  <2>3. BatchAt(n, bars, ch, i) = BatchEma(x, p)[i]
    BY <1>10, Kinds, Zenon DEF BatchAt
  <2>4. DOMAIN x = 1 .. m
    BY <2>1 DEF Over
  <2>5. x[i] = NaN
    BY <1>2, <1>4, <1>5, <1>6, <1>10, <2>1, <2>2
  <2> HIDE DEF x, p
  <2>6. EmaOn(x, p, m, BatchEma(x, p))
    BY <2>4, BatchEmaUnfold
  <2>7. BatchEma(x, p)[i] = NaN
    BY <2>5, <2>6 DEF EmaOn, Isnan
  <2> QED BY <2>3, <2>7
<1>11. CASE n.op \in {"atr", "chop"}
  <2>1. DOMAIN n.args = {} /\ OwnLookback(n) = n.period - 1
    BY <1>1, <1>11, ArgsOf, OwnIs
  <2>2. i < n.period
    <3>1. top = 0
      BY <1>2, <2>1
    <3> QED BY <1>1, <1>6, <2>1, <3>1
  <2>3. CASE n.op = "atr"
    <3>1. BatchAt(n, bars, ch, i) = Rolling(BatchTr(bars), n.period, "sma", i)
      BY <2>3, Kinds, Zenon DEF BatchAt
    <3> QED BY <2>2, <3>1 DEF Rolling
  <2>4. CASE n.op = "chop"
    <3>1. BatchAt(n, bars, ch, i) = BatchChop(bars, n.period, i)
      BY <2>4, Kinds, Zenon DEF BatchAt
    <3> QED BY <2>2, <3>1 DEF BatchChop
  <2> QED BY <1>11, <2>3, <2>4
<1> QED BY <1>1, <1>4, <1>7, <1>8, <1>9, <1>10, <1>11 DEF Ops, Elementwise

\* No numeric node says anything before its lookback is over.
LEMMA WarmUp ==
  ASSUME NEW e \in Expressions, Dimensions(e)[Len(e)] # IllTyped, NEW bars \in Seq(Candles)
  PROVE  \A k \in DOMAIN e : Dimensions(e)[k] # "BOOL" =>
           \A i \in 1 .. Len(bars) : i <= Lookbacks(e)[k] => Evaluate(e, bars)[k][i] = NaN
<1> DEFINE n == Len(e)
           m == Len(bars)
           d == Dimensions(e)
           back == Lookbacks(e)
           a == Evaluate(e, bars)
           Warm(k) == /\ back[k] \in Nat
                      /\ d[k] # "BOOL" => \A i \in 1 .. m : i <= back[k] => a[k][i] = NaN
           S == {q \in Nat : \A k \in 1 .. n : k <= q => Warm(k)}
<1>1. m \in Nat /\ n \in Nat /\ DOMAIN e = 1 .. n
  BY NodesOf
<1>2. \A k \in 1 .. n : Sound(e[k]) /\ d[k] # IllTyped
  BY <1>1, CompiledIsSound
<1>3. \A k \in 1 .. n : d[k] = DimensionOf(e[k], Children(e, k, d))
  BY DimensionsUnfold DEF DimsOn
<1>4. \A k \in 1 .. n : d[k] = Rule(e[k], Children(e, k, d))
  BY <1>2, <1>3 DEF DimensionOf
<1>5. \A k \in 1 .. n : back[k] = OwnLookback(e[k]) + Max({0} \cup ToSet(Children(e, k, back)))
  BY LookbacksUnfold DEF BacksOn
<1>6. ASSUME NEW k \in 1 .. n, \A j \in 1 .. k - 1 : Warm(j) PROVE Warm(k)
  <2> DEFINE node == e[k]
             cd == Children(e, k, d)
             cb == Children(e, k, back)
             ch == Children(e, k, a)
  <2>1. k \in DOMAIN e /\ Sound(node)
    BY <1>1, <1>2
  <2>2. \A c \in DOMAIN node.args : node.args[c] \in 1 .. k - 1
    BY <2>1, NodesOf
  <2>3. WarmChildren(node, m, ch, cd, cb)
    <3> HIDE DEF d, a, back, m
    <3> QED BY <1>6, <2>2 DEF Children, WarmChildren
  <2>4. Over(node, m, ch) /\ \A i \in 1 .. m : a[k][i] = BatchAt(node, bars, ch, i)
    BY <2>1, ArraysAre
  <2>5. DOMAIN node.args = 1 .. Len(node.args) /\ Len(node.args) \in Nat
    BY <2>1 DEF Sound
  <2>6. Max({0} \cup ToSet(cb)) \in Nat
    <3> HIDE DEF cb, node
    <3> QED BY <2>3, <2>5, LargestValue DEF WarmChildren
  <2>7. OwnLookback(node) \in Nat
    BY <2>1, SoundNode DEF OwnLookback, Sound, Width
  <2>8. back[k] \in Nat
    BY <1>5, <2>6, <2>7
  <2>9. ASSUME d[k] # "BOOL", NEW i \in 1 .. m, i <= back[k] PROVE a[k][i] = NaN
    <3>1. Rule(node, cd) \notin {IllTyped, "BOOL"}
      BY <1>2, <1>4, <2>9
    <3>2. i <= OwnLookback(node) + Max({0} \cup ToSet(cb))
      BY <1>5, <2>9
    <3> HIDE DEF node, cd, cb, ch, m, a, d, back
    <3>3. BatchAt(node, bars, ch, i) = NaN
      BY <1>1, <2>1, <2>3, <2>4, <3>1, <3>2, WarmAt
    <3> QED BY <2>4, <3>3
  <2> QED BY <2>8, <2>9
<1>7. 0 \in S
  OBVIOUS
<1>8. ASSUME NEW q \in Nat, q \in S PROVE q + 1 \in S
  <2> HIDE DEF n, Warm
  <2> SUFFICES ASSUME q + 1 \in 1 .. n PROVE Warm(q + 1)
    BY <1>8
  <2>1. \A j \in 1 .. (q + 1) - 1 : Warm(j)
    BY <1>1, <1>8
  <2> QED BY <1>6, <2>1
<1>9. n \in S
  <2> HIDE DEF n, S
  <2> QED BY <1>1, <1>7, <1>8, Induction
<1>10. \A k \in 1 .. n : Warm(k)
  <2> HIDE DEF Warm
  <2> QED BY <1>1, <1>9
<1> QED BY <1>1, <1>10

\* Whatever the expression and however the bars come, the stream of the root
\* has returned, bar by bar, what CompiledFeature.evaluate computes for the whole
\* history, and a numeric feature was NaN until its lookback was over
\* (compiler.py:64-115, primitives.py:226-362).
THEOREM StreamsAlwaysMatchBatch == FeatureSpec => []StreamsMatchBatch
<1>1. StreamInv => StreamsMatchBatch
  <2> SUFFICES ASSUME StreamInv, RootDimension # "BOOL", NEW i \in DOMAIN emitted,
                      i <= Lookbacks(nodes)[Len(nodes)]
               PROVE  emitted[i] = NaN
    BY DEF StreamInv, StreamsMatchBatch
  <2>1. /\ nodes \in Expressions /\ Dimensions(nodes)[Len(nodes)] # IllTyped
        /\ history \in Seq(Candles) /\ emitted = Evaluate(nodes, history)[Len(nodes)]
    BY DEF StreamInv
  <2>2. Len(nodes) \in DOMAIN nodes
    BY <2>1, NodesOf
  <2>3. DOMAIN emitted = 1 .. Len(history)
    BY <2>1, <2>2, ArraysAre
  <2> QED BY <2>1, <2>2, <2>3, WarmUp DEF RootDimension
<1> QED BY <1>1, FeatureInvariance, PTL

-----------------------------------------------------------------------------
(* Features: totals and extremes of a window.                              *)

LEMMA PrevIs ==
  ASSUME NEW x, NEW f, NEW i \in Nat, i >= 1
  PROVE  \/ /\ \A j \in 1 .. i - 1 : Isnan(x[j])
            /\ PrevOf(x, f, i) = NaN
         \/ \E j \in 1 .. i - 1 :
              /\ ~Isnan(x[j]) /\ \A l \in 1 .. i - 1 : ~Isnan(x[l]) => l <= j
              /\ PrevOf(x, f, i) = f[j]
<1> DEFINE seen == { j \in 1 .. i - 1 : ~Isnan(x[j]) }
<1>1. CASE seen = {}
  BY <1>1 DEF PrevOf
<1>2. CASE seen # {}
  <2>1. i - 1 \in Nat /\ seen \in SUBSET (0 .. i - 1)
    OBVIOUS
  <2> HIDE DEF seen
  <2>2. \E j \in seen : \A l \in seen : j >= l
    BY <1>2, <2>1, Largest
  <2>3. Max(seen) \in seen /\ \A l \in seen : Max(seen) >= l
    BY <2>2 DEF Max
  <2>4. PrevOf(x, f, i) = f[Max(seen)]
    BY <1>2 DEF PrevOf, seen
  <2>5. Max(seen) \in 1 .. i - 1 /\ ~Isnan(x[Max(seen)])
    BY <2>3 DEF seen
  <2>6. \A l \in 1 .. i - 1 : ~Isnan(x[l]) => l <= Max(seen)
    <3>1. \A l \in 1 .. i - 1 : ~Isnan(x[l]) => l \in seen
      BY DEF seen
    <3> QED BY <2>3, <2>5, <3>1
  <2> QED BY <2>4, <2>5, <2>6
<1> QED BY <1>1, <1>2

LEMMA MaxFinite ==
  ASSUME NEW S \in SUBSET Int, IsFiniteSet(S), S # {}
  PROVE  /\ Max(S) \in S /\ \A y \in S : Max(S) >= y
         /\ Min(S) \in S /\ \A y \in S : Min(S) <= y
<1> DEFINE G == {q \in SUBSET S : q # {} => /\ \E x \in q : \A y \in q : x >= y
                                            /\ \E x \in q : \A y \in q : x <= y}
<1>1. {} \in G
  OBVIOUS
<1>2. ASSUME NEW q \in SUBSET S, q # {}, \A x \in q : q \ {x} \in G PROVE q \in G
  <2> SUFFICES /\ \E x \in q : \A y \in q : x >= y
               /\ \E x \in q : \A y \in q : x <= y
    OBVIOUS
  <2>1. PICK x \in q : TRUE
    BY <1>2
  <2>2. CASE q = {x}
    BY <2>2
  <2>3. CASE q # {x}
    <3>1. q \ {x} # {} /\ q \ {x} \in G
      BY <1>2, <2>1, <2>3
    <3>2. PICK a \in q \ {x} : \A y \in q \ {x} : a >= y
      BY <3>1
    <3>3. PICK b \in q \ {x} : \A y \in q \ {x} : b <= y
      BY <3>1
    <3>4. \E z \in q : \A y \in q : z >= y
      <4>1. CASE a >= x
        BY <2>1, <3>2, <4>1
      <4>2. CASE x >= a
        BY <2>1, <3>2, <4>2
      <4> QED BY <2>1, <4>1, <4>2
    <3>5. \E z \in q : \A y \in q : z <= y
      <4>1. CASE b <= x
        BY <2>1, <3>3, <4>1
      <4>2. CASE x <= b
        BY <2>1, <3>3, <4>2
      <4> QED BY <2>1, <4>1, <4>2
    <3> QED BY <3>4, <3>5
  <2> QED BY <2>2, <2>3
<1>3. S \in G
  <2> HIDE DEF G
  <2>1. SUBSET S \subseteq G
    BY <1>1, <1>2, SubsetInduction
  <2> QED BY <2>1
<1>4. (\E x \in S : \A y \in S : x >= y) /\ \E x \in S : \A y \in S : x <= y
  BY <1>3
<1> QED BY <1>4 DEF Max, Min

LEMMA MaxTwo ==
  ASSUME NEW a \in Int, NEW b \in Int
  PROVE  Max({a, b}) = IF a >= b THEN a ELSE b
<1> DEFINE S == {a, b}
<1>1. IsFiniteSet(S) /\ S \in SUBSET Int /\ S # {}
  <2>1. IsFiniteSet({a})
    BY FS_Singleton
  <2>2. IsFiniteSet({a} \cup {b})
    BY <2>1, FS_AddElement
  <2>3. {a} \cup {b} = S
    OBVIOUS
  <2> QED BY <2>2, <2>3
<1>2. Max(S) \in S /\ \A y \in S : Max(S) >= y
  <2> HIDE DEF S
  <2> QED BY <1>1, MaxFinite
<1>3. Max(S) \in {a, b} /\ Max(S) >= a /\ Max(S) >= b
  BY <1>2
<1> HIDE DEF S
<1> QED BY <1>3 DEF S

LEMMA MaxOfWindow ==
  ASSUME NEW n \in Nat, n >= 1, NEW V \in SUBSET Int, NEW w \in [1 .. n -> V]
  PROVE  Max(ToSet(w)) \in V /\ Min(ToSet(w)) \in V
<1> DEFINE S == ToSet(w)
<1>1. S = {w[i] : i \in 1 .. n}
  BY DEF ToSet
<1>2. IsFiniteSet(S)
  <2>1. w \in Surjection(1 .. n, S)
    BY <1>1 DEF Surjection
  <2> QED BY <2>1, FS_Interval, FS_Surjection
<1>3. S \subseteq V /\ S # {}
  BY <1>1
<1> HIDE DEF S
<1>4. Max(S) \in S /\ Min(S) \in S
  BY <1>2, <1>3, MaxFinite
<1> QED BY <1>3, <1>4 DEF S

\* r[i] is the sum of the first i values of w.
IsTotal(r, w, n) == r[0] = 0 /\ \A i \in 1 .. n : r[i] = w[i] + r[i - 1]

LEMMA TotalRuns ==
  ASSUME NEW n \in Nat, NEW w \in [1 .. n -> Int]
  PROVE  \E r \in [0 .. n -> Int] : IsTotal(r, w, n) /\ Total(w) = r[n]
<1> DEFINE D == 1 .. n
           pick == [q \in (SUBSET D) \ {{}} |-> CHOOSE i \in q : TRUE]
           it == CHOOSE g : g = [q \in SUBSET D |->
                   IF q = {} THEN 0
                   ELSE w[CHOOSE i \in q : TRUE] + g[q \ {CHOOSE i \in q : TRUE}]]
<1>1. IsFiniteSet(D)
  BY FS_Interval
<1>2. \A q \in (SUBSET D) \ {{}} : pick[q] = (CHOOSE i \in q : TRUE) /\ pick[q] \in q
  OBVIOUS
<1>3. pick \in [(SUBSET D) \ {{}} -> D] /\ w \in [D -> Int]
  OBVIOUS
<1>4. Total(w) = it[D]
  <2>1. DOMAIN w = D
    OBVIOUS
  <2> HIDE DEF D
  <2> QED BY <2>1 DEF Total, FoldSeq, FoldFunction, FoldFunctionOnSet, MapThenFoldSet
<1> HIDE DEF pick, D
<1>5. PICK h \in [SUBSET D -> Int] : IsSum(h, D, w, pick)
  BY <1>1, <1>2, <1>3, SumExists
<1>6. h = [q \in SUBSET D |-> IF q = {} THEN 0
             ELSE w[CHOOSE i \in q : TRUE] + h[q \ {CHOOSE i \in q : TRUE}]]
  <2>1. ASSUME NEW q \in SUBSET D
        PROVE  h[q] = IF q = {} THEN 0
                 ELSE w[CHOOSE i \in q : TRUE] + h[q \ {CHOOSE i \in q : TRUE}]
    BY <1>2, <1>5 DEF IsSum
  <2> QED BY <2>1
<1>7. it = [q \in SUBSET D |-> IF q = {} THEN 0
              ELSE w[CHOOSE i \in q : TRUE] + it[q \ {CHOOSE i \in q : TRUE}]]
  BY <1>6
<1> HIDE DEF it
<1>8. \A q \in SUBSET D : it[q] = h[q]
  <2>1. it[{}] = h[{}]
    BY <1>6, <1>7
  <2>2. ASSUME NEW q \in SUBSET D, q # {}
        PROVE  \E x \in q : it[q \ {x}] = h[q \ {x}] => it[q] = h[q]
    <3> DEFINE x == CHOOSE i \in q : TRUE
    <3>1. x \in q
      BY <2>2
    <3>2. it[q] = w[x] + it[q \ {x}]
      BY <1>7, <2>2
    <3>3. h[q] = w[x] + h[q \ {x}]
      BY <1>6, <2>2
    <3> HIDE DEF x
    <3> QED BY <3>1, <3>2, <3>3
  <2>3. AgreeStepwise(it, h, D)
    BY <2>1, <2>2 DEF AgreeStepwise
  <2> QED BY <1>1, <2>3, FoldUnique
<1>9. TakesOutAny(h, w, D)
  <2>1. TakesOut(h, w, D)
    BY <1>2, <1>5 DEF IsSum, TakesOut
  <2> QED BY <1>1, <1>3, <2>1, SumRemoves
<1> DEFINE r == [i \in 0 .. n |-> h[1 .. i]]
<1>10. r \in [0 .. n -> Int]
  BY DEF D
<1>11. r[0] = 0
  <2>1. {} \in SUBSET D /\ 1 .. 0 = {} /\ 0 \in 0 .. n
    OBVIOUS
  <2>2. h[{}] = 0
    BY <1>5, <2>1 DEF IsSum
  <2> QED BY <2>1, <2>2
<1>12. ASSUME NEW i \in 1 .. n PROVE r[i] = w[i] + r[i - 1]
  <2>1. (1 .. i) \ {i} = 1 .. i - 1 /\ i \in 1 .. i /\ 1 .. i \in SUBSET D /\ i - 1 \in 0 .. n
    BY DEF D
  <2>2. h[1 .. i] = w[i] + h[(1 .. i) \ {i}]
    BY <1>9, <2>1 DEF TakesOutAny
  <2>3. r[i] = h[1 .. i] /\ r[i - 1] = h[1 .. i - 1]
    BY <2>1
  <2> QED BY <2>1, <2>2, <2>3
<1>13. Total(w) = r[n]
  BY <1>4, <1>8 DEF D
<1> HIDE DEF r
<1> QED BY <1>10, <1>11, <1>12, <1>13 DEF IsTotal

LEMMA TotalBounds ==
  ASSUME NEW n \in Nat, NEW w \in [1 .. n -> Int]
  PROVE  /\ Total(w) \in Int
         /\ (\A i \in 1 .. n : w[i] >= 0) => Total(w) >= 0
         /\ (\A i \in 1 .. n : w[i] \in 0 .. 100) => Total(w) \in 0 .. 100 * n
<1>1. PICK r \in [0 .. n -> Int] : IsTotal(r, w, n) /\ Total(w) = r[n]
  BY TotalRuns
<1>2. \A i \in 0 .. n : i + 1 <= n => /\ r[i + 1] = w[i + 1] + r[i] /\ r[i] \in Int
                                     /\ w[i + 1] \in Int /\ i + 1 \in 1 .. n
  <2> SUFFICES ASSUME NEW i \in 0 .. n, i + 1 <= n
               PROVE  /\ r[i + 1] = w[i + 1] + r[i] /\ r[i] \in Int
                      /\ w[i + 1] \in Int /\ i + 1 \in 1 .. n
    OBVIOUS
  <2>1. i + 1 \in 1 .. n /\ (i + 1) - 1 = i
    OBVIOUS
  <2> QED BY <1>1, <2>1 DEF IsTotal
<1>3. Total(w) \in Int /\ r[0] = 0
  BY <1>1 DEF IsTotal
<1>4. ASSUME \A i \in 1 .. n : w[i] >= 0 PROVE Total(w) >= 0
  <2> DEFINE S == {i \in Nat : i <= n => r[i] >= 0}
  <2>1. 0 \in S
    BY <1>3
  <2>2. ASSUME NEW i \in Nat, i \in S PROVE i + 1 \in S
    BY <1>2, <1>4, <2>2
  <2>3. n \in S
    <3> HIDE DEF S
    <3> QED BY <2>1, <2>2, Induction
  <2> QED BY <1>1, <2>3
<1>5. ASSUME \A i \in 1 .. n : w[i] \in 0 .. 100 PROVE Total(w) \in 0 .. 100 * n
  <2> DEFINE S == {i \in Nat : i <= n => r[i] >= 0 /\ r[i] <= 100 * i}
  <2>1. 0 \in S
    BY <1>3
  <2>2. ASSUME NEW i \in Nat, i \in S PROVE i + 1 \in S
    <3> SUFFICES ASSUME i + 1 <= n PROVE r[i + 1] >= 0 /\ r[i + 1] <= 100 * (i + 1)
      OBVIOUS
    <3>1. w[i + 1] \in 0 .. 100 /\ r[i + 1] = w[i + 1] + r[i] /\ r[i] \in Int
      BY <1>2, <1>5
    <3>2. r[i] >= 0 /\ r[i] <= 100 * i
      BY <2>2
    <3>3. \A a \in Int, b \in 0 .. 100 :
            a >= 0 /\ a <= 100 * i => b + a >= 0 /\ b + a <= 100 * (i + 1)
      OBVIOUS
    <3> QED BY <3>1, <3>2, <3>3
  <2>3. n \in S
    <3> HIDE DEF S
    <3> QED BY <2>1, <2>2, Induction
  <2> QED BY <1>1, <1>3, <2>3
<1> QED BY <1>3, <1>4, <1>5

\* The rises less the falls of a window lead from its first value to its last.
LEMMA PathLeads ==
  ASSUME NEW n \in Nat, n >= 1, NEW w \in [1 .. n -> Int], Len(w) = n
  PROVE  Ups(w) \in Nat /\ Downs(w) \in Nat /\ Ups(w) - Downs(w) = w[n] - w[1]
<1> DEFINE m == n - 1
           c == [i \in 1 .. m |-> w[i + 1] - w[i]]
           up == [i \in 1 .. m |-> Max({c[i], 0})]
           down == [i \in 1 .. m |-> Max({-c[i], 0})]
<1>1. m \in Nat /\ \A i \in 1 .. m : i \in 1 .. n /\ i + 1 \in 1 .. n
  OBVIOUS
<1>2. \A i \in 1 .. m : c[i] \in Int /\ c[i] = w[i + 1] - w[i] /\ -c[i] \in Int
  BY <1>1
<1>3. Changes(w) = c /\ DOMAIN c = 1 .. m
  BY DEF Changes
<1> HIDE DEF c
<1>4. Ups(w) = Total(up) /\ Downs(w) = Total(down)
  BY <1>3 DEF Ups, Downs
<1>5. \A i \in 1 .. m : /\ up[i] = (IF c[i] >= 0 THEN c[i] ELSE 0)
                        /\ down[i] = (IF -c[i] >= 0 THEN -c[i] ELSE 0)
                        /\ up[i] \in Int /\ down[i] \in Int
  <2> TAKE i \in 1 .. m
  <2>1. \A a \in Int : Max({a, 0}) = (IF a >= 0 THEN a ELSE 0) /\ Max({a, 0}) \in Int
    BY MaxTwo
  <2>2. up[i] = Max({c[i], 0}) /\ down[i] = Max({-c[i], 0})
    OBVIOUS
  <2>3. c[i] \in Int /\ -c[i] \in Int
    BY <1>2
  <2> QED BY <2>1, <2>2, <2>3
<1>6. up \in [1 .. m -> Int] /\ down \in [1 .. m -> Int]
  <2>1. DOMAIN up = 1 .. m /\ DOMAIN down = 1 .. m
    OBVIOUS
  <2>2. up = [i \in 1 .. m |-> up[i]] /\ down = [i \in 1 .. m |-> down[i]]
    OBVIOUS
  <2> HIDE DEF up, down
  <2> QED BY <1>5, <2>2
<1> HIDE DEF up, down, m
<1>7. \A i \in 1 .. m : up[i] >= 0 /\ down[i] >= 0 /\ up[i] - down[i] = w[i + 1] - w[i]
  <2> TAKE i \in 1 .. m
  <2>1. \A a \in Int : /\ (IF a >= 0 THEN a ELSE 0) >= 0 /\ (IF -a >= 0 THEN -a ELSE 0) >= 0
                        /\ (IF a >= 0 THEN a ELSE 0) - (IF -a >= 0 THEN -a ELSE 0) = a
    OBVIOUS
  <2>2. c[i] \in Int /\ c[i] = w[i + 1] - w[i]
    BY <1>2
  <2> QED BY <1>5, <2>1, <2>2
<1>8. Ups(w) \in Nat /\ Downs(w) \in Nat
  <2>1. Total(up) \in Int /\ Total(up) >= 0
    BY <1>1, <1>6, <1>7, TotalBounds
  <2>2. Total(down) \in Int /\ Total(down) >= 0
    BY <1>1, <1>6, <1>7, TotalBounds
  <2> QED BY <1>4, <2>1, <2>2
<1>9. PICK u \in [0 .. m -> Int] : IsTotal(u, up, m) /\ Total(up) = u[m]
  BY <1>1, <1>6, TotalRuns
<1>10. PICK d \in [0 .. m -> Int] : IsTotal(d, down, m) /\ Total(down) = d[m]
  BY <1>1, <1>6, TotalRuns
<1> DEFINE S == {i \in Nat : i <= m => u[i] - d[i] = w[i + 1] - w[1]}
<1>11. 0 \in S
  BY <1>9, <1>10 DEF IsTotal
<1>12. ASSUME NEW i \in Nat, i \in S PROVE i + 1 \in S
  <2> SUFFICES ASSUME i + 1 <= m PROVE u[i + 1] - d[i + 1] = w[(i + 1) + 1] - w[1]
    OBVIOUS
  <2> DEFINE j == i + 1
  <2>1. j \in 1 .. m /\ j - 1 = i /\ i \in 0 .. m /\ j \in 1 .. n /\ j + 1 \in 1 .. n
    BY <1>1
  <2>2. u[i] - d[i] = w[j] - w[1]
    BY <1>12, <2>1
  <2> HIDE DEF j
  <2>3. u[j] = up[j] + u[i] /\ d[j] = down[j] + d[i]
    BY <1>9, <1>10, <2>1 DEF IsTotal
  <2>4. up[j] - down[j] = w[j + 1] - w[j]
    BY <1>7, <2>1
  <2>5. /\ up[j] \in Int /\ down[j] \in Int /\ u[i] \in Int /\ d[i] \in Int
        /\ w[j + 1] \in Int /\ w[j] \in Int /\ w[1] \in Int
    BY <1>6, <2>1
  <2>6. \A p, q, x, y \in Int : (p + x) - (q + y) = (p - q) + (x - y)
    OBVIOUS
  <2>7. u[j] - d[j] = (up[j] - down[j]) + (u[i] - d[i])
    BY <2>3, <2>5, <2>6
  <2>8. \A p, q, x \in Int : (p - q) + (q - x) = p - x
    OBVIOUS
  <2>9. (w[j + 1] - w[j]) + (w[j] - w[1]) = w[j + 1] - w[1]
    BY <2>5, <2>8
  <2>10. u[j] - d[j] = w[j + 1] - w[1]
    BY <2>2, <2>4, <2>7, <2>9, Zenon
  <2> QED BY <2>10 DEF j
<1>13. m \in S
  <2> HIDE DEF S
  <2> QED BY <1>1, <1>11, <1>12, Induction
<1>14. u[m] - d[m] = w[m + 1] - w[1]
  BY <1>1, <1>13
<1> QED BY <1>4, <1>8, <1>9, <1>10, <1>14 DEF m

-----------------------------------------------------------------------------
(* Features: the type of a window formula.                                 *)

Values == Int \cup {NaN}

\* The values of an oscillator, in percent.
Scores == 0 .. 100 \cup {NaN}

LEMMA DivType == ASSUME NEW a \in Int, NEW b \in Int, b >= 1 PROVE a \div b \in Int
OBVIOUS

LEMMA PercentType ==
  ASSUME NEW a \in Int, NEW b \in Int, b # 0
  PROVE  Percent(a, b) \in Int
BY DEF Percent

LEMMA PercentShare ==
  ASSUME NEW a \in Nat, NEW b \in Nat, b >= 1, a <= b
  PROVE  Percent(a, b) \in 0 .. 100
<1> DEFINE q == (100 * a) \div b
<1>1. Percent(a, b) = q
  BY DEF Percent
<1>2. 100 * a \in Nat
  OBVIOUS
<1>3. q \in Nat /\ b * q <= 100 * a
  <2> DEFINE c == 100 * a
  <2>1. c \in Nat
    BY <1>2
  <2> HIDE DEF c
  <2>2. c \div b \in Nat /\ b * (c \div b) <= c
    BY <2>1, DivBounds
  <2> QED BY <2>2 DEF c
<1> HIDE DEF q
<1>4. q * b <= 100 * b
  <2>1. b * q = q * b /\ b * q \in Int
    BY <1>3
  <2>2. 100 * a <= 100 * b
    OBVIOUS
  <2> QED BY <1>2, <1>3, <2>1, <2>2
<1>5. q <= 100
  BY <1>3, <1>4, Cancel
<1> QED BY <1>1, <1>3, <1>5

\* A window of n values; if all are numbers, it is one of numbers.
LEMMA FiniteWindow ==
  ASSUME NEW n \in Nat, n >= 1, NEW V \in SUBSET Int, NEW w \in [1 .. n -> V \cup {NaN}]
  PROVE  /\ Len(w) = n /\ DOMAIN w = 1 .. n
         /\ w[1] \in V \cup {NaN} /\ w[n] \in V \cup {NaN}
         /\ Finite(w) => w \in [1 .. n -> V] /\ w[1] \in V /\ w[n] \in V
<1>1. w \in Seq(V \cup {NaN}) /\ DOMAIN w = 1 .. n
  OBVIOUS
<1>2. Len(w) = n
  BY <1>1
<1>3. 1 \in 1 .. n /\ n \in 1 .. n
  OBVIOUS
<1>4. ASSUME Finite(w) PROVE w \in [1 .. n -> V]
  <2>1. \A i \in 1 .. n : w[i] \in V
    BY <1>1, <1>4 DEF Finite, Isnan
  <2> QED BY <1>1, <2>1
<1> QED BY <1>1, <1>2, <1>3, <1>4

\* What these formulas return lies where the numbers of the window lie.
LEMMA FormulaKeeps ==
  ASSUME NEW n \in Nat, n >= 1, NEW V \in {Int, 0 .. 100}, NEW w \in [1 .. n -> V \cup {NaN}],
         NEW op \in {"sma", "highest", "lowest"}
  PROVE  Formula(op, w) \in V \cup {NaN}
<1>1. V \in SUBSET Int
  OBVIOUS
<1>2. Len(w) = n /\ (Finite(w) => w \in [1 .. n -> V])
  BY <1>1, FiniteWindow
<1>3. CASE ~Finite(w)
  <2>1. op \notin {"delta", "ret"}
    OBVIOUS
  <2>2. Formula(op, w) = NaN
    BY <1>3, <2>1, Zenon DEF Formula
  <2> QED BY <2>2
<1>4. CASE Finite(w)
  <2>1. w \in [1 .. n -> V] /\ w \in [1 .. n -> Int]
    BY <1>1, <1>2, <1>4
  <2>2. CASE op = "sma"
    <3>1. Formula(op, w) = Total(w) \div n
      BY <1>2, <1>4, <2>2, Zenon DEF Formula
    <3>2. Total(w) \in Int /\ ((\A i \in 1 .. n : w[i] \in 0 .. 100) => Total(w) \in 0 .. 100 * n)
      BY <2>1, TotalBounds
    <3>3. Total(w) \div n \in Int
      BY <3>2, DivType
    <3>4. CASE V = 0 .. 100
      <4>1. Total(w) \in Nat /\ Total(w) <= 100 * n
        BY <2>1, <3>2, <3>4
      <4> DEFINE q == Total(w) \div n
      <4>2. q \in Nat /\ n * q <= Total(w)
        BY <4>1, DivBounds
      <4> HIDE DEF q
      <4>3. q * n <= 100 * n
        <5>1. n * q = q * n /\ n * q \in Int
          BY <4>2
        <5> QED BY <4>1, <4>2, <5>1
      <4>4. q <= 100
        BY <4>2, <4>3, Cancel
      <4>5. q \in 0 .. 100
        BY <4>2, <4>4
      <4> QED BY <3>1, <3>4, <4>5, Zenon DEF q
    <3> QED BY <3>1, <3>3, <3>4
  <2>3. CASE op = "highest"
    <3>1. Formula(op, w) = Max(ToSet(w))
      BY <1>4, <2>3, Zenon DEF Formula
    <3> QED BY <1>1, <2>1, <3>1, MaxOfWindow
  <2>4. CASE op = "lowest"
    <3>1. Formula(op, w) = Min(ToSet(w))
      BY <1>4, <2>4, Zenon DEF Formula
    <3> QED BY <1>1, <2>1, <3>1, MaxOfWindow
  <2> QED BY <2>2, <2>3, <2>4
<1> QED BY <1>3, <1>4

\* Every window formula returns a number or NaN ...
LEMMA FormulaType ==
  ASSUME NEW n \in Nat, n >= 1, NEW w \in [1 .. n -> Values],
         NEW op \in {"delta", "ret", "stdev", "zscore"}
  PROVE  Formula(op, w) \in Values
<1>1. /\ Len(w) = n /\ w[1] \in Values /\ w[n] \in Values
      /\ Finite(w) => w \in [1 .. n -> Int] /\ w[1] \in Int /\ w[n] \in Int
  BY FiniteWindow DEF Values
<1> DEFINE first == w[1]
           last == w[n]
           ends == ~Isnan(first) /\ ~Isnan(last)
<1>2. ends => first \in Int /\ last \in Int /\ last - first \in Int
  BY <1>1 DEF Isnan, Values
<1>3. NaN \in Values /\ \A x \in Int : x \in Values
  BY DEF Values
<1>4. CASE op = "delta"
  <2>1. Formula(op, w) = IF ends THEN last - first ELSE NaN
    BY <1>1, <1>4, Zenon DEF Formula
  <2> HIDE DEF ends, first, last
  <2> QED BY <1>2, <1>3, <2>1
<1>5. CASE op = "ret"
  <2>1. Formula(op, w) = IF ends /\ first # 0 THEN Percent(last - first, first) ELSE NaN
    BY <1>1, <1>5, Zenon DEF Formula
  <2> HIDE DEF ends, first, last
  <2>2. ends /\ first # 0 => Percent(last - first, first) \in Int
    BY <1>2, PercentType
  <2> QED BY <1>3, <2>1, <2>2
<1>6. CASE op \in {"stdev", "zscore"} /\ ~Finite(w)
  <2>1. op \notin {"delta", "ret"}
    BY <1>6
  <2>2. Formula(op, w) = NaN
    BY <1>6, <2>1, Zenon DEF Formula
  <2> QED BY <1>3, <2>2
<1>7. CASE op \in {"stdev", "zscore"} /\ Finite(w)
  <2>1. w \in [1 .. n -> Int] /\ last \in Int
    BY <1>1, <1>7
  <2> DEFINE squares == [i \in DOMAIN w |-> w[i] * w[i]]
  <2>2. squares \in [1 .. n -> Int]
    <3>1. \A i \in 1 .. n : w[i] * w[i] \in Int
      BY <2>1, ProductType
    <3> QED BY <2>1, <3>1
  <2> HIDE DEF squares
  <2>3. Total(squares) \in Int /\ Total(w) \in Int
    BY <2>1, <2>2, TotalBounds
  <2>4. n * Total(squares) \in Int /\ Total(w) * Total(w) \in Int /\ n * last \in Int
    BY <2>1, <2>3, ProductType
  <2>5. Deviation(w) = n * Total(squares) - Total(w) * Total(w)
    BY <1>1 DEF Deviation, squares
  <2>6. \A a, b \in Int : a - b \in Int
    OBVIOUS
  <2>7. Deviation(w) \in Int /\ n * last - Total(w) \in Int
    BY <2>3, <2>4, <2>5, <2>6, Zenon
  <2>8. CASE op = "stdev"
    <3>1. Formula(op, w) = Deviation(w)
      BY <1>7, <2>8, Zenon DEF Formula
    <3> QED BY <1>3, <2>7, <3>1
  <2>9. CASE op = "zscore"
    <3>1. Formula(op, w) = IF Deviation(w) = 0 THEN NaN ELSE n * last - Total(w)
      BY <1>1, <1>7, <2>9, Zenon DEF Formula
    <3> QED BY <1>3, <2>7, <3>1, Zenon
  <2> QED BY <1>7, <2>8, <2>9
<1> QED BY <1>4, <1>5, <1>6, <1>7

\* ... and ranks, RSI and the efficiency ratio are shares.
LEMMA FormulaShares ==
  ASSUME NEW n \in Nat, n >= 1, NEW w \in [1 .. n -> Values],
         NEW op \in {"rank", "efficiency_ratio", "rsi"}
  PROVE  Formula(op, w) \in Scores
<1>1. /\ Len(w) = n /\ DOMAIN w = 1 .. n
      /\ Finite(w) => w \in [1 .. n -> Int] /\ w[1] \in Int /\ w[n] \in Int
  BY FiniteWindow DEF Values
<1>2. NaN \in Scores /\ 50 \in Scores /\ \A x \in 0 .. 100 : x \in Scores
  BY DEF Scores
<1>3. CASE ~Finite(w)
  <2>1. op \notin {"delta", "ret"}
    OBVIOUS
  <2>2. Formula(op, w) = NaN
    BY <1>3, <2>1, Zenon DEF Formula
  <2> QED BY <1>2, <2>2
<1>4. CASE Finite(w)
  <2> DEFINE u == Ups(w)
             d == Downs(w)
  <2>1. u \in Nat /\ d \in Nat /\ u - d = w[n] - w[1] /\ w[n] \in Int /\ w[1] \in Int
    BY <1>1, <1>4, PathLeads
  <2>2. Path(w) = u + d /\ Path(w) \in Nat /\ (Path(w) # 0 => Path(w) >= 1) /\ u <= Path(w)
    <3>1. Path(w) = u + d
      BY DEF Path
    <3> HIDE DEF u, d
    <3> QED BY <2>1, <3>1
  <2>3. CASE op = "rank"
    <3> DEFINE below == { i \in DOMAIN w : w[i] <= w[n] }
    <3>1. below \in SUBSET (1 .. n)
      BY <1>1
    <3>2. IsFiniteSet(1 .. n) /\ Cardinality(1 .. n) = n
      BY FS_Interval
    <3>3. Formula(op, w) = Percent(Cardinality(below), n)
      BY <1>1, <1>4, <2>3, Zenon DEF Formula
    <3> HIDE DEF below
    <3>4. IsFiniteSet(below) /\ Cardinality(below) <= Cardinality(1 .. n)
      BY <3>1, <3>2, FS_Subset, Zenon
    <3>5. Cardinality(below) \in Nat /\ Cardinality(below) <= n
      BY <3>2, <3>4, FS_CardinalityType, Zenon
    <3>6. Percent(Cardinality(below), n) \in 0 .. 100
      BY <3>5, PercentShare
    <3> QED BY <1>2, <3>3, <3>6
  <2>4. CASE op = "efficiency_ratio"
    <3> DEFINE gain == Abs(w[n] - w[1])
    <3>1. Formula(op, w) = IF Path(w) = 0 THEN NaN ELSE Percent(gain, Path(w))
      BY <1>1, <1>4, <2>4, Zenon DEF Formula
    <3>2. gain \in Nat /\ gain <= Path(w)
      <4> HIDE DEF u, d
      <4> QED BY <2>1, <2>2 DEF Abs
    <3> HIDE DEF gain
    <3>3. Path(w) # 0 => Percent(gain, Path(w)) \in 0 .. 100
      BY <2>2, <3>2, PercentShare
    <3> QED BY <1>2, <3>1, <3>3
  <2>5. CASE op = "rsi"
    <3>1. Formula(op, w) = IF Path(w) = 0 THEN 50 ELSE Percent(Ups(w), Path(w))
      BY <1>4, <2>5, Zenon DEF Formula
    <3>2. Path(w) # 0 => Percent(u, Path(w)) \in 0 .. 100
      <4> HIDE DEF u
      <4> QED BY <2>1, <2>2, PercentShare
    <3> QED BY <1>2, <3>1, <3>2
  <2> QED BY <2>3, <2>4, <2>5
<1> QED BY <1>3, <1>4

-----------------------------------------------------------------------------
(* Features: the type of an array.                                         *)

LEMMA FloorBounds ==
  ASSUME NEW c \in Int, NEW b \in Int, b >= 1
  PROVE  c \div b \in Int /\ b * (c \div b) <= c /\ c < b * (c \div b) + b
OBVIOUS

\* Of two values of an oscillator the smoothed one lies between them.
LEMMA SmoothedBetween ==
  ASSUME NEW a \in 0 .. 100, NEW b \in 0 .. 100, NEW p \in Nat, p >= 1
  PROVE  a + (2 * (b - a)) \div (p + 1) \in 0 .. 100
<1> DEFINE D == p + 1
           c == 2 * (b - a)
           q == c \div D
<1>1. D \in Int /\ D >= 2 /\ c \in Int
  OBVIOUS
<1>2. q \in Int /\ D * q <= c /\ c < D * q + D
  <2> HIDE DEF D, c
  <2> QED BY <1>1, FloorBounds
<1>3. c = 2 * (b - a) /\ a \in Int /\ b \in Int /\ b - a \in Int
  OBVIOUS
<1>4. SUFFICES a + q \in 0 .. 100
  OBVIOUS
<1> HIDE DEF D, c, q
<1>5. D * q \in Int
  BY <1>1, <1>2, ProductType
<1>6. CASE b >= a
  <2>1. q >= 0
    <3> SUFFICES ASSUME q <= -1 PROVE FALSE
      BY <1>2
    <3>1. q * D <= (-1) * D
      BY <1>1, <1>2, Scale
    <3>2. q * D = D * q
      BY <1>1, <1>2
    <3>3. c >= 0
      BY <1>3, <1>6
    <3> QED BY <1>1, <1>2, <1>5, <3>1, <3>2, <3>3
  <2>2. 2 * q <= D * q
    BY <1>1, <1>2, <2>1, Scale
  <2>3. q <= b - a
    BY <1>2, <1>3, <1>5, <2>2
  <2> QED BY <1>2, <1>3, <2>1, <2>3
<1>7. CASE b < a
  <2>1. q <= 0
    <3> SUFFICES ASSUME q >= 1 PROVE FALSE
      BY <1>2
    <3>1. 1 * D <= q * D
      BY <1>1, <1>2, Scale
    <3>2. q * D = D * q
      BY <1>1, <1>2
    <3>3. c <= 0
      BY <1>3, <1>7
    <3> QED BY <1>1, <1>2, <1>5, <3>1, <3>2, <3>3
  <2>2. q >= b - a
    <3> SUFFICES ASSUME q + 1 <= b - a PROVE FALSE
      BY <1>2, <1>3
    <3> DEFINE r == -(q + 1)
    <3>1. r \in Int /\ r >= 0 /\ q = -r - 1
      BY <1>2, <1>3, <1>7
    <3>2. 2 * r <= D * r
      <4> HIDE DEF r
      <4> QED BY <1>1, <3>1, Scale
    <3>3. D * q + D = -(D * r)
      <4>1. \A x, y \in Int : x * (-y - 1) + x = -(x * y)
        OBVIOUS
      <4> HIDE DEF r
      <4> QED BY <1>1, <3>1, <4>1
    <3>4. c >= -(2 * r)
      BY <1>2, <1>3
    <3>5. D * r \in Int /\ 2 * r \in Int
      <4> HIDE DEF r
      <4> QED BY <1>1, <3>1, ProductType
    <3> HIDE DEF r
    <3> QED BY <1>1, <1>2, <3>2, <3>3, <3>4, <3>5
  <2> QED BY <1>2, <1>3, <2>1, <2>2
<1> QED BY <1>3, <1>6, <1>7

LEMMA SmoothedKeeps ==
  ASSUME NEW V \in {Int, 0 .. 100}, NEW prev \in V \cup {NaN}, NEW x \in V,
         NEW p \in Nat, p >= 1
  PROVE  Smoothed(prev, x, p) \in V
<1>1. CASE Isnan(prev)
  BY <1>1 DEF Smoothed
<1>2. CASE ~Isnan(prev)
  <2>1. prev \in V /\ Smoothed(prev, x, p) = prev + (2 * (x - prev)) \div (p + 1)
    BY <1>2 DEF Smoothed, Isnan
  <2>2. CASE V = Int
    <3>1. 2 * (x - prev) \in Int /\ p + 1 \in Int /\ p + 1 >= 1
      BY <2>1, <2>2
    <3>2. (2 * (x - prev)) \div (p + 1) \in Int
      BY <3>1, DivType
    <3> QED BY <2>1, <2>2, <3>2
  <2>3. CASE V = 0 .. 100
    <3>1. prev \in 0 .. 100 /\ x \in 0 .. 100
      BY <2>1, <2>3
    <3>2. prev + (2 * (x - prev)) \div (p + 1) \in 0 .. 100
      BY <3>1, SmoothedBetween, Zenon
    <3> QED BY <2>1, <2>3, <3>2, Zenon
  <2> QED BY <2>2, <2>3
<1> QED BY <1>1, <1>2

LEMMA EmaKeeps ==
  ASSUME NEW m \in Nat, NEW V \in {Int, 0 .. 100}, NEW p \in Nat, p >= 1,
         NEW x, DOMAIN x = 1 .. m, \A j \in 1 .. m : x[j] \in V \cup {NaN}
  PROVE  \A j \in 1 .. m : BatchEma(x, p)[j] \in V \cup {NaN}
<1> DEFINE f == BatchEma(x, p)
           S == {q \in Nat : \A j \in 1 .. m : j <= q => f[j] \in V \cup {NaN}}
<1>1. \A j \in 1 .. m : f[j] = IF Isnan(x[j]) THEN NaN ELSE Smoothed(PrevOf(x, f, j), x[j], p)
  BY BatchEmaUnfold DEF EmaOn
<1> HIDE DEF f
<1>2. ASSUME NEW j \in 1 .. m, \A l \in 1 .. j - 1 : f[l] \in V \cup {NaN}
      PROVE  f[j] \in V \cup {NaN}
  <2>1. PrevOf(x, f, j) \in V \cup {NaN}
    BY <1>2, PrevIs
  <2>2. CASE Isnan(x[j])
    BY <1>1, <2>2
  <2>3. CASE ~Isnan(x[j])
    <3>1. x[j] \in V /\ f[j] = Smoothed(PrevOf(x, f, j), x[j], p)
      BY <1>1, <2>3 DEF Isnan
    <3>2. Smoothed(PrevOf(x, f, j), x[j], p) \in V
      BY <2>1, <3>1, SmoothedKeeps, Zenon
    <3> QED BY <3>1, <3>2, Zenon
  <2> QED BY <2>2, <2>3
<1>3. 0 \in S
  OBVIOUS
<1>4. ASSUME NEW q \in Nat, q \in S PROVE q + 1 \in S
  <2> SUFFICES ASSUME q + 1 \in 1 .. m PROVE f[q + 1] \in V \cup {NaN}
    BY <1>4
  <2>1. \A l \in 1 .. (q + 1) - 1 : f[l] \in V \cup {NaN}
    BY <1>4
  <2> QED BY <1>2, <2>1
<1>5. m \in S
  <2> HIDE DEF S
  <2> QED BY <1>3, <1>4, Induction
<1> QED BY <1>5 DEF f

LEMMA WindowType ==
  ASSUME NEW m \in Nat, NEW W, NEW x, DOMAIN x = 1 .. m, \A j \in 1 .. m : x[j] \in W,
         NEW w \in Nat, w >= 1, NEW i \in 1 .. m, i >= w
  PROVE  SubSeq(x, i - w + 1, i) \in [1 .. w -> W]
<1> DEFINE low == i - w + 1
<1>1. low \in Int /\ 1 + i - low = w /\ \A j \in 1 .. w : j + low - 1 \in 1 .. m
  OBVIOUS
<1> HIDE DEF low
<1>2. SubSeq(x, low, i) = [j \in 1 .. 1 + i - low |-> x[j + low - 1]]
  BY <1>1
<1>3. SubSeq(x, low, i) = [j \in 1 .. w |-> x[j + low - 1]]
  BY <1>1, <1>2, Zenon
<1> QED BY <1>1, <1>3 DEF low

\* True ranges, highs and lows are numbers.
LEMMA RangesAreNumbers ==
  ASSUME NEW bars \in Seq(Candles)
  PROVE  /\ BatchTr(bars) \in [1 .. Len(bars) -> Int]
         /\ Highs(bars) \in [1 .. Len(bars) -> Int]
         /\ Lows(bars) \in [1 .. Len(bars) -> Int]
<1> DEFINE m == Len(bars)
<1>1. DOMAIN bars = 1 .. m /\ m \in Nat
  OBVIOUS
<1>2. \A i \in 1 .. m : /\ bars[i].high \in Int /\ bars[i].low \in Int /\ bars[i].close \in Int
  <2> TAKE i \in 1 .. m
  <2>1. bars[i] \in [open : Int, high : Int, low : Int, close : Int, volume : Int]
    BY CandleAssumption
  <2> QED BY <2>1
<1> HIDE DEF m
<1>3. ASSUME NEW h \in Int, NEW l \in Int, NEW c \in Values PROVE TrueRange(h, l, c) \in Int
  <2>1. CASE Isnan(c)
    BY <2>1 DEF TrueRange
  <2>2. CASE ~Isnan(c)
    <3>1. c \in Int
      BY <2>2 DEF Isnan, Values
    <3> DEFINE x == h - l
               y == Abs(h - c)
               z == Abs(l - c)
    <3>2. x \in Int /\ y \in Int /\ z \in Int
      BY <3>1 DEF Abs
    <3>3. TrueRange(h, l, c) = Max({x, y, z})
      BY <2>2 DEF TrueRange
    <3> HIDE DEF x, y, z
    <3>4. IsFiniteSet({x, y, z})
      <4>1. IsFiniteSet({x} \cup {y})
        BY FS_Singleton, FS_AddElement
      <4>2. IsFiniteSet(({x} \cup {y}) \cup {z})
        BY <4>1, FS_AddElement
      <4>3. ({x} \cup {y}) \cup {z} = {x, y, z}
        OBVIOUS
      <4> QED BY <4>2, <4>3
    <3>5. {x, y, z} \in SUBSET Int /\ {x, y, z} # {}
      BY <3>2
    <3>6. Max({x, y, z}) \in {x, y, z}
      BY <3>4, <3>5, MaxFinite
    <3> QED BY <3>2, <3>3, <3>6
  <2> QED BY <2>1, <2>2
<1>4. \A i \in 1 .. m : BatchTr(bars)[i] \in Int
  <2> TAKE i \in 1 .. m
  <2> DEFINE prev == IF i = 1 THEN NaN ELSE bars[i - 1].close
  <2>1. prev \in Values
    <3>1. i # 1 => i - 1 \in 1 .. m
      BY <1>1
    <3> QED BY <1>2, <3>1 DEF Values
  <2>2. BatchTr(bars)[i] = TrueRange(bars[i].high, bars[i].low, prev)
    BY <1>1 DEF BatchTr
  <2> HIDE DEF prev
  <2> QED BY <1>2, <1>3, <2>1, <2>2
<1>5. /\ DOMAIN BatchTr(bars) = 1 .. m /\ BatchTr(bars) = [i \in 1 .. m |-> BatchTr(bars)[i]]
      /\ Highs(bars) = [i \in 1 .. m |-> bars[i].high]
      /\ Lows(bars) = [i \in 1 .. m |-> bars[i].low]
  BY <1>1 DEF BatchTr, Highs, Lows
<1>6. BatchTr(bars) \in [1 .. m -> Int]
  BY <1>4, <1>5, Zenon
<1>7. Highs(bars) \in [1 .. m -> Int] /\ Lows(bars) \in [1 .. m -> Int]
  BY <1>2, <1>5
<1> QED BY <1>6, <1>7 DEF m

LEMMA ChopType ==
  ASSUME NEW bars \in Seq(Candles), NEW p \in Nat, p >= 1, NEW i \in 1 .. Len(bars)
  PROVE  BatchChop(bars, p, i) \in Values
<1> DEFINE m == Len(bars)
           tr == SubSeq(BatchTr(bars), i - p + 1, i)
           hi == SubSeq(Highs(bars), i - p + 1, i)
           lo == SubSeq(Lows(bars), i - p + 1, i)
<1>1. CASE i < p
  BY <1>1 DEF BatchChop, Values
<1>2. CASE i >= p
  <2>1. m \in Nat /\ i \in 1 .. m /\ ~(i < p)
    BY <1>2
  <2>2. ASSUME NEW x \in [1 .. m -> Int] PROVE SubSeq(x, i - p + 1, i) \in [1 .. p -> Int]
    <3>1. DOMAIN x = 1 .. m /\ \A j \in 1 .. m : x[j] \in Int
      OBVIOUS
    <3> HIDE DEF m
    <3> QED BY <1>2, <2>1, <3>1, WindowType
  <2>3. tr \in [1 .. p -> Int] /\ hi \in [1 .. p -> Int] /\ lo \in [1 .. p -> Int]
    BY <2>2, RangesAreNumbers
  <2>4. BatchChop(bars, p, i) = Chop(tr, hi, lo)
    BY <2>1, Zenon DEF BatchChop
  <2> HIDE DEF tr, hi, lo, m
  <2> DEFINE range == Max(ToSet(hi)) - Min(ToSet(lo))
  <2>5. Max(ToSet(hi)) \in Int /\ Min(ToSet(lo)) \in Int
    BY <2>3, MaxOfWindow
  <2>6. Total(tr) \in Int
    BY <2>3, TotalBounds
  <2>7. range \in Int
    BY <2>5
  <2>8. Chop(tr, hi, lo) = IF range <= 0 \/ Total(tr) <= 0 THEN NaN ELSE Percent(Total(tr), range)
    BY DEF Chop
  <2> HIDE DEF range
  <2>9. ~(range <= 0) => Percent(Total(tr), range) \in Int
    BY <2>6, <2>7, PercentType
  <2> QED BY <2>4, <2>8, <2>9 DEF Values
<1> QED BY <1>1, <1>2

\* The elementwise operators compute numbers from numbers ...
LEMMA PointIsNumber ==
  ASSUME NEW n, n.op \in {"abs", "neg", "add", "sub"}, NEW v,
         DOMAIN v = (IF n.op \in {"abs", "neg"} THEN {1} ELSE {1, 2}),
         \A c \in DOMAIN v : v[c] \in Values
  PROVE  PointValue(n, v) \in Values
<1> DEFINE nan == \E i \in DOMAIN v : Isnan(v[i])
<1>1. CASE nan
  <2>1. PointValue(n, v) = NaN
    BY <1>1, Zenon DEF PointValue
  <2> QED BY <2>1 DEF Values
<1>2. CASE ~nan
  <2>1. \A c \in DOMAIN v : v[c] \in Int
    BY <1>2 DEF Isnan, Values
  <2>2. CASE n.op \in {"abs", "neg"}
    <3>1. v[1] \in Int
      BY <2>1, <2>2
    <3>2. n.op = "abs" => PointValue(n, v) = Abs(v[1])
      BY <1>2, Zenon DEF PointValue
    <3>3. n.op = "neg" => PointValue(n, v) = -v[1]
      BY <1>2, Zenon DEF PointValue
    <3>4. Abs(v[1]) \in Int /\ -v[1] \in Int
      BY <3>1 DEF Abs
    <3> QED BY <2>2, <3>2, <3>3, <3>4 DEF Values
  <2>3. CASE n.op \in {"add", "sub"}
    <3>1. v[1] \in Int /\ v[2] \in Int
      <4>1. n.op \notin {"abs", "neg"}
        BY <2>3
      <4> QED BY <2>1, <4>1
    <3>2. n.op = "add" => PointValue(n, v) = v[1] + v[2]
      BY <1>2, Zenon DEF PointValue
    <3>3. n.op = "sub" => PointValue(n, v) = v[1] - v[2]
      BY <1>2, Zenon DEF PointValue
    <3>4. v[1] + v[2] \in Int /\ v[1] - v[2] \in Int
      BY <3>1
    <3> QED BY <2>3, <3>2, <3>3, <3>4 DEF Values
  <2> QED BY <2>2, <2>3
<1> QED BY <1>1, <1>2

\* ... and truth values from numbers or truth values.
LEMMA PointIsTruth ==
  ASSUME NEW n, n.op \in {"gt", "lt", "and", "or", "not"}, NEW v,
         n.op \in {"gt", "lt"} => DOMAIN v = {1, 2} /\ \A c \in DOMAIN v : v[c] \in Values
  PROVE  PointValue(n, v) \in BOOLEAN
<1> DEFINE nan == \E i \in DOMAIN v : Isnan(v[i])
<1>1. CASE n.op \in {"gt", "lt"} /\ nan
  <2>1. PointValue(n, v) = FALSE
    BY <1>1, Zenon DEF PointValue
  <2> QED BY <2>1
<1>2. CASE n.op \in {"gt", "lt"} /\ ~nan
  <2>1. v[1] \in Int /\ v[2] \in Int
    BY <1>2 DEF Isnan, Values
  <2>2. n.op = "gt" => PointValue(n, v) = (v[1] > v[2])
    BY <1>2, Zenon DEF PointValue
  <2>3. n.op = "lt" => PointValue(n, v) = (v[1] < v[2])
    BY <1>2, Zenon DEF PointValue
  <2>4. (v[1] > v[2]) \in BOOLEAN /\ (v[1] < v[2]) \in BOOLEAN
    BY <2>1
  <2> QED BY <1>2, <2>2, <2>3, <2>4, Zenon
<1>3. CASE n.op = "and"
  <2>1. PointValue(n, v) = (\A i \in DOMAIN v : v[i])
    BY <1>3, Zenon DEF PointValue
  <2> QED BY <2>1, Zenon
<1>4. CASE n.op = "or"
  <2>1. PointValue(n, v) = (\E i \in DOMAIN v : v[i])
    BY <1>4, Zenon DEF PointValue
  <2> QED BY <2>1, Zenon
<1>5. CASE n.op = "not"
  <2>1. PointValue(n, v) = ~v[1]
    BY <1>5, Zenon DEF PointValue
  <2> QED BY <2>1, Zenon
<1> QED BY <1>1, <1>2, <1>3, <1>4, <1>5

-----------------------------------------------------------------------------
(* Features: dimensions hold.                                              *)

\* The values of a dimension, where oscillators keep to V.
ValuesOf(dim, V) ==
  IF dim = "BOOL" THEN BOOLEAN ELSE IF dim \in Oscillators THEN V \cup {NaN} ELSE Values

LEMMA NumbersOf ==
  ASSUME NEW V, V = Int \/ V = 0 .. 100, NEW dim
  PROVE  /\ dim = "BOOL" => ValuesOf(dim, V) = BOOLEAN
         /\ dim \in Numeric \ Oscillators => ValuesOf(dim, V) = Values
         /\ dim \in Oscillators => ValuesOf(dim, V) = V \cup {NaN} /\ dim \in Numeric
         /\ dim \in Numeric => /\ ValuesOf(dim, V) \subseteq Values /\ NaN \in ValuesOf(dim, V)
                              /\ \/ ValuesOf(dim, V) = Int \cup {NaN}
                                 \/ ValuesOf(dim, V) = 0 .. 100 \cup {NaN}
<1>1. "BOOL" \notin Numeric /\ "BOOL" \notin Oscillators /\ Oscillators \subseteq Numeric
  BY DEF Numeric, Oscillators
<1>2. V \subseteq Int
  <2>1. 0 .. 100 \subseteq Int
    OBVIOUS
  <2> QED BY <2>1, Zenon
<1>3. Values = Int \cup {NaN} /\ V \cup {NaN} \subseteq Values
  BY <1>2 DEF Values
<1> HIDE DEF Numeric, Oscillators
<1>4. CASE dim = "BOOL"
  BY <1>1, <1>4 DEF ValuesOf
<1>5. CASE dim # "BOOL" /\ dim \in Oscillators
  <2>1. ValuesOf(dim, V) = V \cup {NaN}
    BY <1>5 DEF ValuesOf
  <2> QED BY <1>1, <1>3, <1>5, <2>1, Zenon
<1>6. CASE dim # "BOOL" /\ dim \notin Oscillators
  <2>1. ValuesOf(dim, V) = Values
    BY <1>6 DEF ValuesOf
  <2> QED BY <1>1, <1>3, <1>6, <2>1, Zenon
<1> QED BY <1>4, <1>5, <1>6

\* What the type rules read and say.
LEMMA RuleSays ==
  ASSUME NEW n, n.op \in Ops, NEW d, Rule(n, d) # IllTyped
  PROVE  LET r == Rule(n, d) IN
         /\ n.op \in Sources \cup {"atr"} => r \in Numeric \ Oscillators
         /\ n.op = "chop" => r \in Oscillators
         /\ n.op = "constant" => r = n.unit /\ r \in Numeric
         /\ n.op \in {"abs", "neg"} => r = d[1] /\ r \in Numeric \ Oscillators
         /\ n.op \in {"add", "sub"} => r = "UNSCALED" /\ d[1] \in Numeric /\ d[2] \in Numeric
         /\ n.op \in {"gt", "lt"} \cup Crosses => r = "BOOL" /\ d[1] \in Numeric /\ d[2] \in Numeric
         /\ n.op \in {"and", "or", "not"} => r = "BOOL"
         /\ n.op \in {"sma", "highest", "lowest", "ema"} => r = d[1] /\ r \in Numeric
         /\ n.op \in {"stdev", "zscore", "delta", "ret"} =>
              d[1] \in Numeric /\ r \in Numeric \ Oscillators
         /\ n.op \in {"rank", "rsi", "efficiency_ratio"} => d[1] \in Numeric /\ r \in Oscillators
<1> USE DEF Rule, IllTyped
<1>1. n.op \in Sources \cup {"atr"} => Rule(n, d) \in Numeric \ Oscillators
  BY DEF Sources, Numeric, Oscillators, Crosses
<1>2. n.op = "chop" => Rule(n, d) \in Oscillators
  BY DEF Sources, Oscillators, Crosses
<1>3. n.op = "constant" => Rule(n, d) = n.unit /\ Rule(n, d) \in Numeric
  BY DEF Sources, Comparable, Crosses
<1>4. n.op \in {"abs", "neg"} => Rule(n, d) = d[1] /\ Rule(n, d) \in Numeric \ Oscillators
  BY DEF Sources, Signed, Numeric, Oscillators, Crosses
<1>5. n.op \in {"add", "sub"} => Rule(n, d) = "UNSCALED" /\ d[1] \in Numeric /\ d[2] \in Numeric
  BY DEF Sources, Crosses
<1>6. n.op \in {"gt", "lt"} \cup Crosses =>
        Rule(n, d) = "BOOL" /\ d[1] \in Numeric /\ d[2] \in Numeric
  BY DEF Sources, Crosses, Comparable
<1>7. n.op \in {"and", "or", "not"} => Rule(n, d) = "BOOL"
  BY DEF Sources, Crosses
<1>8. n.op \in {"sma", "highest", "lowest", "ema"} => Rule(n, d) = d[1] /\ Rule(n, d) \in Numeric
  BY DEF Sources, Crosses
<1>9. n.op \in {"stdev", "zscore", "delta", "ret"} =>
        d[1] \in Numeric /\ Rule(n, d) \in Numeric \ Oscillators
  BY DEF Sources, Crosses, Numeric, Oscillators
<1>10. n.op \in {"rank", "rsi", "efficiency_ratio"} =>
         d[1] \in Numeric /\ Rule(n, d) \in Oscillators
  BY DEF Sources, Crosses, Numeric, Oscillators
<1> QED BY <1>1, <1>2, <1>3, <1>4, <1>5, <1>6, <1>7, <1>8, <1>9, <1>10, Zenon

\* The rolling formula of a window operator keeps what the rules say.
LEMMA RollingKeeps ==
  ASSUME NEW V \in {Int, 0 .. 100}, NEW dim \in Numeric, NEW op \in WindowOps,
         NEW m \in Nat, NEW x, DOMAIN x = 1 .. m, \A j \in 1 .. m : x[j] \in ValuesOf(dim, V),
         NEW w \in Nat, w >= 1, NEW i \in 1 .. m
  PROVE  /\ Rolling(x, w, op, i) \in Values
         /\ op \in {"sma", "highest", "lowest"} => Rolling(x, w, op, i) \in ValuesOf(dim, V)
         /\ op \in {"rank", "efficiency_ratio", "rsi"} => Rolling(x, w, op, i) \in Scores
<1>1. /\ ValuesOf(dim, V) \subseteq Values /\ NaN \in ValuesOf(dim, V)
      /\ ValuesOf(dim, V) = Int \cup {NaN} \/ ValuesOf(dim, V) = 0 .. 100 \cup {NaN}
  <2>1. V = Int \/ V = 0 .. 100
    OBVIOUS
  <2> QED BY <2>1, NumbersOf, Zenon
<1>2. NaN \in Values /\ NaN \in Scores /\ Scores \subseteq Values
  BY DEF Values, Scores
<1>3. CASE i < w
  BY <1>1, <1>2, <1>3 DEF Rolling
<1>4. CASE i >= w
  <2> DEFINE s == SubSeq(x, i - w + 1, i)
  <2>1. Rolling(x, w, op, i) = Formula(op, s)
    BY <1>4 DEF Rolling
  <2>2. s \in [1 .. w -> ValuesOf(dim, V)]
    BY <1>4, WindowType
  <2> HIDE DEF s
  <2>3. s \in [1 .. w -> Values]
    BY <1>1, <2>2
  <2>4. op \in {"sma", "highest", "lowest"} => Formula(op, s) \in ValuesOf(dim, V)
    <3> SUFFICES ASSUME op \in {"sma", "highest", "lowest"}
                 PROVE  Formula(op, s) \in ValuesOf(dim, V)
      OBVIOUS
    <3>1. ASSUME NEW W \in {Int, 0 .. 100}, ValuesOf(dim, V) = W \cup {NaN}
          PROVE  Formula(op, s) \in W \cup {NaN}
      <4>1. s \in [1 .. w -> W \cup {NaN}]
        BY <2>2, <3>1
      <4> QED BY <4>1, FormulaKeeps
    <3> QED BY <1>1, <3>1
  <2>5. op \in {"rank", "efficiency_ratio", "rsi"} => Formula(op, s) \in Scores
    BY <2>3, FormulaShares
  <2>6. op \in {"delta", "ret", "stdev", "zscore"} => Formula(op, s) \in Values
    BY <2>3, FormulaType
  <2>7. Formula(op, s) \in Values
    BY <1>1, <1>2, <2>4, <2>5, <2>6 DEF WindowOps
  <2> QED BY <2>1, <2>4, <2>5, <2>7
<1> QED BY <1>3, <1>4

\* The arrays ch have the dimensions d at run time.
TypedChildren(n, m, ch, d, V) ==
  \A c \in DOMAIN n.args : \A i \in 1 .. m : ch[c][i] \in ValuesOf(d[c], V)

\* No constant of the node leaves the range of its oscillator, and it is no chop.
NodeContained(n) == n.op # "chop" /\ (n.unit \in Oscillators => n.value \in 0 .. 100)

LEMMA TypedAt ==
  ASSUME NEW V \in {Int, 0 .. 100}, NEW n, Sound(n), V = 0 .. 100 => NodeContained(n),
         NEW bars \in Seq(Candles), NEW d, Rule(n, d) # IllTyped,
         NEW ch, Over(n, Len(bars), ch), TypedChildren(n, Len(bars), ch, d, V),
         NEW i \in 1 .. Len(bars)
  PROVE  BatchAt(n, bars, ch, i) \in ValuesOf(Rule(n, d), V)
<1> DEFINE m == Len(bars)
           r == Rule(n, d)
           value == BatchAt(n, bars, ch, i)
<1>1. /\ m \in Nat /\ i \in 1 .. m /\ n.op \in Ops /\ n.value \in Int /\ n.period \in Nat
      /\ DOMAIN bars = 1 .. m /\ V \subseteq Int
  BY DEF Sound
<1>2. \A c \in DOMAIN n.args :
        /\ DOMAIN ch[c] = 1 .. m
        /\ \A j \in 1 .. m : ch[c][j] \in ValuesOf(d[c], V)
        /\ d[c] \in Numeric => \A j \in 1 .. m : ch[c][j] \in Values
  <2> TAKE c \in DOMAIN n.args
  <2>1. DOMAIN ch[c] = 1 .. m /\ \A j \in 1 .. m : ch[c][j] \in ValuesOf(d[c], V)
    BY DEF Over, TypedChildren
  <2>2. d[c] \in Numeric => ValuesOf(d[c], V) \subseteq Values
    <3>1. V = Int \/ V = 0 .. 100
      OBVIOUS
    <3> QED BY <3>1, NumbersOf, Zenon
  <2> QED BY <2>1, <2>2
<1>3. DOMAIN ch = DOMAIN n.args
  BY DEF Over
<1>4. /\ Int \subseteq Values /\ NaN \in Values
      /\ V \cup {NaN} \subseteq Values /\ Scores \subseteq V \cup {NaN}
  <2>1. 0 .. 100 \subseteq V
    <3>1. 0 .. 100 \subseteq Int
      OBVIOUS
    <3>2. V = Int \/ V = 0 .. 100
      OBVIOUS
    <3> QED BY <3>1, <3>2, Zenon
  <2> QED BY <1>1, <2>1, Zenon DEF Values, Scores
<1> HIDE DEF r
<1>5. V = Int \/ V = 0 .. 100
  OBVIOUS
<1>6. /\ r \in Numeric \ Oscillators => ValuesOf(r, V) = Values
      /\ r \in Oscillators => ValuesOf(r, V) = V \cup {NaN}
      /\ r = "BOOL" => ValuesOf(r, V) = BOOLEAN
  BY <1>5, NumbersOf, Zenon
<1> HIDE DEF m, value
<1>7. CASE n.op \in Sources
  <2>1. value = bars[i][n.op]
    BY <1>7, Kinds, Zenon DEF BatchAt, value
  <2>2. bars[i] \in [open : Int, high : Int, low : Int, close : Int, volume : Int]
    BY <1>1, CandleAssumption
  <2>3. bars[i][n.op] \in Int
    <3> DEFINE b == bars[i]
    <3>1. /\ b.open \in Int /\ b.high \in Int /\ b.low \in Int /\ b.close \in Int
          /\ b.volume \in Int
      BY <2>2
    <3> HIDE DEF b
    <3>2. b[n.op] \in Int
      BY <1>7, <3>1 DEF Sources
    <3> QED BY <3>2 DEF b
  <2>4. r \in Numeric \ Oscillators
    BY <1>1, <1>7, RuleSays, Zenon DEF r
  <2> QED BY <1>4, <1>6, <2>1, <2>3, <2>4 DEF value, r
<1>8. CASE n.op = "constant"
  <2>1. value = n.value
    BY <1>8, Kinds, Zenon DEF BatchAt, value
  <2>2. r = n.unit /\ r \in Numeric
    BY <1>1, <1>8, RuleSays, Zenon DEF r
  <2>3. r \in Oscillators => n.value \in V
    BY <1>1, <1>5, <2>2 DEF NodeContained
  <2>4. n.value \in ValuesOf(r, V)
    BY <1>1, <1>4, <1>6, <2>2, <2>3
  <2> QED BY <2>1, <2>4 DEF value, r
<1>9. CASE n.op \in {"abs", "neg", "add", "sub"}
  <2> DEFINE v == [c \in DOMAIN ch |-> ch[c][i]]
  <2>1. n.op \in Elementwise
    BY <1>9 DEF Elementwise
  <2>2. value = PointValue(n, v)
    BY <2>1, Kinds, Zenon DEF BatchAt, value
  <2>3. r \in Numeric \ Oscillators /\ d[1] \in Numeric /\ (n.op \in {"add", "sub"} => d[2] \in Numeric)
    <3>1. "UNSCALED" \in Numeric \ Oscillators
      BY DEF Numeric, Oscillators
    <3>2. n.op \in {"abs", "neg"} => r = d[1] /\ r \in Numeric \ Oscillators
      BY <1>1, RuleSays, Zenon DEF r
    <3>3. n.op \in {"add", "sub"} => r = "UNSCALED" /\ d[1] \in Numeric /\ d[2] \in Numeric
      BY <1>1, RuleSays, Zenon DEF r
    <3> QED BY <1>9, <3>1, <3>2, <3>3
  <2>4. DOMAIN n.args = (IF n.op \in {"abs", "neg"} THEN {1} ELSE {1, 2})
    BY <1>9, ArgsOf
  <2>5. DOMAIN v = DOMAIN n.args /\ \A c \in DOMAIN v : v[c] = ch[c][i]
    BY <1>3
  <2> HIDE DEF v
  <2>6. \A c \in DOMAIN v : v[c] \in Values
    <3>1. \A c \in DOMAIN n.args : d[c] \in Numeric
      BY <1>9, <2>3, <2>4
    <3> QED BY <1>1, <1>2, <2>5, <3>1
  <2>7. PointValue(n, v) \in Values
    <3>1. DOMAIN v = (IF n.op \in {"abs", "neg"} THEN {1} ELSE {1, 2})
      BY <2>4, <2>5
    <3> QED BY <1>9, <2>6, <3>1, PointIsNumber
  <2> QED BY <1>6, <2>2, <2>3, <2>7 DEF value, r
<1>10. CASE n.op \in {"gt", "lt", "and", "or", "not"}
  <2> DEFINE v == [c \in DOMAIN ch |-> ch[c][i]]
  <2>1. n.op \in Elementwise
    BY <1>10 DEF Elementwise
  <2>2. value = PointValue(n, v)
    BY <2>1, Kinds, Zenon DEF BatchAt, value
  <2>3. r = "BOOL" /\ (n.op \in {"gt", "lt"} => d[1] \in Numeric /\ d[2] \in Numeric)
    <3>1. n.op \in {"gt", "lt"} => r = "BOOL" /\ d[1] \in Numeric /\ d[2] \in Numeric
      BY <1>1, RuleSays, Zenon DEF r
    <3>2. n.op \in {"and", "or", "not"} => r = "BOOL"
      BY <1>1, RuleSays, Zenon DEF r
    <3> QED BY <1>10, <3>1, <3>2
  <2>4. n.op \in {"gt", "lt"} => DOMAIN n.args = {1, 2}
    BY ArgsOf
  <2>5. DOMAIN v = DOMAIN n.args /\ \A c \in DOMAIN v : v[c] = ch[c][i]
    BY <1>3
  <2> HIDE DEF v
  <2>6. n.op \in {"gt", "lt"} => \A c \in DOMAIN v : v[c] \in Values
    <3>1. n.op \in {"gt", "lt"} => \A c \in DOMAIN n.args : d[c] \in Numeric
      BY <2>3, <2>4
    <3> QED BY <1>1, <1>2, <2>5, <3>1
  <2>7. PointValue(n, v) \in BOOLEAN
    <3>1. n.op \in {"gt", "lt"} => DOMAIN v = {1, 2} /\ \A c \in DOMAIN v : v[c] \in Values
      BY <2>4, <2>5, <2>6
    <3> QED BY <1>10, <3>1, PointIsTruth
  <2> QED BY <1>6, <2>2, <2>3, <2>7 DEF value, r
<1>11. CASE n.op \in Crosses
  <2>1. value = IF i = 1 THEN FALSE
                ELSE Crossed(n.op = "cross_above", ch[1][i - 1], ch[2][i - 1], ch[1][i], ch[2][i])
    BY <1>11, Kinds, Zenon DEF BatchAt, value
  <2>2. \A above, pa, pb, a, b : Crossed(above, pa, pb, a, b) \in BOOLEAN
    BY Zenon DEF Crossed
  <2>3. value \in BOOLEAN
    BY <2>1, <2>2, Zenon
  <2>4. r = "BOOL"
    BY <1>1, <1>11, RuleSays, Zenon DEF r
  <2> QED BY <1>6, <2>3, <2>4 DEF value, r
<1>12. CASE n.op \in WindowOps
  <2> DEFINE w == Width(n)
             x == ch[1]
  <2>1. 1 \in DOMAIN n.args /\ w \in Nat /\ w >= 1
    BY <1>12, SoundNode
  <2>2. value = Rolling(x, w, n.op, i)
    BY <1>12, Kinds, Zenon DEF BatchAt, value
  <2>3. DOMAIN x = 1 .. m /\ \A j \in 1 .. m : x[j] \in ValuesOf(d[1], V)
    BY <1>2, <2>1
  <2>4. /\ d[1] \in Numeric
        /\ n.op \in {"sma", "highest", "lowest"} => r = d[1]
        /\ n.op \in {"stdev", "zscore", "delta", "ret"} => r \in Numeric \ Oscillators
        /\ n.op \in {"rank", "rsi", "efficiency_ratio"} => r \in Oscillators
    <3>1. n.op \in {"sma", "highest", "lowest"} => r = d[1] /\ r \in Numeric
      BY <1>1, RuleSays, Zenon DEF r
    <3>2. n.op \in {"stdev", "zscore", "delta", "ret"} => d[1] \in Numeric /\ r \in Numeric \ Oscillators
      BY <1>1, RuleSays, Zenon DEF r
    <3>3. n.op \in {"rank", "rsi", "efficiency_ratio"} => d[1] \in Numeric /\ r \in Oscillators
      BY <1>1, RuleSays, Zenon DEF r
    <3> QED BY <1>12, <3>1, <3>2, <3>3 DEF WindowOps
  <2> HIDE DEF w, x
  <2>5. /\ value \in Values
        /\ n.op \in {"sma", "highest", "lowest"} => value \in ValuesOf(d[1], V)
        /\ n.op \in {"rank", "efficiency_ratio", "rsi"} => value \in Scores
    <3> DEFINE op == n.op
               dim == d[1]
    <3>1. dim \in Numeric /\ op \in WindowOps /\ \A j \in 1 .. m : x[j] \in ValuesOf(dim, V)
      BY <1>12, <2>3, <2>4
    <3>2. value = Rolling(x, w, op, i)
      BY <2>2
    <3> HIDE DEF op, dim
    <3>3. /\ Rolling(x, w, op, i) \in Values
          /\ op \in {"sma", "highest", "lowest"} => Rolling(x, w, op, i) \in ValuesOf(dim, V)
          /\ op \in {"rank", "efficiency_ratio", "rsi"} => Rolling(x, w, op, i) \in Scores
      BY <1>1, <2>1, <2>3, <3>1, RollingKeeps
    <3> QED BY <3>2, <3>3 DEF op, dim
  <2>6. value \in ValuesOf(r, V)
    <3>1. CASE n.op \in {"sma", "highest", "lowest"}
      BY <2>4, <2>5, <3>1
    <3>2. CASE n.op \in {"stdev", "zscore", "delta", "ret"}
      BY <1>6, <2>4, <2>5, <3>2
    <3>3. CASE n.op \in {"rank", "rsi", "efficiency_ratio"}
      BY <1>4, <1>6, <2>4, <2>5, <3>3
    <3> QED BY <1>12, <3>1, <3>2, <3>3 DEF WindowOps
  <2> QED BY <2>6 DEF value, r
<1>13. CASE n.op = "ema"
  <2> DEFINE x == ch[1]
             p == n.period
  <2>1. 1 \in DOMAIN n.args /\ p \in Nat /\ p >= 1
    BY <1>1, <1>13, SoundNode
  <2>2. value = BatchEma(x, p)[i]
    BY <1>13, Kinds, Zenon DEF BatchAt, value
  <2>3. DOMAIN x = 1 .. m /\ \A j \in 1 .. m : x[j] \in ValuesOf(d[1], V)
    BY <1>2, <2>1
  <2>4. r = d[1] /\ r \in Numeric
    BY <1>1, <1>13, RuleSays, Zenon DEF r
  <2>5. ValuesOf(r, V) = Int \cup {NaN} \/ ValuesOf(r, V) = 0 .. 100 \cup {NaN}
    <3>1. r \in Numeric
      BY <2>4
    <3> QED BY <1>5, <3>1, NumbersOf, Zenon
  <2> HIDE DEF x, p
  <2>6. ASSUME NEW W \in {Int, 0 .. 100}, ValuesOf(r, V) = W \cup {NaN} PROVE value \in W \cup {NaN}
    <3>1. \A j \in 1 .. m : x[j] \in W \cup {NaN}
      BY <2>3, <2>4, <2>6
    <3> QED BY <1>1, <2>1, <2>2, <2>3, <3>1, EmaKeeps
  <2>7. value \in ValuesOf(r, V)
    BY <2>5, <2>6
  <2> QED BY <2>7 DEF value, r
<1>14. CASE n.op = "atr"
  <2>1. value = Rolling(BatchTr(bars), n.period, "sma", i)
    BY <1>14, Kinds, Zenon DEF BatchAt, value
  <2>2. BatchTr(bars) \in [1 .. m -> Int] /\ n.period >= 1
    BY <1>14, RangesAreNumbers, SoundNode DEF m
  <2>3. r \in Numeric \ Oscillators
    BY <1>1, <1>14, RuleSays, Zenon DEF r
  <2>4. ValuesOf(r, V) = Values
    BY <1>6, <2>3
  <2> DEFINE x == BatchTr(bars)
  <2>5. DOMAIN x = 1 .. m /\ \A j \in 1 .. m : x[j] \in ValuesOf(r, V)
    BY <1>4, <2>2, <2>4
  <2>6. "sma" \in WindowOps
    BY DEF WindowOps
  <2> HIDE DEF x
  <2>7. Rolling(x, n.period, "sma", i) \in Values
    BY <1>1, <2>2, <2>3, <2>5, <2>6, RollingKeeps
  <2> QED BY <2>1, <2>4, <2>7 DEF value, r, x
<1>15. CASE n.op = "chop"
  <2>1. value = BatchChop(bars, n.period, i)
    BY <1>15, Kinds, Zenon DEF BatchAt, value
  <2>2. n.period >= 1
    BY <1>15, SoundNode
  <2>3. value \in Values
    BY <1>1, <2>1, <2>2, ChopType
  <2>4. V = Int /\ r \in Oscillators
    <3>1. r \in Oscillators
      BY <1>1, <1>15, RuleSays, Zenon DEF r
    <3> QED BY <1>5, <1>15, <3>1 DEF NodeContained
  <2> QED BY <1>6, <2>3, <2>4 DEF value, r, Values
<1> QED BY <1>1, <1>7, <1>8, <1>9, <1>10, <1>11, <1>12, <1>13, <1>14, <1>15 DEF Ops, Elementwise

\* Every array holds values of the dimension of its node.
LEMMA ArraysTyped ==
  ASSUME NEW e \in Expressions, Dimensions(e)[Len(e)] # IllTyped, NEW bars \in Seq(Candles),
         NEW V \in {Int, 0 .. 100}, V = 0 .. 100 => \A k \in DOMAIN e : NodeContained(e[k])
  PROVE  \A k \in DOMAIN e : \A i \in 1 .. Len(bars) :
           Evaluate(e, bars)[k][i] \in ValuesOf(Dimensions(e)[k], V)
<1> DEFINE n == Len(e)
           m == Len(bars)
           d == Dimensions(e)
           a == Evaluate(e, bars)
           Typed(k) == \A i \in 1 .. m : a[k][i] \in ValuesOf(d[k], V)
           S == {q \in Nat : \A k \in 1 .. n : k <= q => Typed(k)}
<1>1. m \in Nat /\ n \in Nat /\ DOMAIN e = 1 .. n
  BY NodesOf
<1>2. \A k \in 1 .. n : Sound(e[k]) /\ d[k] # IllTyped
  BY <1>1, CompiledIsSound
<1>3. \A k \in 1 .. n : d[k] = DimensionOf(e[k], Children(e, k, d))
  BY DimensionsUnfold DEF DimsOn
<1>4. \A k \in 1 .. n : d[k] = Rule(e[k], Children(e, k, d))
  BY <1>2, <1>3 DEF DimensionOf
<1>5. ASSUME NEW k \in 1 .. n, \A j \in 1 .. k - 1 : Typed(j) PROVE Typed(k)
  <2> DEFINE node == e[k]
             cd == Children(e, k, d)
             ch == Children(e, k, a)
  <2>1. k \in DOMAIN e /\ Sound(node)
    BY <1>1, <1>2
  <2>2. \A c \in DOMAIN node.args : node.args[c] \in 1 .. k - 1
    BY <2>1, NodesOf
  <2>3. TypedChildren(node, m, ch, cd, V)
    <3> HIDE DEF d, a, m
    <3> QED BY <1>5, <2>2 DEF Children, TypedChildren
  <2>4. Over(node, m, ch) /\ \A i \in 1 .. m : a[k][i] = BatchAt(node, bars, ch, i)
    BY <2>1, ArraysAre
  <2>5. V = 0 .. 100 => NodeContained(node)
    BY <2>1
  <2>6. Rule(node, cd) = d[k] /\ Rule(node, cd) # IllTyped
    BY <1>2, <1>4
  <2> HIDE DEF node, cd, ch, a, d
  <2>7. \A i \in 1 .. m : BatchAt(node, bars, ch, i) \in ValuesOf(Rule(node, cd), V)
    BY <2>1, <2>3, <2>4, <2>5, <2>6, TypedAt, Zenon
  <2> QED BY <2>4, <2>6, <2>7
<1>6. 0 \in S
  OBVIOUS
<1>7. ASSUME NEW q \in Nat, q \in S PROVE q + 1 \in S
  <2> HIDE DEF n, Typed
  <2>1. \A k \in 1 .. n : k <= q => Typed(k)
    BY <1>7
  <2>2. q + 1 \in 1 .. n => Typed(q + 1)
    <3> SUFFICES ASSUME q + 1 \in 1 .. n PROVE Typed(q + 1)
      OBVIOUS
    <3>1. \A j \in 1 .. (q + 1) - 1 : Typed(j)
      BY <1>1, <2>1
    <3> QED BY <1>5, <3>1
  <2>3. \A k \in 1 .. n : k <= q + 1 => k <= q \/ k = q + 1
    BY <1>1
  <2>4. \A k \in 1 .. n : k <= q + 1 => Typed(k)
    BY <2>1, <2>2, <2>3, Zenon
  <2> QED BY <2>4
<1>8. n \in S
  <2> HIDE DEF n, S
  <2> QED BY <1>1, <1>6, <1>7, Induction
<1>9. \A k \in 1 .. n : Typed(k)
  <2> HIDE DEF Typed
  <2> QED BY <1>1, <1>8
<1> QED BY <1>1, <1>9

\* Whatever the expression that infer_dimension accepts and however the bars
\* come, the values a feature returns are of its dimension: truth values for
\* BOOL, numbers or NaN else, and between 0 and 100 for an oscillator that no
\* constant and no chop brings out of its range (compiler.py:29-62,
\* primitives.py:39-218 and 226-362).
THEOREM FeatureTypeCorrect == FeatureSpec => []FeatureTypeOK
<1>1. StreamInv => FeatureTypeOK
  <2> SUFFICES ASSUME StreamInv, NEW i \in DOMAIN emitted
               PROVE  /\ RootDimension = "BOOL" => emitted[i] \in BOOLEAN
                      /\ RootDimension # "BOOL" => emitted[i] \in Int \cup {NaN}
                      /\ RootDimension \in Oscillators /\ Contained =>
                           emitted[i] \in 0 .. 100 \cup {NaN}
    BY DEF FeatureTypeOK
  <2> DEFINE k == Len(nodes)
  <2>1. /\ nodes \in Expressions /\ Dimensions(nodes)[k] # IllTyped
        /\ history \in Seq(Candles) /\ emitted = Evaluate(nodes, history)[k]
    BY DEF StreamInv
  <2>2. k \in DOMAIN nodes
    BY <2>1, NodesOf
  <2>3. DOMAIN emitted = 1 .. Len(history)
    BY <2>1, <2>2, ArraysAre
  <2>4. RootDimension = Dimensions(nodes)[k]
    BY DEF RootDimension
  <2> HIDE DEF k
  <2>5. ASSUME NEW V \in {Int, 0 .. 100}, V = 0 .. 100 => \A j \in DOMAIN nodes : NodeContained(nodes[j])
        PROVE  emitted[i] \in ValuesOf(RootDimension, V)
    <3>1. Dimensions(nodes)[Len(nodes)] # IllTyped
      BY <2>1 DEF k
    <3>2. \A j \in DOMAIN nodes : \A x \in 1 .. Len(history) :
            Evaluate(nodes, history)[j][x] \in ValuesOf(Dimensions(nodes)[j], V)
      BY <2>1, <2>5, <3>1, ArraysTyped, Zenon
    <3> QED BY <2>1, <2>2, <2>3, <2>4, <3>2
  <2>6. emitted[i] \in ValuesOf(RootDimension, Int)
    <3>1. Int # 0 .. 100
      <4>1. 101 \in Int /\ 101 \notin 0 .. 100
        OBVIOUS
      <4> QED BY <4>1
    <3> QED BY <2>5, <3>1
  <2>7. Contained => emitted[i] \in ValuesOf(RootDimension, 0 .. 100)
    <3>1. Contained => \A j \in DOMAIN nodes : NodeContained(nodes[j])
      BY DEF Contained, NodeContained
    <3> QED BY <2>5, <3>1
  <2>8. RootDimension = "BOOL" => emitted[i] \in BOOLEAN
    BY <2>6 DEF ValuesOf
  <2>9. RootDimension # "BOOL" => emitted[i] \in Int \cup {NaN}
    BY <2>6 DEF ValuesOf, Values
  <2>10. RootDimension \in Oscillators /\ Contained => emitted[i] \in 0 .. 100 \cup {NaN}
    <3>1. "BOOL" \notin Oscillators
      BY DEF Oscillators
    <3> QED BY <2>7, <3>1 DEF ValuesOf
  <2> QED BY <2>8, <2>9, <2>10
<1> QED BY <1>1, FeatureInvariance, PTL

=============================================================================
