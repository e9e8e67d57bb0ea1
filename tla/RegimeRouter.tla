---------------------------- MODULE RegimeRouter ----------------------------
(***************************************************************************)
(* QuantileRegimeRouter.infer of regimes/router.py: a raw label for every  *)
(* bar from the fitted thresholds, and _causal_dwell_smooth, the loop that *)
(* commits a switch.  A bar is what infer reads of it: whether its         *)
(* features are finite, trending and volatile.                             *)
(***************************************************************************)
EXTENDS Integers, Sequences

CONSTANTS
  MinDwell,    \* min_dwell
  MaxLabels    \* bound on the bars labelled

ASSUME DwellAssumption == MinDwell \in Nat \ {0}

VARIABLES raw, committed, challenger, streak, out

routerVars == << raw, committed, challenger, streak, out >>

UNKNOWN == "UNKNOWN"

Regimes == {"TREND_HIGH_VOL", "TREND_LOW_VOL", "RANGE_HIGH_VOL", "RANGE_LOW_VOL"}

Labels == Regimes \cup {UNKNOWN}

RawLabel(valid, trend, high_vol) ==
  CASE ~valid -> UNKNOWN
    [] valid /\ trend /\ high_vol -> "TREND_HIGH_VOL"
    [] valid /\ trend /\ ~high_vol -> "TREND_LOW_VOL"
    [] valid /\ ~trend /\ high_vol -> "RANGE_HIGH_VOL"
    [] valid /\ ~trend /\ ~high_vol -> "RANGE_LOW_VOL"

RouterInit ==
  /\ raw = << >>
  /\ committed = UNKNOWN
  /\ challenger = UNKNOWN
  /\ streak = 0
  /\ out = << >>

Challenges(r) == r # UNKNOWN /\ r # committed

\* Mutant of Streak: another challenger inherits the streak.
StreakInherited(r) == streak + 1

Streak(r) == IF r = challenger THEN streak + 1 ELSE 1

Labelled(r) ==
  /\ raw' = Append(raw, r)
  /\ out' = Append(out, committed')

Keep(r) ==
  /\ ~Challenges(r)
  /\ streak' = 0
  /\ challenger' = UNKNOWN
  /\ UNCHANGED committed
  /\ Labelled(r)

Challenge(r) ==
  /\ Challenges(r)
  /\ Streak(r) < MinDwell
  /\ streak' = Streak(r)
  /\ challenger' = r
  /\ UNCHANGED committed
  /\ Labelled(r)

Commit(r) ==
  /\ Challenges(r)
  /\ Streak(r) >= MinDwell
  /\ committed' = r
  /\ streak' = 0
  /\ challenger' = UNKNOWN
  /\ Labelled(r)

RouterNext ==
  /\ Len(raw) < MaxLabels
  /\ \E valid, trend, high_vol \in BOOLEAN :
       LET r == RawLabel(valid, trend, high_vol) IN Keep(r) \/ Challenge(r) \/ Commit(r)

RouterSpec == RouterInit /\ [][RouterNext]_routerVars

-----------------------------------------------------------------------------
(* Safety.                                                                 *)

\* The type invariant of the loop's locals (router.py:148-152).
RouterTypeOK ==
  /\ raw \in Seq(Labels)
  /\ committed \in Labels
  /\ challenger \in Labels
  /\ streak \in 0 .. MinDwell - 1
  /\ out \in Seq(Labels)

\* The last k of the labels s up to the i-th are all r.
Dwells(s, r, k, i) == k <= i /\ \A j \in i - k + 1 .. i : s[j] = r

Before(s, i) == IF i = 1 THEN UNKNOWN ELSE s[i - 1]

\* Regimes switch exactly when they have earned it: a label is the regime of
\* the last MinDwell raw bars if those agree, and the label before it
\* otherwise, whatever was challenged or missing in between
\* (router.py:153-168).
SwitchesAreEarned ==
  /\ Len(out) = Len(raw)
  /\ \A i \in DOMAIN out :
       \/ out[i] \in Regimes /\ Dwells(raw, out[i], MinDwell, i)
       \/ out[i] = Before(out, i) /\ \A r \in Regimes : ~Dwells(raw, r, MinDwell, i)
=============================================================================
