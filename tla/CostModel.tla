------------------------------ MODULE CostModel ------------------------------
(***************************************************************************)
(* Execution costs and position size: resolve_costs and size_position of   *)
(* backtest/costs.py, with round_lot of data/contracts.py.                 *)
(*                                                                         *)
(* Lots are counted in units of the venue's smallest lot decimal and       *)
(* LotSize is the base quantity of one unit; the risk per trade is in      *)
(* percent.  Quotients stay fractions, so what the epsilon of round_lot    *)
(* absorbs does not arise.                                                 *)
(***************************************************************************)
EXTENDS Integers

CONSTANTS
  Absent,        \* an unknown field
  Unresolved,    \* the outcome of resolve_costs when it raises
  Specs,         \* instruments
  Statements,    \* ExecutionAssumptions of the experimenter
  Orders,        \* equity, risk, stop and price that size_position is called with
  LotSize

ASSUME AbsentAssumption ==
  Absent \notin Int \cup {"invalid_stop_distance", "below_min_lot", "below_min_notional"}

\* contracts.py:56-73.
ASSUME InstrumentAssumption ==
  /\ LotSize \in Nat \ {0}
  /\ \A s \in Specs :
       /\ s.min_lot \in Nat \ {0} /\ s.lot_step \in Nat \ {0} /\ s.max_lot \in Nat
       /\ s.min_lot <= s.max_lot
       /\ s.min_notional \in Int \cup {Absent}

ASSUME StatementAssumption ==
  \A a \in Statements : a.max_leverage \in Int /\ a.min_notional \in Int \cup {Absent}

\* Prices are positive (quality.py:112); equity may be spent.
ASSUME OrderAssumption ==
  \A o \in Orders : o.equity \in Int /\ o.risk \in Int /\ o.stop \in Int /\ o.price \in Nat \ {0}

VARIABLES
  spec,          \* the instrument
  stated,        \* the assumptions
  costs,         \* ResolvedCosts, Absent before resolve_costs, Unresolved after it raised
  sized          \* the last order with its SizingResult

costVars == << spec, stated, costs, sized >>

Least(a, b) == IF a < b THEN a ELSE b

-----------------------------------------------------------------------------
(* resolve_costs.                                                          *)

HasTrustedSeries(s) == s.spread_source \in {"historical_series", "bid_ask_ticks"} /\ s.series

SpreadResolves(s, a) == HasTrustedSeries(s) \/ (a.spread # Absent /\ a.spread > 0)

CommissionResolves(a) == a.commission # Absent /\ a.commission >= 0

FundingResolves(s, a) ==
  \/ a.funding_mode = "not_applicable_spot"
  \/ a.funding_mode = "points_per_day_from_spec" /\ s.swap # Absent

MinNotional(s, a) == IF s.min_notional # Absent THEN s.min_notional ELSE a.min_notional

ResolveCosts(s, a) ==
  IF /\ SpreadResolves(s, a)
     /\ CommissionResolves(a)
     /\ FundingResolves(s, a)
     /\ MinNotional(s, a) # Absent
  THEN [spread |-> IF HasTrustedSeries(s) THEN "series" ELSE a.spread,
        spread_is_assumed |-> ~HasTrustedSeries(s),
        funding |-> IF a.funding_mode = "not_applicable_spot" THEN 0 ELSE s.swap,
        min_notional |-> MinNotional(s, a)]
  ELSE Unresolved

-----------------------------------------------------------------------------
(* Sizing.                                                                 *)

\* round_lot of num / den.
RoundLot(s, num, den) ==
  IF num < s.min_lot * den THEN 0
  ELSE LET steps == (num - s.min_lot * den) \div (s.lot_step * den)
       IN Least(s.min_lot + steps * s.lot_step, s.max_lot)

NoTrade(why) == [lots |-> 0, reason |-> why]

\* Mutant of Capped: the leverage cap is left out.
CappedNot(o) == FALSE

\* The notional of the risk-based quantity exceeds the leverage cap.
Capped(o) == o.equity * o.risk * o.price > o.equity * stated.max_leverage * 100 * o.stop

RawLots(o) ==
  IF Capped(o)
  THEN [num |-> o.equity * stated.max_leverage, den |-> o.price * LotSize]
  ELSE [num |-> o.equity * o.risk, den |-> 100 * o.stop * LotSize]

SizePosition(o) ==
  LET lots == RoundLot(spec, RawLots(o).num, RawLots(o).den) IN
  IF o.stop <= 0 THEN NoTrade("invalid_stop_distance")
  ELSE IF lots <= 0 THEN NoTrade("below_min_lot")
  ELSE IF lots * LotSize * o.price < costs.min_notional THEN NoTrade("below_min_notional")
  ELSE [lots |-> lots, reason |-> Absent]

CostInit ==
  /\ spec \in Specs
  /\ stated \in Statements
  /\ costs = Absent
  /\ sized = Absent

Resolve ==
  /\ costs = Absent
  /\ costs' = ResolveCosts(spec, stated)
  /\ UNCHANGED << spec, stated, sized >>

Size(o) ==
  /\ costs \notin {Absent, Unresolved}
  /\ sized' = [order |-> o, result |-> SizePosition(o)]
  /\ UNCHANGED << spec, stated, costs >>

CostNext == Resolve \/ \E o \in Orders : Size(o)

CostSpec == CostInit /\ [][CostNext]_costVars

-----------------------------------------------------------------------------
(* Safety.                                                                 *)

\* A position of q lots loses no more than the risk at its stop and stays
\* under the leverage cap.
Affordable(o, q) ==
  /\ 100 * q * LotSize * o.stop <= o.equity * o.risk
  /\ q * LotSize * o.price <= o.equity * stated.max_leverage

\* A size never risks more than was asked, never exceeds the leverage cap, the
\* lot limits or the instrument's own notional floor, leaves the lot grid at
\* most for the largest lot, and is not a step too small; a refusal for size means that the smallest lot was unaffordable or
\* the affordable size under the floor (costs.py:192-216, contracts.py:103-113
\* and the floor of costs.py:157-166).
SizingIsSafe ==
  sized # Absent =>
    LET o == sized.order
        q == sized.result.lots
        floor == IF spec.min_notional # Absent THEN spec.min_notional ELSE stated.min_notional
    IN CASE sized.result.reason = Absent ->
              /\ q \in spec.min_lot .. spec.max_lot
              /\ Affordable(o, q)
              /\ q * LotSize * o.price >= floor
              /\ q # spec.max_lot => (q - spec.min_lot) % spec.lot_step = 0
              /\ q + spec.lot_step <= spec.max_lot => ~Affordable(o, q + spec.lot_step)
         [] sized.result.reason = "below_min_lot" -> ~Affordable(o, spec.min_lot)
         [] sized.result.reason = "below_min_notional" ->
              \A n \in spec.min_lot .. spec.max_lot :
                Affordable(o, n) /\ (n - spec.min_lot) % spec.lot_step = 0 =>
                  n * LotSize * o.price < floor
         [] sized.result.reason = "invalid_stop_distance" -> o.stop <= 0

\* round_lot's claim: "Round a raw lot amount down to the venue lot grid"
\* (contracts.py:104).  The largest lot is returned as it is, on the grid or
\* not, and nothing checks that it is (contracts.py:60-76 and 113).
LotsAreOnGrid ==
  sized # Absent /\ sized.result.lots > 0 =>
    (sized.result.lots - spec.min_lot) % spec.lot_step = 0
=============================================================================
