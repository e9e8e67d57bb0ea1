---------------------------- MODULE IndexRanges ----------------------------
(***************************************************************************)
(* The half-open index ranges of evoquant/data/splits.py.  A list of       *)
(* ranges is modelled as the set of its members: the code never reads      *)
(* their order, and the lists it builds hold no range twice.               *)
(***************************************************************************)
EXTENDS Integers, FiniteSets

\* IndexRange(start, stop), which refuses a negative start or length.
Span(a, b) == [start |-> a, stop |-> b]
IsSpan(r) == 0 <= r.start /\ r.start <= r.stop

Spans == {r \in [start : Nat, stop : Nat] : IsSpan(r)}

Indices(r) == r.start .. (r.stop - 1)
Bars(R) == UNION {Indices(r) : r \in R}

\* IndexRange.intersects.
Intersects(r, s) ==
  /\ r.start < r.stop /\ s.start < s.stop
  /\ r.start < s.stop /\ s.start < r.stop

\* Mutant of Pieces: what lies after the cut is lost.
PiecesBefore(r, cut) ==
  IF Intersects(r, cut)
  THEN {p \in {Span(r.start, cut.start)} : r.start < cut.start}
  ELSE {r}

\* Mutant of Pieces: the "continue" after keeping a range untouched is missing.
PiecesNoContinue(r, cut) ==
  {p \in {r} : ~Intersects(r, cut)}
    \cup {p \in {Span(r.start, cut.start)} : r.start < cut.start}
    \cup {p \in {Span(cut.stop, r.stop)} : cut.stop < r.stop}

\* What the loop body of subtract_ranges keeps of range r for one cut.
Pieces(r, cut) ==
  IF Intersects(r, cut)
  THEN {p \in {Span(r.start, cut.start)} : r.start < cut.start}
         \cup {p \in {Span(cut.stop, r.stop)} : cut.stop < r.stop}
  ELSE {r}

\* One round of subtract_ranges: one cut taken out of every range.
Subtract(R, cut) == UNION {Pieces(r, cut) : r \in R}

\* The last line of subtract_ranges.
NonEmpty(R) == {r \in R : r.start < r.stop}
=============================================================================
