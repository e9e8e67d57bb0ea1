------------------------------ MODULE MC_Ticks ------------------------------
(***************************************************************************)
(* Instance of EventEngine for TLC: rows that ask for a trade in either    *)
(* direction, for none, and for one without a valid ATR.                   *)
(***************************************************************************)
EXTENDS EventEngine

Row(l, s, a, v) == [long |-> l, short |-> s, allow |-> a, atr |-> v]

SomeRows == { Row(TRUE, FALSE, TRUE, TRUE), Row(FALSE, TRUE, TRUE, TRUE),
              Row(FALSE, TRUE, TRUE, FALSE), Row(TRUE, FALSE, FALSE, TRUE) }

SomeFunding == [d \in Directions |-> IF d = "long" THEN 2 ELSE -1]

SomeGross == {-5, 7}

\* Bound on the policies: the last row, which is never read, is fixed.
MCInit == EventInit /\ policy[NBars - 1] = Row(TRUE, FALSE, FALSE, TRUE)

MCSpec == MCInit /\ [][EventNext]_eventVars
=============================================================================
