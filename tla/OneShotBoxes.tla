---------------------------- MODULE OneShotBoxes ----------------------------
(***************************************************************************)
(* What every experiment object promises about its lockbox, with no log,   *)
(* no seals and no files: the box stays blind until the experiment is      *)
(* frozen, opens at most once, and a verdict is given only on an opened    *)
(* box.  A holder is "absent" while it has no experiment; it may drop its  *)
(* object at any time and later hold another copy of the experiment.       *)
(***************************************************************************)
EXTENDS Naturals

CONSTANT Holders

VARIABLES
  phase,   \* phase[h]: how far the experiment h holds has come
  opens    \* opens[h]: how often its lockbox was opened, by its own account

Phases == {"absent", "blind", "frozen", "open", "judged", "abandoned"}

\* The number of opens that goes with a phase.
OpensOf(p) == IF p \in {"open", "judged"} THEN 1 ELSE 0

Init ==
  /\ phase = [h \in Holders |-> "absent"]
  /\ opens = [h \in Holders |-> 0]

Move(h, from, to) == phase[h] = from /\ phase' = [phase EXCEPT ![h] = to]

\* A process creates an experiment or loads a persisted copy of it.
Hold(h) ==
  \E p \in Phases \ {"absent"} :
    /\ Move(h, "absent", p)
    /\ opens' = [opens EXCEPT ![h] = OpensOf(p)]

Drop(h) ==
  /\ phase' = [phase EXCEPT ![h] = "absent"]
  /\ opens' = [opens EXCEPT ![h] = 0]

Freeze(h)  == Move(h, "blind", "frozen") /\ UNCHANGED opens
Abandon(h) == Move(h, "blind", "abandoned") /\ UNCHANGED opens
Open(h)    == Move(h, "frozen", "open") /\ opens' = [opens EXCEPT ![h] = @ + 1]
Judge(h)   == Move(h, "open", "judged") /\ UNCHANGED opens

Next ==
  \E h \in Holders :
    Hold(h) \/ Drop(h) \/ Freeze(h) \/ Abandon(h) \/ Open(h) \/ Judge(h)

Spec == Init /\ [][Next]_<<phase, opens>>
=============================================================================
