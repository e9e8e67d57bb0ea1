----------------------------- MODULE MC_Lockbox -----------------------------
(***************************************************************************)
(* Instance of LockboxLedger for TLC.  A behaviour has either several      *)
(* holders at a time and one plan, which everybody seals and presents,     *)
(* with edits of the file while nobody saves it; or one holder at a time,  *)
(* all plans, and edits at any time.                                       *)
(***************************************************************************)
EXTENDS LockboxLedger

VARIABLE crowd  \* may several processes hold the experiment at a time

ThePlan == CHOOSE p \in Plans : TRUE

MCInit == Init /\ crowd \in BOOLEAN

OnePlan == \A s \in sealings' \cup Range(releases') : s.plan = ThePlan

EditsDuringSave == Saving # {} /\ saving' = saving /\ file' # file

MCNext ==
  /\ Next
  /\ IF crowd THEN OnePlan /\ ~EditsDuringSave ELSE Cardinality(alive') <= 1
  /\ UNCHANGED crowd

MCSpec == MCInit /\ [][MCNext]_<< vars, crowd >>

\* The holders are interchangeable.
HolderSymmetry == Permutations(Holders)
=============================================================================
