----------------------------- MODULE MC_Splits -----------------------------
(***************************************************************************)
(* Instance of WalkForward for TLC: every small configuration.             *)
(***************************************************************************)
EXTENDS WalkForward

CONSTANTS MaxOuter, MaxInner, MaxBlock, MaxGap, MaxTrain

SmallConfigs ==
  [ n_outer : 1 .. MaxOuter, outer_test : 1 .. MaxBlock,
    n_inner : 1 .. MaxInner, inner_val  : 1 .. MaxBlock,
    lockbox : {2},           min_train  : 1 .. MaxTrain,
    purge   : 0 .. MaxGap,   embargo    : 0 .. MaxGap ]
=============================================================================
