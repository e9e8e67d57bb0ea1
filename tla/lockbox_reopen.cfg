CONSTANTS
  Plans = {p1}
  Datas = {d1}
  Callers = {"orchestrator"}
  Holders = {h1}
  EditTargets = {"FROZEN"}
  MaxReleases = 2
SPECIFICATION MCSpec
INVARIANT OpensAtMostOnce
CHECK_DEADLOCK FALSE
