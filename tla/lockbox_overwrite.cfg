CONSTANTS
  Plans = {p1}
  Datas = {d1}
  Callers = {"orchestrator"}
  Holders = {h1, h2}
  EditTargets = {}
  MaxReleases = 1
SPECIFICATION MCSpec
PROPERTY RecordedOpensStay
CHECK_DEADLOCK FALSE
