CONSTANTS
  MaxRuns = 2
  Callers = {"orchestrator", "cli"}
  Plans = {p1}
  Datas = {d1, d2}
SPECIFICATION StudioSpec
INVARIANTS
  RunTypeOK
  DirectoryHasOneDataset
  ReportsRestOnArtifacts
  StatusIsEarned
  PagesTellTheRun
PROPERTY StartedRunsEnd
CHECK_DEADLOCK FALSE
