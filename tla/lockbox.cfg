CONSTANTS
  Plans = {p1, p2}
  Datas = {d1}
  Callers = {"lockbox_guard"}
  Holders = {h1, h2}
  EditTargets = {"FROZEN"}
  MaxReleases = 2
SYMMETRY HolderSymmetry
SPECIFICATION MCSpec
INVARIANTS
  LogsAreLives
  DisclosuresAreReal
PROPERTIES
  SavesAreAtomic
  SaveKeepsKnownLog
  ObjectsAreOneShot
CHECK_DEADLOCK FALSE
