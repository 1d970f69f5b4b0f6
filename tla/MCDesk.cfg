CONSTANTS
  Node = {1, 2, 3}
  None = None
  page = page
  other = other
  Family = {"class"}
  Pick = {page, other}
  Bound = {"number"}
  Typed <- TypedDef
  Tokens <- TokensDef
  MaxRows = 2
  Locked = {"gui", "worker"}
  Unlocked = {"restore"}
  Gui = "gui"
  MaxChanges = 4
  place = place
  Place = {place}
  MaxEdits = 2
  MaxBusy = 2
  MaxEngines = 2
  Card = {1}
  Heir = {}
  Pressed = {"good"}
  LastDay = 1
  MaxGrades = 2
  MaxForeign = 1
  MaxStability = 4
SPECIFICATION DeskSpec
INVARIANTS
  TypeOK Sound RowsMatchParents
  AppliedQueryRuns CursorCovered NoChangeLost
  ScheduleIsHistory HistoryChains
PROPERTIES
  OnlyConvertMisplaces OnlyConvertStales
  SealedOnceKeyed LockedKeepsOut CatchesUp
CHECK_DEADLOCK FALSE
