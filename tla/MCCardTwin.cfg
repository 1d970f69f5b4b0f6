CONSTANTS
  Card = {1}
  Heir = {}
  Pressed = {"good"}
  LastDay = 1
  MaxGrades = 1
  MaxForeign = 1
  MaxStability = 2
SPECIFICATION CardsSpec
INVARIANT JournalIsTwin
CHECK_DEADLOCK FALSE
