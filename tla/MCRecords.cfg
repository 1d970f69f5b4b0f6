CONSTANTS
  d1 = d1  d2 = d2
  update = update  icon = icon  assign = assign  unclass = unclass  untag = untag
  Devices = {d1, d2}
  Actor <- SameUser
  Ops = {update, icon, assign, unclass, untag}
  By <- MadeBy
  Updates = {update, icon}
  Writes <- ColumnsOf
  Links = {update}
  ClassAdds = {assign}
  ClassRemoves = {unclass}
  TagAdds = {assign}
  TagRemoves = {untag}
  MaxTime = 1
  MaxLogical = 1
  None = None
  MaxWall = 2
  MaxCounter = 2
  MaxRestarts = 1
  UserRow = {r1, r2, r3}
  Row = {r1, r2, r3, c1}
  Root = top
  ClassRow = {c1}
  Demoting = {c1}
  Locked = {}
  FamilyBase = {}
  System = {c1}
  Gated = {c1}
  MaxOps = 4
  WalkBound = 2
INIT RecordsInit
NEXT RecordsNext
CONSTRAINT OneSubject
SYMMETRY Interchangeable
INVARIANTS
  TypeOK ClassConverges RowConverges TagConverges
  PolarityPartitions OpensItsPage
PROPERTIES
  OnlyOverlapsSetBack
  OnlyMoveStrands
CHECK_DEADLOCK FALSE
