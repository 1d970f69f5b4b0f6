SPECIFICATION Spec
CONSTANTS
  d1 = d1  d2 = d2
  update = update  icon = icon  assign = assign  unclass = unclass  untag = untag
  Devices = {d1, d2}
  Actor <- TwoUsers
  Ops = {update, icon}
  By <- MadeBy
  Updates = {update, icon}
  Writes <- ColumnsOf
  Links = {update}
  ClassAdds = {}
  ClassRemoves = {}
  TagAdds = {}
  TagRemoves = {}
  MaxTime = 1
  MaxLogical = 1
  None = None
INVARIANTS ReplicasConverge
CHECK_DEADLOCK FALSE
