CONSTANTS
  base = base
  kind = kind
  topic = topic
  Class = {base, kind, topic}
  Seeded <- SeededDef
  Scopes = {{}, {topic}}
  BindingStamp = {1, 2}
  MaxConfig = 4
  notes = notes
  elem = elem
  Schema = {notes}
  Known = {notes}
  Scoped = {notes}
  Single = {}
  Text = {notes}
  Element = {elem}
  Home <- HomeDef
  Idx = {0, 1}
  Stamps <- StampsDef
  MaxSeen = 3
  SystemClass = {"task", "meeting", "birthday", "day"}
  Feature = {"tasks", "events", "meetings", "journal"}
  ToggleStamps <- ToggleStampsDef
  MaxToggles = 3
  Id = {a, b, f}
  NoId = none
  Family = {f}
  AliasCap = 2
  MaxEdits = 4
  Ref = {ref}
  Object = {"c", "o"}
  Member <- MemberDef
  Stamp = {1, 2}
  Unmapped = unmapped
INIT MirrorInit
NEXT MirrorNext
SYMMETRY Interchangeable
INVARIANTS
  ClosureSound VisibleIsNewest
  GraphFollowsIndex NewestStands ReadsAgree
PROPERTIES
  SettledStaysAcyclic OnlyUndeclaredUnsettles CarrierOutlivesItsValues
  OnlyOwnEnvelopeDrifts
  OnlyFlatteningOrTogglesStale OnlyDeclarationMiscounts
CHECK_DEADLOCK FALSE
