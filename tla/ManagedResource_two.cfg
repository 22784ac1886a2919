\* Two provider processes, as without leader election.
SPECIFICATION Spec
CONSTANTS
  Proc = {p1, p2}
  Ids = {i1, i2, i3}
  Specs = {s1, s2}
  PostCreate = TRUE
  Updatable = TRUE
  LostResponses = TRUE
  MaxFaults = 1
  MaxEdits = 3
  NoName = NoName
  MetaName = MetaName
  Absent = Absent
  Partial = Partial
CHECK_DEADLOCK FALSE
SYMMETRY Symmetry
INVARIANTS
  AtMostOneOwned
  OneCreator
  ObjectsBounded
PROPERTIES
  ReleasedWhenGone
  OnlyDeletedIsRemoved
