\* A failed second call leaves an object behind and creates another.
SPECIFICATION Spec
CONSTANTS
  Proc = {p1}
  Ids = {i1, i2, i3}
  Specs = {s1, s2}
  PostCreate = TRUE
  Updatable = TRUE
  LostResponses = FALSE
  MaxFaults = 1
  MaxEdits = 2
  NoName = NoName
  MetaName = MetaName
  Absent = Absent
  Partial = Partial
CHECK_DEADLOCK FALSE
INVARIANTS
  NoDuplicate
