\* One provider process; a kind whose Create makes a second call.
SPECIFICATION FairSpec
CONSTANTS
  Proc = {p1}
  Ids = {i1, i2, i3, i4}
  Specs = {s1, s2}
  PostCreate = TRUE
  Updatable = TRUE
  LostResponses = TRUE
  MaxFaults = 1
  MaxEdits = 3
  NoName = NoName
  MetaName = MetaName
  Absent = Absent
  Partial = Partial
CHECK_DEADLOCK FALSE
INVARIANTS
  TypeOK
  Tracked
  SecretPublished
PROPERTIES
  NameNotLost
  Refines
  DeletionCompletes
  DriftRepaired
