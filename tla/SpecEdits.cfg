\* Every field of every kind.
SPECIFICATION FairSpec
CONSTANTS
  Values = {v1, v2}
  Omitted = Omitted
  Absent = Absent
  Here = Here
  MaxEdits = 4
CHECK_DEADLOCK FALSE
INVARIANTS
  TypeOK
  NoneOrphaned
PROPERTIES
  EditsCarried
  EditsTakeEffect
