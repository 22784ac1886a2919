\* One resource that is deleted, without faults.
SPECIFICATION FairSpec
CONSTANTS
  Resources = {r1}
  Specs = {s1, s2}
  Off = off
  Absent = Absent
  MaxFaults = 0
  MaxEdits = 2
CHECK_DEADLOCK FALSE
PROPERTIES
  DeletionEnds
