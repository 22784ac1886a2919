\* A setting that two resources declare; a query shape may come and go.
SPECIFICATION FairSpec
CONSTANTS
  Resources = {r1, r2}
  Specs = {s1, s2, off}
  Off = off
  Absent = Absent
  MaxFaults = 1
  MaxEdits = 5
CHECK_DEADLOCK FALSE
INVARIANTS
  TypeOK
PROPERTIES
  DeletedStaysOff
  Applied
  Contended
  Refines
  FinalizerStays
