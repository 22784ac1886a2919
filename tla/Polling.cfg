\* A --poll shorter than the library's interval, among others.
SPECIFICATION Spec
CONSTANTS
  Kinds = {"Project", "Database"}
  Durations = {0, 1, 2, 4}
  LibraryPoll = 2
  Horizon = 6
CHECK_DEADLOCK FALSE
INVARIANTS
  CheckedEveryPoll
