\* A resource that can move between two configurations and two accounts.
SPECIFICATION FairSpec
CONSTANTS
  Configs = {c1, c2}
  Secrets = {s1, s2}
  Accounts = {{k1}, {k2}}
  Nothing = Nothing
  Blank = Blank
  MaxEdits = 3
CHECK_DEADLOCK FALSE
INVARIANTS
  TypeOK
  InUse
PROPERTIES
  NeverLeftBehind
  ResumesWhenUsable
  RotationTakesEffect
