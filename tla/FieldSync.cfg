\* Every field of every kind, alone and with another of a different rule.
SPECIFICATION FairSpec
CONSTANTS
  Focuses <- EachAndPairs
  Unset = Unset
  Default = Default
  Others = {a, b}
  MaxEdits = 2
  MaxFaults = 1
INVARIANTS
  TypeOK
PROPERTIES
  OneReconcileSuffices
  UnmanagedFieldsKept
  SecretCarried
  Converges
