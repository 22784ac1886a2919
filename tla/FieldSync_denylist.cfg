\* A function denylist removed from the manifest stays on the server.
SPECIFICATION FairSpec
CONSTANTS
  Focuses <- Denylist
  Unset = Unset
  Default = Default
  Others = {a, b}
  MaxEdits = 1
  MaxFaults = 0
PROPERTIES
  OmittedIsCleared
