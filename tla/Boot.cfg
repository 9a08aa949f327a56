SPECIFICATION Spec
CONSTANTS
  Keys <- MCKeys
  Values <- MCValues
  MAX_ENTRIES = 2
  Defaults <- MCDefaults
  Empty = ""
  Numeric = {"wpa3", "wpa2", "0", "45", "90"}
  Angles = {"0", "90"}
  auth_modes <- MCModes
  Delays = {3000, 5500}
  UserPairs <- MCPairs
INVARIANTS
  TypeOK
  AbortsOnlyIfSavedSo
  ConnectsIfPossible
  RemembersMode
  BootKeepsSettings
PROPERTIES
  BootEnds
