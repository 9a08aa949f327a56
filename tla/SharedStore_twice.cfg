SPECIFICATION Spec
CONSTANTS
  Keys <- MCKeys
  Values <- MCValues
  EmptyKey = ""
  EmptyValue <- Empty
  OversizedKeys = {}
  OversizedValues = {}
  MAX_ENTRIES = 3
  BootKey = "ssid"
  BootValue <- Long
  Preempts <- SetDuringSet
INVARIANTS
  AddedIfNew
