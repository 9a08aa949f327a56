SPECIFICATION Spec
CONSTANTS
  Keys <- MCKeys
  Values <- MCValues
  EmptyKey = ""
  EmptyValue <- Empty
  OversizedKeys = {}
  OversizedValues = {}
  MAX_ENTRIES = 2
  BootKey = "ssid"
  BootValue <- Long
  Preempts <- SetDuringCommit
INVARIANTS
  CleanMeansSaved
