SPECIFICATION Spec
CONSTANTS
  Keys <- MCKeys
  Values <- MCValues
  EmptyKey = ""
  EmptyValue = ""
  OversizedKeys = {}
  OversizedValues = {"129-letters"}
  FactoryDefaults <- MCDefaults
  MAX_ENTRIES = 2
  PAGES = 2
INVARIANTS
  TypeOK
  UniqueKeys
  CleanMeansSaved
PROPERTIES
  DeleteForgetsOne
  BootKeepsSettings
  DefaultsUnlessFull
  RefinesConfigStore
