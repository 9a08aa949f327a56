SPECIFICATION Spec
CONSTANTS
  Connections = {c1, c2}
  Messages = {"image", "zipped"}
  None = None
  Command <- MCCommand
  Size <- MCSize
  Delimited <- MCDelimited
  Damaged <- MCDamaged
  HEADER_SIZE = 2
  MAX_BUFFER_SIZE = 3
  Hazards = {"abort"}
INVARIANTS
  ChunksComplete
CHECK_DEADLOCK FALSE
