SPECIFICATION Spec
CONSTANTS
  Connections = {c1, c2}
  Messages = {"clear", "set", "key", "text"}
  None = None
  Command <- MCCommand
  Size <- MCSize
  Delimited <- MCDelimited
  Damaged <- MCDamaged
  HEADER_SIZE = 2
  MAX_BUFFER_SIZE = 3
  Hazards = {}
INVARIANTS
  DocumentedServed
CHECK_DEADLOCK FALSE
