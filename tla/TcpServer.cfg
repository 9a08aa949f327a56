SPECIFICATION Spec
CONSTANTS
  Connections = {c1, c2}
  Messages = {"image", "broken", "clear", "set"}
  None = None
  Command <- MCCommand
  Size <- MCSize
  Delimited <- MCDelimited
  Damaged <- MCDamaged
  HEADER_SIZE = 2
  MAX_BUFFER_SIZE = 3
  Hazards = {"overlap", "abort", "reset", "split", "chain", "damage"}
INVARIANTS
  TypeOK
  AtMostOnce
  FaithfulUntilHazard
  ImmediateServed
SYMMETRY Interchangeable
CHECK_DEADLOCK FALSE
