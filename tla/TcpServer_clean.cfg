SPECIFICATION Spec
CONSTANTS
  Connections = {c1, c2}
  Messages = {"image", "zipped", "clear", "set", "get", "other", "reset"}
  None = None
  Command <- MCCommand
  Size <- MCSize
  Delimited <- MCDelimited
  Damaged <- MCDamaged
  HEADER_SIZE = 2
  MAX_BUFFER_SIZE = 3
  Hazards = {"reuse"}
PROPERTIES
  ImplementsCommandServer
CHECK_DEADLOCK FALSE
