SPECIFICATION Spec
CONSTANTS
  Frames <- MCFrames
  MaxFrames = 2
  Ops <- MCOps
  Code <- MCCode
  Prefix <- MCPrefix
  Separator <- Colon
  Escape <- Backslash
  CONFIG_KEY_LEN = 4
  CONFIG_VALUE_LEN = 3
  COMMAND_LEN = 2
  BUFFER_SIZE = 2
  Inflates <- MCInflates
INVARIANTS
  TypeOK
  DoneInOrder
  DoneWhenAtRest
  EffectsOfCommands
PROPERTIES
  WaitsAgain
