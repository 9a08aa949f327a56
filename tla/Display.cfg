SPECIFICATION Spec
CONSTANTS
  Chars <- MCChars
  NewLine = "nl"
  CharWidth <- MCCharWidth
  WIDTH = 3
  MAX_LINES = 2
  Parts = 2
  Pictures = {"p", "q"}
  UsbTexts <- MCUsbTexts
  TcpTexts <- MCTcpTexts
INVARIANTS
  TypeOK
  TextFits
  EmptiedByClear
  LinesFit
  KeepsLastLines
  ShowsWhatUsbAsked
  ShownWhenIdle
PROPERTIES
  PrintEnds
