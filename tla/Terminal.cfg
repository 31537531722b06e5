SPECIFICATION Spec
CONSTANTS
  StackSize = 20
  Rows = 3
  Cols = 7
  ByteSize = 256
  Width = 5
  Margin = 1
  MaxCmdline = 9
  HistorySize = 2
  Letters = {"a", "b", "c", "d", "e", "f", "g"}
  None = None
  UgaModes <- MCUgaModes
  Names = {"console", "serial", "hercules", "graphics"}
  InputBuf = 8
  Starts <- MCStarts
  Ahead = 3
  MaxCmds = 2
  MaxRow = 4
  Terminfos <- MCTerminfos
  Lines <- MCLines
  Arguments <- MCArguments
INVARIANTS
  LineShown
  ScreenIsText
  KeysInOrder
  ModeIsBest
PROPERTY
  TerminalChosen
CHECK_DEADLOCK FALSE
