SPECIFICATION Spec
CONSTANTS
  H = 3
  N = 4
  TERMIOS = 2
  Letters = {"q"}
INVARIANTS
  TypeOK
  CursorInLine
  HistoryKept
  SettingsKept
  CommandSeesLine
