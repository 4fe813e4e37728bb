SPECIFICATION Spec
CONSTANTS
  Code = {0, 1, 3, 4, 6, 14, 15}
  Width = 16
  Slack = 1
  LoadNum = 7
  LoadDen = 10
  Offset = {5}
INVARIANTS
  TypeOK
  EveryCodeFindable
  NothingLost
  ExitsOnlyWhenWrapped
PROPERTY
  ImplementsMap
CHECK_DEADLOCK FALSE
