SPECIFICATION Spec
CONSTANTS
  KeyBytes <- MCKeyBytes
  ValBytes <- MCValBytes
  HashOf <- MCHashOf
  Junk = {0}
  MaxAppends = 2
  WORD = 100
  KEY_LENS = 4
  VAL_LENS = 2
  Capacity = 40
  Code = {0, 1, 4}
  Width = 32
  Slack = 1
  LoadNum = 7
  LoadDen = 10
  Offset = {0}
  PTR = 2
  BUF = 2
  ROOM = 1
INVARIANT
  RefIsCurrent
PROPERTY
  ImplementsKVDB
