SPECIFICATION Spec
CONSTANTS
  KeyBytes <- MCKeyBytes
  ValBytes <- MCValBytes
  Junk = {0, 4}
  KeyRooms = {1, 2}
  ValRooms = {0, 1}
  WORD = 100
  KEY_LENS = 3
  VAL_LENS = 2
  Capacity = 26
  Past = {75, 86}
  MaxAppends = 3
INVARIANT
  AppendsReadBack
