SPECIFICATION FairSpec
CONSTANTS
  Width = 4
  Growth = 3
  MaxTime = 6
  Ticks = 2
INVARIANTS
  TypeOK
  UtilExact
PROPERTY
  SignalEnds
CHECK_DEADLOCK FALSE
