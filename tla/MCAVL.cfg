SPECIFICATION Spec
CONSTANTS
  NWords = 6
  Words <- MCWords
  MaxInserts = 6
  MaxCrashInserts = 4
INVARIANTS
  TypeOK
  Balanced
  CountsExact
  ListingSorted
  NothingInvented
  FaultNeedsCrash
