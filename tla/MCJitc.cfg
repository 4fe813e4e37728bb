SPECIFICATION JitcSpec
CONSTANTS
  p = p
  q = q
  Proc = {p, q}
  Nobody = Nobody
  Size <- MCSize
INVARIANTS
  JitcTypeOK
  OwnValue
  UseNeedsFailure
CHECK_DEADLOCK FALSE
