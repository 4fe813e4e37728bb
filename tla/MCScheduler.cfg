SPECIFICATION Spec
CONSTANT Threads = 5
INVARIANT ExecuteReturns
CHECK_DEADLOCK FALSE
