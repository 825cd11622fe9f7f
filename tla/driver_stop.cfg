SPECIFICATION Spec
CONSTANT MaxStarts = 1
INVARIANT GracefulStop
CHECK_DEADLOCK FALSE
