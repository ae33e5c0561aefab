SPECIFICATION LifeSpec
INVARIANT GracefulExit
CHECK_DEADLOCK FALSE
