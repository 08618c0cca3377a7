SPECIFICATION RoutesSpec
INVARIANT RoutesExact
CHECK_DEADLOCK FALSE
