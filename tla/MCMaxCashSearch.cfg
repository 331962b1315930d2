CONSTANT MaxPaise = 5
SPECIFICATION SearchSpec
INVARIANT SearchFindsLargest
PROPERTY SearchEnds
CHECK_DEADLOCK FALSE
