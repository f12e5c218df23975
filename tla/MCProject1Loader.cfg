SPECIFICATION Spec
CONSTANT Parts = {"loader"}
INVARIANT DataIntactFirst
CHECK_DEADLOCK FALSE
