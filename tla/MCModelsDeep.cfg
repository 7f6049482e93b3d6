CONSTANT Parts = {"deep"}
SPECIFICATION Spec
INVARIANT CleanMeansInspected
CHECK_DEADLOCK FALSE
