CONSTANT Parts = {"unsupported"}
SPECIFICATION Spec
INVARIANT UnsupportedWriterIsInconclusive
CHECK_DEADLOCK FALSE
