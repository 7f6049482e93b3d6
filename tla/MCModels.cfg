CONSTANT Parts = {"lifecycle", "unsupported", "evaluation", "adapter", "inspection", "install", "deep"}
SPECIFICATION Spec
CONSTRAINT Few
INVARIANTS VerdictFitsTheContract PassIsOnePath ReadyIsBound PassIsAttributed ReportSurvives
CHECK_DEADLOCK FALSE
