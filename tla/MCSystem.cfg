SPECIFICATION Spec
CONSTANT Parts = {"pisa", "alpha", "eio", "loader"}
INVARIANTS AnswersExact HostKept Reproducible LoadedExact
CHECK_DEADLOCK FALSE
