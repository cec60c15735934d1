SPECIFICATION LogSpec
CONSTANTS
  Tasks = {eps, ttc, tc}
  NoTask = NoTask
  Failures = {"init", "timeout"}
INVARIANT HaltsAreForced
PROPERTY ImplementsLineLog
CHECK_DEADLOCK FALSE
