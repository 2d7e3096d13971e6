\* A command in a terminal and a child process with is_background.
CONSTANTS
  p1 = p1
  p2 = p2
  Execution = {p1, p2}
  Behavior <- NotifyAndInject
  Pty = {p1}
  Detached = {p2}
  MaxHistory = 1
SPECIFICATION Spec
INVARIANT TypeOK
INVARIANT NothingHeld
INVARIANT EndIsReported
INVARIANT ExitHeardOnce
PROPERTY KeepsExecutionContract
PROPERTY AbortEndsCall
CHECK_DEADLOCK FALSE
