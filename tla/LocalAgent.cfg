\* Two turns and the recovery turn, two calls in each.
CONSTANTS
  MaxTurns = 2
  Budget = 2
  MaxCalls = 2
  MaxHints = 2
SPECIFICATION Spec
INVARIANT TypeOK
INVARIANT DeadlineCountsWork
INVARIANT EndsForAReason
INVARIANT CompletionNotLost
INVARIANT InjectionsArrive
PROPERTY RunEnds
CHECK_DEADLOCK FALSE
