\* The deadline and the limit of turns end the loop after a turn with calls.
CONSTANTS
  MaxTurns = 1
  Budget = 1
  MaxCalls = 1
  MaxHints = 0
SPECIFICATION Spec
INVARIANT AnswersFollow
CHECK_DEADLOCK FALSE
