\* A modifiable edit and a shell command that may need a sandbox expansion or go to the
\* background.
CONSTANTS
  b1 = b1
  b2 = b2
  b3 = b3
  NoBatch = NoBatch
  c1 = c1
  c2 = c2
  c3 = c3
  c4 = c4
  c5 = c5
  read = read
  write = write
  shell = shell
  topic = topic
  unknown = unknown
  Batch = {b1, b2}
  Call = {c1, c2, c3}
  Tool = {read, write, shell, topic, unknown}
  Registered = {read, write, shell, topic}
  TopicTools = {topic}
  Requests <- TwoBatches
  ToolOf <- Mixed
  Policy <- ReadAsks
  Malformed = {}
  Waits = {}
  TailWaits = {}
  ClientInitiated = {c1}
  Expanding = {c1}
  Waived = {read}
  EditTools = {write}
  SandboxTools = {shell}
  TailTools = {}
  BackgroundTools = {shell}
  Interactive = TRUE
  HookDecisions = {"continue", "ask"}
  Answers = {"once", "always", "cancel", "modify", "inline"}
  CancelModes = {"abort"}
  MaxRounds = 1
  MaxTails = 0
SPECIFICATION Spec
INVARIANT RunsOnlyIfAllowed
PROPERTY AbortStopsStarts
CHECK_DEADLOCK FALSE
