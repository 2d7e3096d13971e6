CONSTANTS
  b1 = b1
  b2 = b2
  b3 = b3
  NoBatch = NoBatch
  c1 = c1
  c2 = c2
  c3 = c3
  c4 = c4
  c5 = c5
  read = read
  write = write
  shell = shell
  topic = topic
  unknown = unknown
  Batch = {b1}
  Call = {c1, c2, c3}
  Tool = {read, write, shell, topic, unknown}
  Registered = {read, write, shell, topic}
  TopicTools = {topic}
  Requests <- OnePair
  ToolOf <- AllRead
  Policy <- ReadDenied
  Malformed = {}
  Waits = {}
  TailWaits = {}
  ClientInitiated = {}
  Expanding = {}
  Waived = {}
  EditTools = {}
  SandboxTools = {}
  TailTools = {}
  BackgroundTools = {}
  Interactive = TRUE
  HookDecisions = {"continue", "ask"}
  Answers = {"once", "always", "cancel"}
  CancelModes = {}
  MaxRounds = 1
  MaxTails = 0
SPECIFICATION Spec
INVARIANT DeniedNeverRuns
CHECK_DEADLOCK FALSE
