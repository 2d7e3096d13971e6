\* Three batches without a user; in the first the second call waits for the previous ones,
\* the third is an update_topic that moves to the front; every call may make a tail call.
CONSTANTS
  b1 = b1
  b2 = b2
  b3 = b3
  NoBatch = NoBatch
  c1 = c1
  c2 = c2
  c3 = c3
  c4 = c4
  c5 = c5
  read = read
  write = write
  shell = shell
  topic = topic
  unknown = unknown
  Batch = {b1, b2, b3}
  Call = {c1, c2, c3, c4, c5}
  Tool = {read, write, shell, topic, unknown}
  Registered = {read, write, shell, topic}
  TopicTools = {topic}
  Requests <- ThreeBatches
  ToolOf <- TopicLast
  Policy <- ShellDenied
  Malformed = {c4, c5}
  Waits = {c2}
  TailWaits = {write}
  ClientInitiated = {c2}
  Expanding = {}
  Waived = {}
  EditTools = {}
  SandboxTools = {}
  TailTools = {write, shell}
  BackgroundTools = {}
  Interactive = FALSE
  HookDecisions = {"continue", "error"}
  Answers = {"once", "always", "cancel"}
  CancelModes = {"abort"}
  MaxRounds = 1
  MaxTails = 1
SPECIFICATION Spec
INVARIANT TypeOK
INVARIANT EachCallReportedOnce
INVARIANT WaitsForPrevious
INVARIANT HeadlessNeverAsks
INVARIANT RunsOnlyIfAllowed
PROPERTY KeepsContract
CHECK_DEADLOCK FALSE
