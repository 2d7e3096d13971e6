\* Two batches, with every way to cancel: the user may deny a call while another runs beside
\* it and a third waits behind them; what is asked for comes to an end.
CONSTANTS
  b1 = b1
  b2 = b2
  b3 = b3
  NoBatch = NoBatch
  c1 = c1
  c2 = c2
  c3 = c3
  c4 = c4
  c5 = c5
  read = read
  write = write
  shell = shell
  topic = topic
  unknown = unknown
  Batch = {b1, b2}
  Call = {c1, c2, c3, c4}
  Tool = {read, write, shell, topic, unknown}
  Registered = {read, write, shell, topic}
  TopicTools = {topic}
  Requests <- LongBatches
  ToolOf <- AskFirst
  Policy <- UsualPolicy
  Malformed = {}
  Waits = {c3}
  TailWaits = {}
  ClientInitiated = {}
  Expanding = {}
  Waived = {}
  EditTools = {}
  SandboxTools = {}
  TailTools = {read}
  BackgroundTools = {}
  Interactive = TRUE
  HookDecisions = {"continue"}
  Answers = {"once", "cancel"}
  CancelModes = {"abort", "ui", "cancelAll"}
  MaxRounds = 1
  MaxTails = 0
SPECIFICATION Spec
INVARIANT NothingLeftBehind
INVARIANT RequestsHaveAServer
INVARIANT EachCallReportedOnce
INVARIANT NeverSpins
PROPERTY KeepsContract
PROPERTY AbortSettles
PROPERTY RequestsSettle
CHECK_DEADLOCK FALSE
