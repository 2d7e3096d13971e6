\* retry.ts: after a fallback the request is retried with the new model.
CONSTANTS
  pro = pro
  flash = flash
  main = main
  agent = agent
  NoModel = NoModel
  NoChat = NoChat
  Model = {pro, flash}
  Chain <- ProThenFlash
  Transition <- AllTerminal
  Chat = {main, agent}
  Main = main
  AgentModel <- AgentWantsPro
  Actions = {"silent"}
  Verbosity = {"full"}
  MaxAttempts = 2
  MidStreamAttempts = 4
  MaxSends <- MainTwiceAgentOnce
  MaxChoices = 2
SPECIFICATION Spec
PROPERTY RetriesWithNewModel
CHECK_DEADLOCK FALSE
