\* Two chats over two models with a chain of the user's settings: a transient failure leaves
\* one attempt in each turn, any other ends the use of the model, as in the policies of the
\* catalogue; the interface may ask, keep trying or, in plan mode, switch silently.
CONSTANTS
  pro = pro
  flash = flash
  main = main
  agent = agent
  NoModel = NoModel
  NoChat = NoChat
  Model = {pro, flash}
  Chain <- ProThenFlash
  Transition <- StickyIfTransient
  Chat = {main, agent}
  Main = main
  AgentModel <- AgentWantsFlash
  Actions = {"prompt", "silent"}
  Verbosity = {"low", "full"}
  MaxAttempts = 2
  MidStreamAttempts = 4
  MaxSends <- MainTwiceAgentOnce
  MaxChoices = 1
SPECIFICATION Spec
INVARIANT TypeOK
INVARIANT AskedIsShown
PROPERTY GivenUpStaysGivenUp
PROPERTY CancelledCallsNoMore
PROPERTY MainRequestEnds
CHECK_DEADLOCK FALSE
