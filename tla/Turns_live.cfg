SPECIFICATION LiveSpec
CONSTANTS
  None = None
  BrokerTurns = {t1}
  SafeTurns = {t1}
  IntentTurns = {}
  ExternalTurns = {}
  BrokerRequests = {r1}
  Observers = {o1, o2}
  Answers = {a1}
  MaxTurns = 1
  NoAnswer = NoAnswer
  NoRevision = NoRevision
  first = first
  steered = steered
  thread = thread
  turn = turn
  i1 = i1
  i2 = i2
  SessionRequests = {r1, r2}
  MaxSessions = 2
  MaxActive = 5
PROPERTIES
  AbandonedHandlersEnd
  QueuedReachesObserver
  SteeringProceeds
CHECK_DEADLOCK FALSE
