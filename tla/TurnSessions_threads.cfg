SPECIFICATION ThreadsSpec
CONSTANTS
  first = first
  steered = steered
  compacted = compacted
  other = other
  thread = thread
  thread2 = thread2
  turn = turn
  turn2 = turn2
  i1 = i1
  i2 = i2
  conv = conv
  None = None
  Keys = {first, steered, compacted, other}
  Owners = {thread, thread2}
  Turns = {turn, turn2}
  Instructions = {i1, i2}
  Conversations = {conv}
  OwnerOf <- ThreadOf
  TurnOf <- NativeTurnOf
  InstructionOf <- InstructionOfKey
  ConversationOf <- RetainedIn
  Replaces <- Compacts
  Predecessors <- Lineage
  Manual = {other}
  Requests = {r1, r2}
  MaxSessions = 2
  MaxActive = 1
  trace = trace
  Calls <- TwoRuns
  TraceOf <- OneTrace
  MaxChildren = 2
  MaxFences = 2
  MaxMirrored = 1
  Observers = {r1, r2}
  Tools = {t1, t2}
  Modes = {"tools", "manual", "readonly"}
  MaxText = 2
  MaxSurfaces = 2
  MaxRetries = 1
  MaxLost = 2
  Nobody = Nobody
  Procs = {p1, p2}
  MaxTurns = 2
  MaxRounds = 2
  MaxFills = 1
  MaxThreads = 1
  MaxCompactions = 1
  MaxFaults = 1
SYMMETRY Alike
INVARIANTS
  OneSurfacePerThread
  OwnAnswers
  AnswerReachesClient
  SavedIsWhole
CHECK_DEADLOCK FALSE
