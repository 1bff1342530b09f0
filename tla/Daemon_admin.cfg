SPECIFICATION PartsSpec
CONSTANTS
  tools = tools
  text = text
  turn = turn
  turn2 = turn2
  compact = compact
  recompact = recompact
  thread = thread
  Keys = {tools, text}
  ToolKeys = {tools}
  Turns = {turn, turn2}
  KeyTurn <- TwoTurns
  Requests = {r1, r2}
  MaxRounds = 2
  CompactionKeys = {compact, recompact}
  Owners = {thread}
  CompactionOwner <- OneThread
  CompactionTurn <- TurnOfKey
  NativeTurns = {turn, turn2}
  NoRun = NoRun
  MaxRuns = 3
  None = None
INVARIANTS
  OneSurfacePerKey
  SameCall
  InterruptReachesAll
  ShutdownStaysIdle
  OneCompactionPerOwner
PROPERTIES
  AbandonedReleased
  CancelledRunsSettle
CHECK_DEADLOCK FALSE
