CONSTANTS
  Procs = {p1}
  MaxTurns = 2
  MaxRounds = 1
  MaxFills = 1
  MaxThreads = 1
  MaxCompactions = 1
  MaxFaults = 0
SPECIFICATION DevChatSpec
INVARIANT CompactedTurnResumes
CHECK_DEADLOCK FALSE
