SPECIFICATION SessionsSpec
CONSTANTS
  first = first
  steered = steered
  compacted = compacted
  other = other
  thread = thread
  thread2 = thread2
  turn = turn
  turn2 = turn2
  i1 = i1
  i2 = i2
  conv = conv
  None = None
  Keys = {first, steered, compacted}
  Owners = {thread}
  Turns = {turn}
  Instructions = {i1, i2}
  Conversations = {conv}
  OwnerOf <- ThreadOf
  TurnOf <- NativeTurnOf
  InstructionOf <- InstructionOfKey
  ConversationOf <- RetainedIn
  Replaces <- Compacts
  Predecessors <- Lineage
  Manual = {}
  Requests = {r1, r2}
  MaxSessions = 2
  MaxActive = 5
INVARIANT OneSurface
CHECK_DEADLOCK FALSE
