SPECIFICATION ManualSpec
CONSTANTS
  LastTurn = 3
  ThreadOf <- OneThread
  ModelOf <- OtherModel
  Kept = {1, 2, 3}
  MaxManual = 2
  MaxPages = 2
  MaxLost = 1
  MaxHelpers = 1
  MaxNudges = 1
INVARIANT OwnsHistory
CHECK_DEADLOCK FALSE
