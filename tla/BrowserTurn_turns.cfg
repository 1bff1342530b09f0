SPECIFICATION EitherSpec
CONSTANTS
  trace = trace
  TurnKinds <- ThreeKinds
  MaxText = 2
  MaxBatches = 1
  MaxRebinds = 1
  MaxFaults = 1
  MaxTriggers = 2
  Calls <- TwoRuns
  TraceOf <- OneTrace
  MaxChildren = 2
  MaxFences = 1
  MaxMirrored = 0
  Requests <- FourAsks
  MaxEvents = 3
  MaxBuffered = 3
  StallTicks = 2
  Compactions <- AnyRequest
  Sources <- AnySource
  Tasks <- SevenTasks
  Sites <- FiveSites
  TopEffort = 2
  Room <- SmallLow
  Window <- TwoEach
  LunaBudget = 1
  Multiplier = 3
  PartCounts = {2, 3}
  Fallback <- LostSelection
  MaxMentions = 3
INVARIANTS
  FinalSurvives
  WholeAnswer
  AnswerIsFinal
  NoSecondSubmission
  SendsAsMeant
  PutBackOrTold
PROPERTIES
  AbortedTurnEnds
  AbortedRunsSettle
CHECK_DEADLOCK FALSE
