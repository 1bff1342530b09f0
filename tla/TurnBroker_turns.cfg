SPECIFICATION PartsSpec
CONSTANTS
  Turns = {plain, safe, intent}
  SafeTurns = {safe}
  IntentTurns = {intent}
  ExternalTurns = {plain}
  Requests = {r1, r2}
  Observers = {o1}
  Answers = {a1}
  MaxTurns = 1
  NoTurn = NoTurn
  NoAnswer = NoAnswer
  NoRevision = NoRevision
  Procs = {p1, p2}
  MaxRuns = 2
  MaxEnds = 1
  NoFile = NoFile
  Accounts = {a1, p1}
  Sends = {r1, r2}
  Retention = 1
  LastDay = 2
  LimitsFaults = 1
  Terminals = {r1, r2}
  LastToken = 1
  ServiceFaults = 1
  LastTurn = 3
  ThreadOf <- OneThread
  ModelOf <- OneModel
  Kept = {1, 2, 3}
  MaxManual = 2
  MaxPages = 3
  MaxLost = 1
  MaxHelpers = 2
  MaxNudges = 1
  LastBlock = 2
  MaxEdits = 2
  Contents <- FourContents
  Blank = "blank"
  NoLink = "none"
  Unresolved = "pending"
  Layouts <- ThreeLayouts
SYMMETRY Interchangeable
INVARIANTS
  AnswerIsWhole
  FenceSound
  NothingLost
  ResumeContinues
  ExclusiveUntilStolen
  RemovesWhatWasProved
  CountsAreHonest
  LeavesNothingHalf
PROPERTIES
  LeaseSpec
CHECK_DEADLOCK FALSE
