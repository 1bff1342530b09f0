SPECIFICATION LauncherSpec
CONSTANTS
  first = first
  other = other
  conversation = conversation
  h1 = h1
  h2 = h2
  recovery = recovery
  None = None
  Traces = {first, other}
  Helpers <- TwoHelpers
  KeyOf <- Keys
  Required = {}
  MaxTabs = 1
  MaxOpened = 2
  Recoveries = {recovery}
  MaxSpawns = 2
  MaxFaults = 1
  MaxRestarts = 1
  Threshold = 2
  NoConfig = NoConfig
  AutomaticOnly = {"bigger_context"}
  ManualOnly = {"zero_risk_pro"}
  Cleared = {"bigger_context"}
  SetupFaults = 1
  MaxSetups = 2
  HomeEvents = 3
  LastVersion = 3
  UpdateFaults = 2
SYMMETRY Alike
INVARIANTS
  OneDriver
  NoOrphan
  RolledBack
  SignOutStands
  SomethingToStart
  RunsItsOwnRuntime
PROPERTIES
  KeepsItsTab
  CloseIsReported
  PartialImportDiscarded
CHECK_DEADLOCK FALSE
