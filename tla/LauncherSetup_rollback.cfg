SPECIFICATION SetupSpec
CONSTANTS
  NoConfig = NoConfig
  AutomaticOnly = {"bigger_context"}
  ManualOnly = {"zero_risk_pro"}
  Cleared = {"bigger_context"}
  SetupFaults = 1
  MaxSetups = 2
INVARIANT RunsWhatIsSaved
CHECK_DEADLOCK FALSE
