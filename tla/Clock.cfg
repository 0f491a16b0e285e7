SPECIFICATION FairSpec
CONSTANTS
  Settings = {0, 1, 2}
  Periods <- MCPeriods
  Dividers <- MCDividers
  LfoSyncs = {0, 2, 4}
  TornCounters = {1, 32767}
  MaxPending = 3
  MaxReceived = 6
INVARIANTS InStep
PROPERTIES LfoOnBeat KeepsBeating
CHECK_DEADLOCK FALSE
