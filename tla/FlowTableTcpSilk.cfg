SPECIFICATION Spec
CONSTANTS
  Keys <- TcpKeys
  idle_ms = 1
  active_ms = 9
  max_flows = 0
  uniflow = TRUE
  silkmode = TRUE
  OctMax = 2
  FlushDelay = 1
  MaxCQ = 1
  Iplens = {1}
  FlagSets <- TcpFlagSets
  MaxTime = 3
  MaxPkts = 4
  MaxFlush = 2
INVARIANT ExportComplete
INVARIANT EndReasonJustified
INVARIANT SilkFlows
CHECK_DEADLOCK FALSE
