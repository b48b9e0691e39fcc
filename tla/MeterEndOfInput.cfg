SPECIFICATION MeterSpec
CONSTANTS
  Keys <- OneKey
  idle_ms = 1
  active_ms = 9
  max_flows = 0
  uniflow = FALSE
  silkmode = FALSE
  OctMax = 100
  FlushDelay = 1
  MaxCQ = 1
  Iplens = {1}
  FlagSets <- NoFlags
  MaxTime = 3
  MaxPkts = 5
  MaxFlush = 5
  GroupSize = 2
  RingCap = 3
  rotate_period = 1
  stats_period = 2
  enable_lock = TRUE
  transport = FALSE
  outspec = "path"
  MaxInput = 3
INVARIANT EndOfInputComplete
