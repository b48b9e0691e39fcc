SPECIFICATION Spec
CONSTANTS
  Keys <- UdpIcmpKeys
  idle_ms = 2
  active_ms = 3
  max_flows = 3
  uniflow = FALSE
  silkmode = FALSE
  OctMax = 100
  FlushDelay = 2
  MaxCQ = 2
  Iplens = {1}
  FlagSets <- NoFlags
  MaxTime = 5
  MaxPkts = 4
  MaxFlush = 1
INVARIANT TypeOK
INVARIANT TableMatchesQueues
INVARIANT IdleOrder
INVARIANT OneFlowPerConversation
INVARIANT PacketsInFlows
PROPERTY ClosedFlowFrozen
PROPERTY FlushLeavesNoIdle
CHECK_DEADLOCK FALSE
