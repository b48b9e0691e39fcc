SPECIFICATION Spec
CONSTANTS
  Dgrams <- Ordinary
  PortNums = {0, 1}
  max_frags = 3
  YF_FRAG_TIMEOUT = 2
  YF_FRAGPRUNE_DELAY = 2
  MaxTime = 5
  MaxCalls = 5
INVARIANT FraqMatches
INVARIANT AssembledWhole
INVARIANT CompleteIsAssembled
PROPERTY PruneKeepsLimit
CHECK_DEADLOCK FALSE
