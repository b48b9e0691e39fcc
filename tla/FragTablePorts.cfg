SPECIFICATION Spec
CONSTANTS
  Dgrams <- OneOther
  PortNums = {0, 1}
  max_frags = 3
  YF_FRAG_TIMEOUT = 2
  YF_FRAGPRUNE_DELAY = 2
  MaxTime = 2
  MaxCalls = 3
INVARIANT OtherHasNoPorts
CHECK_DEADLOCK FALSE
