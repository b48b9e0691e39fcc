SPECIFICATION SupportSpec
CONSTANTS
  Flows <- SomeFlows
  Specs <- SomeSpecs
  MsgCap = 2
  MaxEmits = 2
  MaxCalls = 1
  MaxOutputs = 2
  CommandLines <- SomeCommandLines
  DocNodes <- SomeNodes
  SpecSize = 20
  MaxKeys = 2
  NONE = NONE
  Vals = {a, b}
  cap = 3
  Queues = {aq, cq}
  Nodes = {x1, x2, x3, x4}
  NULL = NULL
  AddrBits = 3
  NetPrefixes <- SomePrefixes
  Ifs <- SomeIfs
  Macs = {1, 2}
  MaxAdds = 1
INVARIANT TcpFieldsMeasured
CHECK_DEADLOCK FALSE
