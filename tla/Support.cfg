SPECIFICATION SupportSpec
CONSTANTS
  Flows <- SomeFlows
  Specs <- SomeSpecs
  MsgCap = 2
  MaxEmits = 2
  MaxCalls = 4
  MaxOutputs = 2
  CommandLines <- SomeCommandLines
  DocNodes <- SomeNodes
  SpecSize = 20
  MaxKeys = 2
  NONE = NONE
  Vals = {a, b}
  cap = 3
  Queues = {aq, cq}
  Nodes = {x1, x2, x3, x4}
  NULL = NULL
  AddrBits = 3
  NetPrefixes <- SomePrefixes
  Ifs <- SomeIfs
  Macs = {1, 2}
  MaxAdds = 4
INVARIANT RecordsDecodable
INVARIANT RecordsReachOutput
INVARIANT RecordFieldsSet
INVARIANT SettingsReachStages
INVARIANT TemplateReachesStages
INVARIANT PointersAgree
INVARIANT PointersMatch
INVARIANT LookupsFindAdded
PROPERTY RingIsFifo
CHECK_DEADLOCK FALSE
