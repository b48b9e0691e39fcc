SPECIFICATION StagesSpec
CONSTANTS
  QF_SEQGAP_CT = 2
  SeqSpace = 32
  Isns = {28}
  Segments <- AnySegments
  FirstOcts = {1}
  Mss = 1
  Rtts = {1}
  MaxSegs = 5
  MaxTime = 2
  Space = 8
  alpha = 2
  TcpInfos <- AnyInfos
  MaxTcpMs = 3
  MaxTcp = 4
  Frames <- SomeFrames
  Reqtypes = {"IPv4", "IPANY"}
  MaxFrames = 1
  bucket_max = 6
  bucket_rate = 1500
  bucket_delay = 4
  drop_p = TRUE
  delay_max = 2
  IntValues = 32
  Octs = {1, 3}
  MaxMs = 5
  MaxOffered = 4
  MaxSignals = 3
  MaxCounted = 3
INVARIANT GapsMatchStream
INVARIANT ObservationIsRoundTrip
INVARIANT FinalAckIsLatest
INVARIANT BufferValid
INVARIANT PayloadLength
INVARIANT BucketIsLeaky
INVARIANT DelayedInOrder
INVARIANT StatRequestServed
CHECK_DEADLOCK FALSE
