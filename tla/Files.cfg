SPECIFICATION FilesSpec
CONSTANTS
  Procs = {p1, p2, p3}
  None = none
  Orphan = orphan
  MFiles = {f1, f2}
  MProcs = {m1, m2}
  MConfigs <- SomeConfigs
  NOFILE = NOFILE
  FFiles = {g1, g2}
  Length <- SomeLengths
  MaxOut = 1
  MaxKids = 2
  Deletes = {"fail"}
  RetrySettings <- SomeRetries
  MaxUptime = 4
INVARIANT LockFileOwned
INVARIANT SourceOwned
INVARIANT ProcessedWhole
INVARIANT BackoffTruncated
PROPERTY OrphanRemoved
CHECK_DEADLOCK FALSE
