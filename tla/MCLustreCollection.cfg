\* Three filesystems on up to two pages and two workers for them, two metrics, a
\* target and a series of no target, two moments, one retry.
SPECIFICATION LiveSpec
CONSTANTS
  fs1 = fs1  fs2 = fs2  fs3 = fs3
  bytesAvailable = bytesAvailable  bytesUsed = bytesUsed
  ost0 = ost0  nobody = nobody
  Filesystem <- ThreeFilesystems
  Metric <- TwoMetrics
  Available <- bytesAvailable
  Target <- OneTarget
  Unnamed <- nobody
  Lookback = 2
  MaxPages = 2
  MaxRetries = 1
  MaxWorkers = 2
INVARIANTS TypeOK EveryPageOnce NoFilesystemOverlooked ResultsAccounted
PROPERTIES CollectionSpec EveryStepAdvances CollectionEnds
