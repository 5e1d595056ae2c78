\* One filesystem, two metrics that may stop at different moments.
SPECIFICATION Spec
CONSTANTS
  fs1 = fs1  fs2 = fs2  fs3 = fs3
  bytesAvailable = bytesAvailable  bytesUsed = bytesUsed
  ost0 = ost0  nobody = nobody
  Filesystem <- OneFilesystem
  Metric <- TwoMetrics
  Available <- bytesAvailable
  Target <- OneTarget
  Unnamed <- nobody
  Lookback = 2
  MaxPages = 1
  MaxRetries = 1
  MaxWorkers = 1
INVARIANT StampIsOfAvailable
