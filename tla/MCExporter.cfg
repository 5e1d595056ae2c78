\* Both pollers, one caller; a scale set that comes, goes and is resized, and no
\* filesystems.  Nothing obliges Azure to answer.
SPECIFICATION LiveSpec
CONSTANTS
  v1 = v1  s1 = s1  s2 = s2  f1 = f1  f2 = f2  t1 = t1
  ost0 = ost0  available = available  used = used  c1 = c1
  Vmss <- OneVmss
  Sku <- TwoSkus
  Filesystem <- None
  Tier <- None
  Target <- None
  Ost <- None
  ValueGauge <- None
  Caller <- OneCaller
  LeaderElectionEnabled = TRUE
  LustreEnabled = TRUE
  MaxErrors = 0
INVARIANTS TypeOK SeriesTracked UniqueInfo TotalsMatchSeries
PROPERTIES LeaderKeepsCollecting FollowerComesToRest TotalsSettle
  FollowerWindsDown StopWindsDown ShutdownCompletes
