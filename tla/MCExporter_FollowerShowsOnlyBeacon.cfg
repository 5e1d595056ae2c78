\* One poller, one caller.
SPECIFICATION Spec
CONSTANTS
  v1 = v1  s1 = s1  s2 = s2  f1 = f1  f2 = f2  t1 = t1
  ost0 = ost0  available = available  used = used  c1 = c1
  Vmss <- OneVmss
  Sku <- OneSku
  Filesystem <- None
  Tier <- None
  Target <- None
  Ost <- None
  ValueGauge <- None
  Caller <- OneCaller
  LeaderElectionEnabled = TRUE
  LustreEnabled = FALSE
  MaxErrors = 1
INVARIANT FollowerShowsOnlyBeacon
