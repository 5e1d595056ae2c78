\* run() may raise while it renews the lock.
SPECIFICATION Spec
CONSTANTS
  v1 = v1  s1 = s1  a1 = a1
  Vmss <- OneVmss
  Sku <- OneSku
  Filesystem <- None
  Tier <- None
  Target <- None
  Ost <- None
  ValueGauge <- None
  LustreEnabled = FALSE
  MaxErrors = 0
  RetryPeriod = 40
  Starter <- OneStarter
  RaisesWhileRenewing = TRUE
  PromptStarters = TRUE
INVARIANT BeaconTruthful
