\* on_started_leading is prompt, and run() raises only while it campaigns.
SPECIFICATION Spec
CONSTANTS
  v1 = v1  s1 = s1  a1 = a1
  Vmss <- OneVmss
  Sku <- OneSku
  Filesystem <- None
  Tier <- None
  Target <- None
  Ost <- None
  ValueGauge <- None
  LustreEnabled = FALSE
  MaxErrors = 0
  RetryPeriod = 40
  Starter <- OneStarter
  RaisesWhileRenewing = FALSE
  PromptStarters = TRUE
INVARIANTS BeaconTruthful NoSecondPublisher ShowsOnlyWhileLeading GateFollowsLock
