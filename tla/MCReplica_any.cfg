\* run() may raise at any time, and on_started_leading may come late.
SPECIFICATION LiveSpec
CONSTANTS
  v1 = v1  s1 = s1  a1 = a1
  Vmss <- OneVmss
  Sku <- OneSku
  Filesystem <- None
  Tier <- None
  Target <- None
  Ost <- None
  ValueGauge <- None
  LustreEnabled = FALSE
  MaxErrors = 0
  RetryPeriod = 40
  Starter <- OneStarter
  RaisesWhileRenewing = TRUE
  PromptStarters = FALSE
INVARIANTS BackoffBounded FollowerExposesNothing
PROPERTIES GateSpec LeaderCollects KeepsCampaigning
