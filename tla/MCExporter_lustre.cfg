\* Lustre on, no scale sets, one caller at a time.
SPECIFICATION Spec
CONSTANTS
  v1 = v1  s1 = s1  s2 = s2  f1 = f1  f2 = f2  t1 = t1
  ost0 = ost0  available = available  used = used  c1 = c1
  Vmss <- None
  Sku <- None
  Filesystem <- TwoFilesystems
  Tier <- OneTier
  Target <- OneTarget
  Ost <- OneOst
  ValueGauge <- TwoGauges
  Caller <- OneCaller
  LeaderElectionEnabled = TRUE
  LustreEnabled = TRUE
  MaxErrors = 1
INVARIANTS SeriesTracked SilentFollower
PROPERTIES CleanCollectionReplaces PartialFailureKeepsSeries
SYMMETRY LustreSymmetry
