\* Two replicas, and a lease that is shorter than the grace by two.
SPECIFICATION LiveSpec
CONSTANTS
  r1 = r1  r2 = r2  Nobody = Nobody
  Replica <- TwoReplicas
  LeaseDuration = 5
  RenewDeadline = 2
  RetryPeriod = 1
  MaxBackoff = 2
  CallTime = 1
  CallbackTime = 1
INVARIANTS TypeOK OnePublisher
PROPERTIES TakenOnlyWhenFree SomebodyPublishes
