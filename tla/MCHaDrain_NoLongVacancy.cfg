\* Two replicas, calls that take no time, and the shortest lease.  The property
\* quotes deploy/kubernetes.yaml and is violated.
SPECIFICATION DrainSpec
CONSTANTS
  r1 = r1  r2 = r2  Nobody = Nobody
  Replica <- TwoReplicas
  LeaseDuration = 5
  RenewDeadline = 2
  RetryPeriod = 1
  MaxBackoff = 2
  CallTime = 0
  CallbackTime = 0
INVARIANT NoLongVacancy
