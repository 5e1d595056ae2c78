\* Two threads, every environment, a credential breaks or recovers three times.
SPECIFICATION LiveSpec
CONSTANTS
  graphPoller = graphPoller  monitorWorker = monitorWorker
  Thread <- TwoThreads
  MaxChanges = 3
INVARIANTS TypeOK ErrorOnlyIfNoneWorked OverrideHonoured EarlierPreferred
PROPERTY CacheSettles
