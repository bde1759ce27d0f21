SPECIFICATION FairHealthSpec
CONSTANTS
  Replica <- MCReplica
  SkipMigrations <- MCLast
  Injected <- MCLast
  Tracing = TRUE
  HeadRevision = 2
  MaxOutages = 1
  MaxStops = 1
  Threshold = 1
  MaxLatency = 1
  WorkerBatchSize = 1
  Probed <- MCProbed
  MaxNow = 3
  MaxEvents = 2
CHECK_DEADLOCK FALSE
INVARIANTS
  HealthTypeOK
  ServingMeansReady
  StopReleasesItsOwn
  OkMeansNoBacklog
PROPERTIES
  ReplicasSettle
