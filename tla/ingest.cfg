SPECIFICATION IngestionFairSpec
CONSTANTS
  Jobs = {1}
  HarnessJobs = {}
  IngestionJobs = {1}
  Pods = {p1, p2}
  None = None
  Claimed = Claimed
  MaxJobAttempts = 1
  Checkpoints = 1
  StoppableJobs = {1}
  AgingJobs = {}
  SlowJobs = {1}
  FaultKinds = {"crash", "db"}
  MaxFaults = 1
INVARIANTS IngestionTypeOK ExecutorQueue AttemptHeldOnce AttemptsBounded
PROPERTY EveryJobSettles
