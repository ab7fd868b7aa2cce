SPECIFICATION FairSpec
CONSTANTS
  Jobs = {1}
  HarnessJobs = {1}
  Pods = {p1, p2}
  None = None
  MaxJobAttempts = 2
  Checkpoints = 1
  StoppableJobs = {}
  AgingJobs = {1}
  SlowJobs = {1}
  FaultKinds = {"crash", "submit", "db", "lock"}
  MaxFaults = 1
INVARIANTS AttemptHeldOnce OneTaskPerPod ExecutionsBounded
PROPERTIES EveryJobSettles ImplementsLifecycle
