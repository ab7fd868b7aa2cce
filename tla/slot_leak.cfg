SPECIFICATION Spec
CONSTANTS
  Jobs = {1}
  HarnessJobs = {}
  Pods = {p1}
  None = None
  MaxJobAttempts = 2
  Checkpoints = 1
  StoppableJobs = {}
  AgingJobs = {}
  SlowJobs = {1}
  FaultKinds = {"db"}
  MaxFaults = 1
INVARIANT FullMeansBusy
