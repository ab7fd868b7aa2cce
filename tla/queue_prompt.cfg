SPECIFICATION Spec
CONSTANTS
  Jobs = {1, 2}
  HarnessJobs = {2}
  Pods = {p1, p2}
  None = None
  MaxJobAttempts = 2
  Checkpoints = 1
  StoppableJobs = {1}
  AgingJobs = {1, 2}
  SlowJobs = {}
  FaultKinds = {"crash", "submit"}
  MaxFaults = 2
SYMMETRY PodSymmetry
INVARIANTS NoConcurrentRuns FullMeansBusy
