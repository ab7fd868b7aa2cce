SPECIFICATION Spec
CONSTANTS
  Jobs = {1}
  HarnessJobs = {}
  Pods = {p1, p2}
  None = None
  MaxJobAttempts = 2
  Checkpoints = 1
  StoppableJobs = {}
  AgingJobs = {}
  SlowJobs = {1}
  FaultKinds = {}
  MaxFaults = 0
PROPERTY StaleAttemptWritesNoFinalState
