SPECIFICATION Spec
CONSTANTS
  Jobs = {1}
  HarnessJobs = {}
  Pods = {p1, p2}
  None = None
  MaxJobAttempts = 2
  Checkpoints = 1
  StoppableJobs = {1}
  AgingJobs = {1}
  SlowJobs = {1}
  FaultKinds = {}
  MaxFaults = 0
INVARIANTS TypeOK CompletedByNewestAttempt RunningHasOwner LeaseNamesOwner AttemptsBounded OneMaintainer LeaderView
PROPERTIES StoppedNotCompleted ImplementsLifecycle
