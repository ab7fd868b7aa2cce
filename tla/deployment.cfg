SPECIFICATION HarnessSpec
CONSTANTS
  Pods = {p1, p2}
  Deployments = {1}
  None = None
  Tokens <- MCTokens
  Decoded <- MCDecoded
  Links <- MCLinks
  Buckets <- MCBuckets
  DefaultBucket = "bucket"
  Local = "local"
  NoLocation = NoLocation
  Baselines = {b1}
  HarnessDomain <- MCDomain
  RunName <- MCRunName
  PathSettings <- MCPathSettings
  OtherObjects <- MCOtherObjects
  MaxAttempts = 2
  MaxOverwrites = 2
SYMMETRY PodSymmetry
INVARIANTS HarnessTypeOK ManagersBounded RecordedRunIsOnPage PageOffersOwnFiles CompletedRunPassed SummaryMatchesReport
PROPERTIES LateStartChangesNoJob KeepsLifecycle
