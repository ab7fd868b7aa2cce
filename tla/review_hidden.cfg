SPECIFICATION ReviewSpec
CONSTANTS
  Domains = {d1}
  ProtectedDomains = {}
  Status = {"pending", "failed"}
  Clients = {c1, c2}
  MaxJobs = 3
SYMMETRY ReviewSymmetry
INVARIANT ArchivedAsOfLatestJob
