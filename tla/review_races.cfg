SPECIFICATION ReviewSpec
CONSTANTS
  Domains = {d1, d2, d3, d4}
  ProtectedDomains = {d4}
  Status = {"pending", "failed"}
  Clients = {c1, c2}
  MaxJobs = 3
SYMMETRY ReviewSymmetry
INVARIANTS ReviewTypeOK ConfirmedDeletionHides ListingHidesDeleted PagesShowList
