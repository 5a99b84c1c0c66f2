\* The SQLite backend, with crashes that leave the lease behind until it expires.
CONSTANTS
  Members   = {m1, m2}
  Snapshots = {s1}
  Runners   = {r1, r2}
  NoSnapshot = NoSnapshot
  Nobody     = Nobody
  Orphan     = Orphan
  NoMember   = NoMember
  AdvisoryLock       = FALSE
  SlowRunners        = FALSE
  StrictObservations = FALSE
  Errors = TRUE
  MaxFaults = 1
SPECIFICATION FairSpec
PROPERTIES
  SessionConcludes
