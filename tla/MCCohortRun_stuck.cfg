\* The shared backend, every invocation made again and again, one fault.
CONSTANTS
  Members   = {m1, m2}
  Snapshots = {s1}
  Runners   = {r1, r2}
  NoSnapshot = NoSnapshot
  Nobody     = Nobody
  Orphan     = Orphan
  NoMember   = NoMember
  AdvisoryLock       = TRUE
  SlowRunners        = FALSE
  StrictObservations = TRUE
  Errors = TRUE
  MaxFaults = 1
SPECIFICATION FairSpec
PROPERTIES
  SessionConcludes
