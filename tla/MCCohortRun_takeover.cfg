\* The SQLite backend, with runs that outlast their lease, die and are taken over.
CONSTANTS
  Members   = {m1, m2}
  Snapshots = {s1, s2}
  Runners   = {r1, r2}
  NoSnapshot = NoSnapshot
  Nobody     = Nobody
  Orphan     = Orphan
  NoMember   = NoMember
  AdvisoryLock       = FALSE
  SlowRunners        = TRUE
  StrictObservations = FALSE
  Errors = FALSE
  MaxFaults = 1
SPECIFICATION Spec
SYMMETRY Symmetry
INVARIANTS
  AtMostOnce
