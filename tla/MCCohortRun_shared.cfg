\* The shared backend: PostgreSQL advisory lock, strict observation rows.
CONSTANTS
  Members   = {m1, m2}
  Snapshots = {s1, s2}
  Runners   = {r1, r2}
  NoSnapshot = NoSnapshot
  Nobody     = Nobody
  Orphan     = Orphan
  NoMember   = NoMember
  AdvisoryLock       = TRUE
  SlowRunners        = FALSE
  StrictObservations = TRUE
  Errors = TRUE
  MaxFaults = 2
SPECIFICATION Spec
SYMMETRY Symmetry
INVARIANTS
  SnapshotIntegrity
  AdviceIsSound
  EvidenceAgrees
  FinalizedIsSettled
PROPERTIES
  KeepsPromise
