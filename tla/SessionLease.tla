---------------------------- MODULE SessionLease ----------------------------
(***************************************************************************)
(* Ownership of one official (cohort, session): the lease row that         *)
(* official_session writes, and the PostgreSQL advisory lock that the      *)
(* shared backend holds beside it for the whole run.                       *)
(*                                                                         *)
(* Time is abstracted to whether the six hours of the row have passed.     *)
(***************************************************************************)
CONSTANTS
  Runners,       \* processes that may run "sleeve run --official"
  Nobody,        \* no unreleased lease row
  Orphan,        \* an unreleased row whose process has died
  AdvisoryLock,  \* TRUE: PostgreSQL; FALSE: a SQLite file
  SlowRunners    \* TRUE: a live run may outlast its lease (a sleeping machine)

ASSUME LeaseAssumption ==
  /\ Nobody # Orphan
  /\ Nobody \notin Runners
  /\ Orphan \notin Runners
  /\ AdvisoryLock \in BOOLEAN
  /\ SlowRunners  \in BOOLEAN

VARIABLE lease  \* [holder |-> who, fresh |-> expires_at is in the future]

LeaseTypeOK ==
  lease \in [holder : Runners \union {Nobody, Orphan}, fresh : BOOLEAN]

FreeLease == [holder |-> Nobody, fresh |-> TRUE]

LeaseInit == lease = FreeLease

\* Mutation of LeaseAvailable: an expired row is never taken over.
LeaseReleasedOnly == lease.holder = Nobody

\* PostgreSQL decides by the advisory lock alone and overwrites the row; SQLite
\* takes a row that is released or past expires_at.
LeaseAvailable ==
  \/ lease.holder = Nobody
  \/ ~AdvisoryLock /\ ~lease.fresh

AcquireLease(r) ==
  /\ LeaseAvailable
  /\ lease' = [holder |-> r, fresh |-> TRUE]

\* The UPDATE matches the acquirer's own token hash: a lease that was taken
\* over meanwhile is left to its new holder.
ReleaseLease(r) ==
  lease' = IF lease.holder = r THEN FreeLease ELSE lease

\* A dead process: PostgreSQL drops its session's advisory lock, SQLite keeps
\* the unreleased row.
AbandonLease(r) ==
  lease' = IF lease.holder # r THEN lease
           ELSE IF AdvisoryLock THEN FreeLease
           ELSE [lease EXCEPT !.holder = Orphan]

\* Six hours pass.
ExpireLease ==
  /\ ~AdvisoryLock
  /\ lease.fresh
  /\ lease.holder # Nobody
  /\ lease.holder = Orphan \/ SlowRunners
  /\ lease' = [lease EXCEPT !.fresh = FALSE]

=============================================================================
