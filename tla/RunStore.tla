------------------------------ MODULE RunStore ------------------------------
(***************************************************************************)
(* The durable record of one official cohort session: the row of           *)
(* sleeve_runs and the rows of sleeve_run_members, as SleeveRunStore       *)
(* (sleeve_runs.py) and SqlAlchemySleeveRunStore (storage/runs.py) keep    *)
(* them.  Every operation below is one BEGIN IMMEDIATE / FOR UPDATE        *)
(* transaction of the store, so each is one step of whoever calls it.      *)
(*                                                                         *)
(* The error trail of the row has no influence on control and is left out; *)
(* timestamps are left out.                                                *)
(***************************************************************************)
EXTENDS FiniteSets

CONSTANTS
  Members,    \* the sleeves the run expects (expected_members)
  Snapshots,  \* content-derived identities a captured snapshot can have
  NoSnapshot  \* the NULL of the snapshot_id column

ASSUME MembersAssumption  == Members # {}
ASSUME SnapshotAssumption == NoSnapshot \notin Snapshots

VARIABLES
  runStatus,  \* sleeve_runs.status, or "absent" before the row exists
  snapshot,   \* sleeve_runs.snapshot_id
  completed,  \* sleeve_runs.completed_members
  member      \* sleeve_run_members.status, per member

storeVars == << runStatus, snapshot, completed, member >>

SettledMember == {"completed", "data-not-ready", "failed", "interrupted", "skipped"}
MemberStatus  == {"pending", "running"} \union SettledMember

TerminalRun == {"completed", "partial", "failed", "missed", "skipped-closed-session"}
RunStatus   == {"absent", "pending", "running", "awaiting-data"} \union TerminalRun

StoreTypeOK ==
  /\ runStatus \in RunStatus
  /\ snapshot  \in Snapshots \union {NoSnapshot}
  /\ completed \in SUBSET Members
  /\ member    \in [Members -> MemberStatus]

StoreInit ==
  /\ runStatus = "absent"
  /\ snapshot  = NoSnapshot
  /\ completed = {}
  /\ member    = [m \in Members |-> "pending"]

MembersIn(status) == { m \in Members : member[m] = status }

-----------------------------------------------------------------------------
(* Operations *)

\* Create the run once, with every member pending; a later call finds the row.
EnsureRun ==
  /\ runStatus' = IF runStatus = "absent" THEN "pending" ELSE runStatus
  /\ UNCHANGED << snapshot, completed, member >>

\* The status ensure_run returns to its caller.
EnsuredStatus == IF runStatus = "absent" THEN "pending" ELSE runStatus

\* An unconditional overwrite: set_status looks only at the error trail.
SetStatus(status) ==
  /\ runStatus' = status
  /\ UNCHANGED << snapshot, completed, member >>

\* A bound identity may only be rewritten with itself, unless the caller
\* vouches that no member has started.
SnapshotAccepted(s, allowReplace) ==
  snapshot = NoSnapshot \/ allowReplace \/ snapshot = s

SetSnapshot(s, allowReplace) ==
  /\ SnapshotAccepted(s, allowReplace)
  /\ snapshot' = s
  /\ UNCHANGED << runStatus, completed, member >>

\* Mutation of StartMember: the UPDATE without its "AND status = 'pending'".
StartMemberUnconditionally(m) ==
  /\ member' = [member EXCEPT ![m] = "running"]
  /\ UNCHANGED << runStatus, snapshot, completed >>

\* The conditional UPDATE that lets exactly one caller take a pending member.
StartMember(m) ==
  /\ member[m] = "pending"
  /\ member' = [member EXCEPT ![m] = "running"]
  /\ UNCHANGED << runStatus, snapshot, completed >>

\* The only transition finish_member refuses is a downgrade of "completed".
FinishAccepted(m, status) == member[m] = "completed" => status = "completed"

FinishMember(m, status) ==
  /\ FinishAccepted(m, status)
  /\ member' = [member EXCEPT ![m] = status]
  /\ completed' = IF status = "completed"
                  THEN { n \in Members : n = m \/ member[n] = "completed" }
                  ELSE completed
  /\ UNCHANGED << runStatus, snapshot >>

\* Mutation of FinalOutcome: any completed member makes the run partial.
FinalOutcomePartialFirst ==
  IF completed # {} THEN "partial"
  ELSE IF \E m \in Members : member[m] \in {"pending", "running"} THEN "running"
  ELSE "failed"

\* What finalize derives from the member rows it has read.
FinalOutcome ==
  IF \A m \in Members : member[m] = "completed" THEN "completed"
  ELSE IF completed # {} THEN "partial"
  ELSE IF \E m \in Members : member[m] \in {"pending", "running"} THEN "running"
  ELSE "failed"

=============================================================================
