--------------------------- MODULE RecoveryAdvice ---------------------------
(***************************************************************************)
(* "storage recover" (storage/recovery.py): what an operator is told about *)
(* one session, from the run row, the member rows, the lease row and the   *)
(* clock alone, at any moment of what the orchestrator does.  It reads and *)
(* never writes, so it adds no step to CohortRun.                          *)
(*                                                                         *)
(* The two waits of an awaiting-data run differ in their wording only and  *)
(* are one state here.                                                     *)
(***************************************************************************)
EXTENDS CohortRun

RecoveryState == {"active", "awaiting", "stale-lease", "interrupted", "partial", "failed",
                  "late", "missed", "completed", "skipped-closed-session", "not-due"}

\* What the lease row may say.  On PostgreSQL a live run may outlast its row, and
\* the row of a dead runner stays unreleased although the advisory lock is gone.
LeaseFacts ==
  IF ~AdvisoryLock /\ lease.holder # Nobody THEN {IF lease.fresh THEN "live" ELSE "stale"}
  ELSE (IF AdvisoryLock THEN {"live", "stale"} ELSE {})
         \union (IF lease.holder = Nobody THEN {"released"} ELSE {})

\* evaluate_session, which is not told of completed runs here.
ScheduleVerdict ==
  CASE phase = "closed" -> "skipped-closed-session"
    [] phase = "early"  -> "not-due"
    [] phase = "due"    -> "late"
    [] phase = "over"   -> "missed"

MidFlight == MembersIn("running") \union MembersIn("interrupted")

ClassifyUnstarted(row) == IF row = "stale" THEN "stale-lease" ELSE ScheduleVerdict

ClassifyOpen(row) ==
  IF runStatus = "running" /\ row = "live" THEN "active"
  ELSE IF runStatus = "running" \/ MidFlight # {} THEN "interrupted"
  ELSE IF runStatus = "awaiting-data" THEN "awaiting"
  ELSE IF ScheduleVerdict \in {"not-due", "missed"} THEN ScheduleVerdict
  ELSE "late"

\* A stale lease hides every verdict but the two that leave nothing to do.
Classify(row) ==
  IF runStatus = "absent" THEN ClassifyUnstarted(row)
  ELSE IF runStatus \in {"completed", "skipped-closed-session"} THEN runStatus
  ELSE IF row = "stale" THEN "stale-lease"
  ELSE IF runStatus \in TerminalRun THEN runStatus
  ELSE ClassifyOpen(row)

Forbidden == {"completed", "partial", "failed", "missed", "skipped-closed-session"}

\* Mutation of ResumeSafety: the member rows are not looked at.
ResumeSafetyByState(state) ==
  IF state \in Forbidden THEN "forbidden"
  ELSE IF state \in {"active", "stale-lease"} THEN "ambiguous"
  ELSE "safe"

ResumeSafety(state) ==
  IF state \in Forbidden THEN "forbidden"
  ELSE IF state \in {"active", "stale-lease"} \/ MidFlight # {} THEN "ambiguous"
  ELSE "safe"

Advice == { ResumeSafety(Classify(row)) : row \in LeaseFacts }

\* The two findings of "storage health" (storage/health.py) about sessions:
\* no unreleased lease has expired, and the latest run is not incomplete.
NothingToReport(row) ==
  row # "stale" /\ runStatus \notin {"partial", "failed", "missed", "running", "pending"}

-----------------------------------------------------------------------------
(* What must hold *)

\* "Safe" means that nobody is between the claim and the settling of a member
\* and that every account that has traded is answered for by a completed or
\* failed row, so that a new run replays nothing (ResumeSafety); "forbidden", that
\* a run started now would execute nothing; and a wait, that no account has traded
\* ("nothing executed, so the retry is still all-or-nothing", _ACTIONS).  A session
\* "storage health" has nothing to say about is none that calls for an operator.
AdviceIsSound ==
  /\ "safe" \in Advice =>
       /\ \A r \in Runners : pc[r] \notin Executing
       /\ \A m \in Members : book[m] # << >> => member[m] \in {"completed", "failed"}
  /\ "forbidden" \in Advice =>
       Concluded \/ Decision \in {"skipped-closed-session", "missed"}
  /\ (\E row \in LeaseFacts : Classify(row) = "awaiting") =>
       \A m \in Members : book[m] = << >>
  /\ \A row \in LeaseFacts : NothingToReport(row) =>
       Classify(row) \notin {"interrupted", "partial", "failed", "stale-lease"}

=============================================================================
