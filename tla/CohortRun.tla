------------------------------ MODULE CohortRun ------------------------------
(***************************************************************************)
(* One official cohort session, run by SleeveRunOrchestrator               *)
(* (sleeve_runs.py): processes started by a scheduler decide what the      *)
(* session needs, take its lease, and drive the durable run and member     *)
(* rows while paper books and official observations live in stores of      *)
(* their own.  A step is one transaction of one store (or one read of the  *)
(* provider), so any other process may act between two of them, and a      *)
(* process may die between any two.                                        *)
(*                                                                         *)
(* A process is at a label pc[r]; cur[r] is the member it is working on;   *)
(* task[r] holds the other locals of _run_owned.                           *)
(***************************************************************************)
EXTENDS RunStore, SessionLease, Naturals, Sequences

CONSTANTS
  NoMember,            \* cur[r] when r is at no member
  StrictObservations,  \* TRUE: storage/evaluation.py refuses a conflicting row;
                       \* FALSE: evaluation.py ignores it (INSERT OR IGNORE)
  Errors,              \* TRUE: calls of stores and provider may raise anywhere
  MaxFaults            \* bound: crashes and errors in a behaviour

ASSUME RunAssumption ==
  /\ NoMember \notin Members
  /\ StrictObservations \in BOOLEAN
  /\ Errors \in BOOLEAN
  /\ MaxFaults \in Nat

VARIABLES
  pc, cur, task,
  book,         \* per member: snapshots its paper account has traded on
  cycles,       \* members with an agent_cycles row for the session
  observation,  \* per member: the official_daily_observations row
  phase,        \* where the clock stands against the session
  faults        \* faults injected so far

localVars  == << pc, cur, task >>
outsideVars == << phase, faults >>
vars == << runStatus, snapshot, completed, member, lease, pc, cur, task, book,
           cycles, observation, phase, faults >>

-----------------------------------------------------------------------------
(* Values *)

\* "over" is past execution_deadline_et; "closed" is a weekend or holiday.
Phase == {"closed", "early", "due", "over"}

\* scheduling.RunStatus; DUE and LATE are one verdict to the orchestrator.
Verdicts == {"skipped-closed-session", "already-completed", "pending", "due", "missed"}

\* A MISSING row carries the reason it was written for, and the strict store
\* compares it.
MissingRow == {"missing-methodology", "missing-configuration", "missing-deadline"}
Observation == {"none", "official", "partial"} \union MissingRow

\* The loops that settle every pending member without executing it.
Closing == {"skip", "expire", "methodology", "misconfigured", "failed", "unready"}

ClosingRow(c) == CASE c = "expire"        -> "missing-deadline"
                   [] c = "methodology"   -> "missing-methodology"
                   [] c = "misconfigured" -> "missing-configuration"
                   [] OTHER               -> "none"

ClosingStatus(c) == CASE c = "skip"   -> "skipped"
                      [] c = "failed" -> "failed"
                      [] OTHER        -> "data-not-ready"

Executing == {"trade", "recordCycle", "recordOfficial", "complete",
              "recordPartial", "finishFailed"}
Owning    == {"owned", "mark", "recover", "capture", "bind", "loop", "close",
              "closeFinish", "finalRead", "write", "release"} \union Executing
Label     == {"idle", "decided"} \union Owning

Task == [decision : Verdicts, todo : SUBSET Members, closing : Closing,
         verdict : RunStatus, executed : BOOLEAN,
         seen : Snapshots \union {NoSnapshot},
         captured : Snapshots \union {NoSnapshot}]

NoTask == [decision |-> "pending", todo |-> {}, closing |-> "skip",
           verdict |-> "absent", executed |-> FALSE,
           seen |-> NoSnapshot, captured |-> NoSnapshot]

TypeOK ==
  /\ StoreTypeOK
  /\ LeaseTypeOK
  /\ pc   \in [Runners -> Label]
  /\ cur  \in [Runners -> Members \union {NoMember}]
  /\ task \in [Runners -> Task]
  /\ book \in [Members -> Seq(Snapshots)]
  /\ cycles \in SUBSET Members
  /\ observation \in [Members -> Observation]
  /\ phase \in Phase
  /\ faults \in 0..MaxFaults

Init ==
  /\ StoreInit
  /\ LeaseInit
  /\ pc   = [r \in Runners |-> "idle"]
  /\ cur  = [r \in Runners |-> NoMember]
  /\ task = [r \in Runners |-> NoTask]
  /\ book = [m \in Members |-> << >>]
  /\ cycles = {}
  /\ observation = [m \in Members |-> "none"]
  /\ phase \in {"closed", "early"}
  /\ faults = 0

-----------------------------------------------------------------------------
(* Local steps *)

\* r moves to a label, at no member, with its task changed to t.
Goto(r, label, t) ==
  /\ pc'   = [pc   EXCEPT ![r] = label]
  /\ cur'  = [cur  EXCEPT ![r] = NoMember]
  /\ task' = [task EXCEPT ![r] = t]

\* r moves to a label that works on member m.
GotoMember(r, label, m) ==
  /\ pc'  = [pc  EXCEPT ![r] = label]
  /\ cur' = [cur EXCEPT ![r] = m]
  /\ UNCHANGED task

\* r is done with member m of its loop.
Dropped(r, m) == [task[r] EXCEPT !.todo = @ \ {m}]

BeginClosing(r, c, verdict) ==
  Goto(r, "close", [NoTask EXCEPT !.closing = c, !.verdict = verdict,
                                  !.todo = MembersIn("pending")])

\* r will write status on the run row and leave.
GotoWrite(r, status) == Goto(r, "write", [NoTask EXCEPT !.verdict = status])

\* An exception leaves run() through the lease's finally block.
Unwind(r) == Goto(r, "release", NoTask)

\* record_official_observation: the first row of (cohort, sleeve, session) stays.
Record(m, row) ==
  observation' = IF observation[m] = "none"
                 THEN [observation EXCEPT ![m] = row]
                 ELSE observation

RecordAccepted(m, row) ==
  StrictObservations => observation[m] \in {"none", row}

-----------------------------------------------------------------------------
(* The session's environment *)

Tick ==
  /\ \/ phase = "early" /\ phase' = "due"
     \/ phase = "due"   /\ phase' = "over"
  /\ UNCHANGED << storeVars, lease, localVars, book, cycles, observation, faults >>

LeaseRunsOut ==
  /\ ExpireLease
  /\ UNCHANGED << storeVars, localVars, book, cycles, observation, outsideVars >>

Fault == faults < MaxFaults /\ faults' = faults + 1

\* The process dies; whatever transaction it had open is rolled back.
Crash(r) ==
  /\ pc[r] # "idle"
  /\ Fault
  /\ AbandonLease(r)
  /\ Goto(r, "idle", NoTask)
  /\ UNCHANGED << storeVars, book, cycles, observation, phase >>

\* A store or provider call outside the try blocks raises.
Abort(r) ==
  /\ pc[r] \in Owning \ {"release", "bind", "trade", "recordCycle", "recordOfficial", "complete"}
  /\ Errors /\ Fault
  /\ Unwind(r)
  /\ UNCHANGED << storeVars, lease, book, cycles, observation, phase >>

-----------------------------------------------------------------------------
(* Deciding and owning: cli._run_official_sleeve_cohorts, scheduling, run() *)

\* evaluate_session on the clock and on the completed run keys read just before.
Decision ==
  IF phase = "closed" THEN "skipped-closed-session"
  ELSE IF runStatus = "completed" THEN "already-completed"
  ELSE CASE phase = "early" -> "pending"
         [] phase = "due"   -> "due"
         [] phase = "over"  -> "missed"

Decide(r) ==
  /\ pc[r] = "idle"
  /\ Goto(r, "decided", [NoTask EXCEPT !.decision = Decision])
  /\ UNCHANGED << storeVars, lease, book, cycles, observation, outsideVars >>

Enter(r) ==
  /\ pc[r] = "decided"
  /\ AcquireLease(r)
  /\ Goto(r, "owned", task[r])
  /\ UNCHANGED << storeVars, book, cycles, observation, outsideVars >>

\* Another runner owns the session: report its run, or the conflict, and leave.
Refused(r) ==
  /\ pc[r] = "decided"
  /\ ~LeaseAvailable
  /\ Goto(r, "idle", NoTask)
  /\ UNCHANGED << storeVars, lease, book, cycles, observation, outsideVars >>

Release(r) ==
  /\ pc[r] = "release"
  /\ ReleaseLease(r)
  /\ Goto(r, "idle", NoTask)
  /\ UNCHANGED << storeVars, book, cycles, observation, outsideVars >>

-----------------------------------------------------------------------------
(* _run_owned up to the snapshot *)

\* What the decision asks of the run row ensure_run has returned.  An operator may
\* create or remove the KILL_SWITCH file at any time, so what a due session finds
\* when it looks is either.
Asks(r) ==
  LET d == task[r].decision IN
  IF EnsuredStatus \in TerminalRun \/ d = "already-completed" THEN {"nothing"}
  ELSE CASE d = "pending"                -> {"postpone"}
         [] d = "skipped-closed-session" -> {"skip-closed"}
         [] d = "missed"                 -> IF EnsuredStatus = "awaiting-data"
                                            THEN {"expire"} ELSE {"skip-missed"}
         [] d = "due"                    -> {"execute", "skip-missed"}

EnsureStep(r, asked) ==
  /\ pc[r] = "owned"
  /\ asked \in Asks(r)
  /\ EnsureRun
  /\ UNCHANGED << lease, book, cycles, observation, outsideVars >>

LeaveAlone(r) == EnsureStep(r, "nothing") /\ Goto(r, "release", NoTask)

Postpone(r) == EnsureStep(r, "postpone") /\ GotoWrite(r, "pending")

SkipClosedSession(r) ==
  EnsureStep(r, "skip-closed") /\ BeginClosing(r, "skip", "skipped-closed-session")

SkipMissedSession(r) == EnsureStep(r, "skip-missed") /\ BeginClosing(r, "skip", "missed")

ExpireAwaitingData(r) == EnsureStep(r, "expire") /\ BeginClosing(r, "expire", "missed")

\* The members to recover are those of the run ensure_run returned.
BeginExecution(r) ==
  /\ EnsureStep(r, "execute")
  /\ Goto(r, "mark", [NoTask EXCEPT !.todo = MembersIn("running")])

MarkRunning(r) ==
  /\ pc[r] = "mark"
  /\ SetStatus("running")
  /\ Goto(r, "recover", task[r])
  /\ UNCHANGED << lease, book, cycles, observation, outsideVars >>

\* Mutation of RecoverMember: an interrupted member is handed out again.
RecoverByReplay(r) ==
  /\ pc[r] = "recover"
  /\ \E m \in task[r].todo :
       /\ member' = [member EXCEPT ![m] = "pending"]
       /\ Goto(r, "recover", Dropped(r, m))
  /\ UNCHANGED << runStatus, snapshot, completed, lease, book, cycles, observation, outsideVars >>

\* Mutation of RecoverMember: recovery does not look for the observation.
RecoverAsInterrupted(r) ==
  /\ pc[r] = "recover"
  /\ \E m \in task[r].todo :
       /\ FinishMember(m, "interrupted")
       /\ Goto(r, "recover", Dropped(r, m))
  /\ UNCHANGED << lease, book, cycles, observation, outsideVars >>

\* _recover_interrupted: a member left running is complete exactly when its
\* official observation was recorded; it is never replayed.
RecoverMember(r) ==
  /\ pc[r] = "recover"
  /\ \E m \in task[r].todo :
       LET status == IF observation[m] = "official" THEN "completed" ELSE "interrupted" IN
       \/ /\ FinishMember(m, status)
          /\ Goto(r, "recover", Dropped(r, m))
       \/ /\ ~FinishAccepted(m, status)
          /\ Unwind(r)
          /\ UNCHANGED storeVars
  /\ UNCHANGED << lease, book, cycles, observation, outsideVars >>

\* Mutation of Reload: only a completed member counts as executed.
ReloadByCompleted(r) ==
  /\ pc[r] = "recover"
  /\ task[r].todo = {}
  /\ Goto(r, IF MembersIn("pending") = {} THEN "finalRead" ELSE "capture",
          [NoTask EXCEPT !.todo = MembersIn("pending"),
                         !.executed = completed # {},
                         !.seen = snapshot])
  /\ UNCHANGED << storeVars, lease, book, cycles, observation, outsideVars >>

\* Reload the run: the members still pending are the ones to execute, and a run
\* in which any member has left pending must reproduce the snapshot it is bound to.
Reload(r) ==
  /\ pc[r] = "recover"
  /\ task[r].todo = {}
  /\ Goto(r, IF MembersIn("pending") = {} THEN "finalRead" ELSE "capture",
          [NoTask EXCEPT !.todo = MembersIn("pending"),
                         !.executed = MembersIn("pending") # Members,
                         !.seen = snapshot])
  /\ UNCHANGED << storeVars, lease, book, cycles, observation, outsideVars >>

-----------------------------------------------------------------------------
(* _run_owned: plan, snapshot, preflight, binding *)

\* The loop over the pending members captured at Reload.
Close(r, c) == Goto(r, "close", [NoTask EXCEPT !.closing = c, !.todo = task[r].todo])

Capturing(r) ==
  /\ pc[r] = "capture"
  /\ UNCHANGED << storeVars, lease, book, cycles, observation, outsideVars >>

MethodologyInvalid(r) == Capturing(r) /\ Close(r, "methodology")

\* A rejected refresh token parks the session only while nothing is bound to it.
NeedsReauthentication(r) ==
  /\ Capturing(r)
  /\ IF ~task[r].executed /\ task[r].seen = NoSnapshot
     THEN GotoWrite(r, "awaiting-data")
     ELSE Close(r, "failed")

\* Any other provider failure, or a restart that captured other data.
SnapshotUnavailable(r) == Capturing(r) /\ Close(r, "failed")

\* The provider returns a usable snapshot: any, or the required one.
Captures(r, s) ==
  (task[r].executed /\ task[r].seen # NoSnapshot) => s = task[r].seen

PreflightMisconfigured(r) == Capturing(r) /\ Close(r, "misconfigured")

\* Mutation of PreflightNotReady: a partly executed run goes back to waiting.
PreflightAlwaysWaits(r) == Capturing(r) /\ GotoWrite(r, "awaiting-data")

PreflightNotReady(r) ==
  /\ Capturing(r)
  /\ IF task[r].executed
     THEN Close(r, "unready")
     ELSE GotoWrite(r, "awaiting-data")

PreflightReady(r) ==
  /\ Capturing(r)
  /\ \E s \in Snapshots :
       /\ Captures(r, s)
       /\ Goto(r, "bind", [task[r] EXCEPT !.captured = s, !.seen = NoSnapshot])

BindSnapshot(r) ==
  /\ pc[r] = "bind"
  /\ SetSnapshot(task[r].captured, ~task[r].executed)
  /\ Goto(r, "loop", task[r])
  /\ UNCHANGED << lease, book, cycles, observation, outsideVars >>

\* SnapshotMismatchError: another runner has bound other data meanwhile.  An error
\* of the store is caught with it.
BindRefused(r) ==
  /\ pc[r] = "bind"
  /\ \/ ~SnapshotAccepted(task[r].captured, ~task[r].executed) /\ UNCHANGED faults
     \/ Errors /\ Fault
  /\ Close(r, "failed")
  /\ UNCHANGED << storeVars, lease, book, cycles, observation, phase >>

-----------------------------------------------------------------------------
(* Settling members that will not execute *)

\* The MISSING observation comes first, in a store of its own ...
CloseObserve(r) ==
  /\ pc[r] = "close"
  /\ ClosingRow(task[r].closing) # "none"
  /\ \E m \in task[r].todo :
       LET row == ClosingRow(task[r].closing) IN
       IF RecordAccepted(m, row)
       THEN Record(m, row) /\ GotoMember(r, "closeFinish", m)
       ELSE Unwind(r) /\ UNCHANGED observation
  /\ UNCHANGED << storeVars, lease, book, cycles, outsideVars >>

\* ... and the member row second.
CloseSettle(r, m) ==
  IF FinishAccepted(m, ClosingStatus(task[r].closing))
  THEN /\ FinishMember(m, ClosingStatus(task[r].closing))
       /\ Goto(r, "close", Dropped(r, m))
  ELSE Unwind(r) /\ UNCHANGED storeVars

CloseMember(r) ==
  /\ \/ pc[r] = "closeFinish" /\ CloseSettle(r, cur[r])
     \/ /\ pc[r] = "close"
        /\ ClosingRow(task[r].closing) = "none"
        /\ \E m \in task[r].todo : CloseSettle(r, m)
  /\ UNCHANGED << lease, book, cycles, observation, outsideVars >>

\* Skipping and expiring write their verdict; the other loops finalize.
CloseDone(r) ==
  /\ pc[r] = "close"
  /\ task[r].todo = {}
  /\ IF task[r].closing \in {"skip", "expire"}
     THEN GotoWrite(r, task[r].verdict)
     ELSE Goto(r, "finalRead", NoTask)
  /\ UNCHANGED << storeVars, lease, book, cycles, observation, outsideVars >>

-----------------------------------------------------------------------------
(* Executing members: the loop of _run_owned and _execute_member *)

ClaimMember(r) ==
  /\ pc[r] = "loop"
  /\ \E m \in task[r].todo :
       \/ StartMember(m) /\ GotoMember(r, "trade", m)
       \/ /\ member[m] # "pending"
          /\ Goto(r, "loop", Dropped(r, m))
          /\ UNCHANGED storeVars
  /\ UNCHANGED << lease, book, cycles, observation, outsideVars >>

LoopDone(r) ==
  /\ pc[r] = "loop"
  /\ task[r].todo = {}
  /\ Goto(r, "finalRead", NoTask)
  /\ UNCHANGED << storeVars, lease, book, cycles, observation, outsideVars >>

Books(m, s) == book' = [book EXCEPT ![m] = Append(@, s)]

\* AgentRunner.run_cycle applies the member's paper orders ...
Trade(r) ==
  /\ pc[r] = "trade"
  /\ Books(cur[r], task[r].captured)
  /\ GotoMember(r, "recordCycle", cur[r])
  /\ UNCHANGED << storeVars, lease, cycles, observation, outsideVars >>

\* ... or raises, before the first of them or after some.
TradeRaises(r) ==
  /\ pc[r] = "trade"
  /\ Books(cur[r], task[r].captured) \/ UNCHANGED book
  /\ GotoMember(r, "recordPartial", cur[r])
  /\ UNCHANGED << storeVars, lease, cycles, observation, outsideVars >>

RecordCycle(r) ==
  /\ pc[r] = "recordCycle"
  /\ cycles' = cycles \union {cur[r]}
  /\ GotoMember(r, "recordOfficial", cur[r])
  /\ UNCHANGED << storeVars, lease, book, observation, outsideVars >>

RecordOfficial(r) ==
  /\ pc[r] = "recordOfficial"
  /\ IF RecordAccepted(cur[r], "official")
     THEN Record(cur[r], "official") /\ GotoMember(r, "complete", cur[r])
     ELSE UNCHANGED observation /\ GotoMember(r, "recordPartial", cur[r])
  /\ UNCHANGED << storeVars, lease, book, cycles, outsideVars >>

CompleteMember(r) ==
  /\ pc[r] = "complete"
  /\ FinishMember(cur[r], "completed")
  /\ Goto(r, "loop", Dropped(r, cur[r]))
  /\ UNCHANGED << lease, book, cycles, observation, outsideVars >>

\* Any of the three store calls of the try block raises.
RecordRaises(r) ==
  /\ pc[r] \in {"recordCycle", "recordOfficial", "complete"}
  /\ Errors /\ Fault
  /\ GotoMember(r, "recordPartial", cur[r])
  /\ UNCHANGED << storeVars, lease, book, cycles, observation, phase >>

\* The except block: a PARTIAL observation, then the failed member.
RecordPartial(r) ==
  /\ pc[r] = "recordPartial"
  /\ IF RecordAccepted(cur[r], "partial")
     THEN Record(cur[r], "partial") /\ GotoMember(r, "finishFailed", cur[r])
     ELSE UNCHANGED observation /\ Unwind(r)
  /\ UNCHANGED << storeVars, lease, book, cycles, outsideVars >>

FailMember(r) ==
  /\ pc[r] = "finishFailed"
  /\ IF FinishAccepted(cur[r], "failed")
     THEN FinishMember(cur[r], "failed") /\ Goto(r, "loop", Dropped(r, cur[r]))
     ELSE Unwind(r) /\ UNCHANGED storeVars
  /\ UNCHANGED << lease, book, cycles, observation, outsideVars >>

-----------------------------------------------------------------------------
(* Recording the run's outcome *)

\* finalize reads the rows in one transaction and writes its verdict in another.
ReadOutcome(r) ==
  /\ pc[r] = "finalRead"
  /\ GotoWrite(r, FinalOutcome)
  /\ UNCHANGED << storeVars, lease, book, cycles, observation, outsideVars >>

WriteOutcome(r) ==
  /\ pc[r] = "write"
  /\ SetStatus(task[r].verdict)
  /\ Goto(r, "release", NoTask)
  /\ UNCHANGED << lease, book, cycles, observation, outsideVars >>

-----------------------------------------------------------------------------
(* The system *)

Ensure(r) ==
  \/ LeaveAlone(r) \/ Postpone(r) \/ SkipClosedSession(r) \/ SkipMissedSession(r)
  \/ ExpireAwaitingData(r) \/ BeginExecution(r)

Capture(r) ==
  \/ MethodologyInvalid(r) \/ NeedsReauthentication(r) \/ SnapshotUnavailable(r)
  \/ PreflightMisconfigured(r) \/ PreflightNotReady(r) \/ PreflightReady(r)

Settle(r) == CloseObserve(r) \/ CloseMember(r) \/ CloseDone(r)

Execute(r) ==
  \/ ClaimMember(r) \/ LoopDone(r) \/ Trade(r) \/ TradeRaises(r) \/ RecordCycle(r)
  \/ RecordOfficial(r) \/ CompleteMember(r) \/ RecordPartial(r) \/ FailMember(r)

\* Every step of an invocation that has been started.
Proceed(r) ==
  \/ Enter(r) \/ Refused(r) \/ Ensure(r) \/ MarkRunning(r) \/ RecoverMember(r)
  \/ Reload(r) \/ Capture(r) \/ BindSnapshot(r) \/ BindRefused(r) \/ Settle(r)
  \/ Execute(r) \/ ReadOutcome(r) \/ WriteOutcome(r) \/ Release(r)

Next ==
  \/ Tick \/ LeaseRunsOut
  \/ \E r \in Runners :
       Decide(r) \/ Proceed(r) \/ RecordRaises(r) \/ Crash(r) \/ Abort(r)

Spec == Init /\ [][Next]_vars

-----------------------------------------------------------------------------
(* What must hold *)

Concluded == runStatus \in TerminalRun

\* However runners, leases and restarts interleave, a member's paper account
\* executes the session at most once: start_member hands a member out once and
\* nothing makes it pending again ("per-member conditional checkpoint updates
\* are the final idempotency barriers", docs/architecture/shared-storage.md).
AtMostOnce == \A m \in Members : Len(book[m]) <= 1

\* Every book that traded, traded on the snapshot the run is bound to, across
\* retries, rebinding after a wait and crashes (set_snapshot's contract).
SnapshotIntegrity ==
  \A m \in Members : book[m] # << >> => book[m] = << snapshot >>

\* The two stores agree about a member although no transaction spans them: a
\* completed member has an official observation, and an official observation is
\* never disowned as failed, interrupted or skipped.
EvidenceAgrees ==
  \A m \in Members :
    /\ member[m] = "completed" => observation[m] = "official"
    /\ observation[m] = "official" => member[m] \in {"running", "completed"}

\* A run that finalize concluded has no member left pending or running, and its
\* verdict is the one its members justify, though it was read in one transaction
\* and written in another: completed for all, partial for some, failed for none.
FinalizedIsSettled ==
  LET done == MembersIn("completed") IN
  runStatus \in {"completed", "partial", "failed"} =>
    /\ \A m \in Members : member[m] \in SettledMember
    /\ completed = done
    /\ runStatus = "completed" <=> done = Members
    /\ runStatus = "failed" <=> done = {}

\* The session keeps the abstract promise: a member's stage is what its row says.
Promise == INSTANCE OfficialSession WITH
  Outcomes <- TerminalRun,
  outcome  <- IF Concluded THEN runStatus ELSE "open",
  stage    <- [m \in Members |-> IF member[m] = "pending" THEN "untouched"
                                 ELSE IF member[m] = "running" THEN "claimed"
                                 ELSE "settled"],
  trades   <- [m \in Members |-> Len(book[m])]

KeepsPromise == Promise!Spec

-----------------------------------------------------------------------------
(* Liveness *)

\* The scheduler starts an invocation again and again, an invocation that is not
\* killed proceeds, the clock advances and leases run out.
Fairness ==
  /\ WF_vars(Tick)
  /\ WF_vars(LeaseRunsOut)
  /\ \A r \in Runners : WF_vars(Decide(r)) /\ WF_vars(Proceed(r))

FairSpec == Spec /\ Fairness

\* Once the deadline is past, invocations that name the session bring it to a
\* durable outcome "rather than retrying forever" (_run_owned).
SessionConcludes == (phase = "over") ~> Concluded

=============================================================================
